SPECIFICATION Spec
CONSTANTS
  t1 = t1
  t2 = t2
  k1 = k1
  k2 = k2
  Tables = {t1, t2}
  Keys = {k1, k2}
  MaxId = 3
  ChunkRows = 1
  MaxFailures = 1
  MaxLostAcks = 1
SYMMETRY Symmetric
INVARIANTS
  UniqueIds
  NoLostRow
  ReadYourWrites
PROPERTIES
  ImplementsDirectory
