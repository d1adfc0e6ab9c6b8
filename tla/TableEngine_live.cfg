SPECIFICATION FairSpec
CONSTANTS
  t1 = t1
  t2 = t2
  k1 = k1
  k2 = k2
  Tables = {t1}
  Keys = {k1, k2}
  MaxId = 3
  ChunkRows = 2
  MaxFailures = 2
  MaxLostAcks = 0
PROPERTY EventuallyStored
