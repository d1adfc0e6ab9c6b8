SPECIFICATION FairSpec
CONSTANTS
  Files = {"a", "b", "c", "d", "e"}
  Batches <- FourBatches
  NumWorkers = 2
  TasksAhead = 2
  PrefetchDepth = 1
  SerializeDepth = 3
  PipeFrames = 2
  Killers = {"b"}
  Faulty = {"c"}
  Rejected = {"e"}
  MaxFaults <- FewFaults
  DeadlineSet = TRUE
INVARIANTS
  Custody
  NoDoubleIngest
  AccountedFor
PROPERTIES
  Termination
