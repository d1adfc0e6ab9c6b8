CONSTANTS
    a = a  b = b  k1 = k1  k2 = k2  k3 = k3  k4 = k4
    Client = {a, b}
    Work <- TwoClients
    BatchSize = 3
    MaxChunkAttempts = 2
    StartAttempts = 2
    MaxConcurrent = 1
    MaxDaemons = 2
    AutoStart = {a, b}
    HoldCoversBoot = TRUE
SPECIFICATION MailFairSpec
INVARIANTS EachCommitOnce SlotsAreRequests
PROPERTIES HealthyNotKilled ClientsFinish
CHECK_DEADLOCK FALSE
