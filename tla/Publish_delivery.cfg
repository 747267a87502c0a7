\* Gaps longer than the queue and than the Republish limit, five faults.
SPECIFICATION FairSpec
CONSTANTS
    MaxRepublish = 2
    QueueSize = 4
    MaxSeq = 6
    MaxFaults = 5
INVARIANTS TypeOK NoSilentLoss
PROPERTIES Keeps CatchesUp
CHECK_DEADLOCK FALSE
