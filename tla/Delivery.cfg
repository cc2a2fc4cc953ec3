CONSTANTS
    Peers = {p, q}
    MaxEvents = 2
    QueueSize = 1
    BatchSize = 1
    RetrySize = 1
    KeptSize = 1
    Forgotten = 1
    MaxRetries = 2
    MaxRefusals = 2
SPECIFICATION FairSpec
INVARIANTS TypeOK NothingForgotten
PROPERTIES KeptIsSent
CHECK_DEADLOCK FALSE
