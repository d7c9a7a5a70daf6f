CONSTANTS
    Producers = {p1}
    Consumers = {c1, c2}
    Groups = {g1}
    DedupIds = {d1}
    MaxMsgs = 3
    MaxTime = 2
    MaxReceives = 3
    NumMessages = {2}
    VisibilityTimeouts = {0, 2}
    QueueVisibilityTimeout = 1
    QueueDelaySeconds = 0
    MaxReceiveCount = 0
    DeduplicationInterval = 1
    RetentionPeriod = 3
    RetentionEnabled = FALSE
    DeduplicationScope = "queue"
    DelayPurgeRetry = TRUE
    PurgeRetrySeconds = 60
    MaxPurges = 0
    NoConsumer = NoConsumer
SPECIFICATION Spec
SYMMETRY ConsumerSymmetry
INVARIANT GroupExclusive
