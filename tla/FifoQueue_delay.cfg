CONSTANTS
    Producers = {p1}
    Consumers = {c1, c2}
    Groups = {g1}
    DedupIds = {d1}
    MaxMsgs = 2
    MaxTime = 3
    MaxReceives = 3
    NumMessages = {2}
    VisibilityTimeouts = {0}
    QueueVisibilityTimeout = 1
    QueueDelaySeconds = 1
    MaxReceiveCount = 0
    DeduplicationInterval = 1
    RetentionPeriod = 2
    RetentionEnabled = TRUE
    DeduplicationScope = "queue"
    DelayPurgeRetry = TRUE
    PurgeRetrySeconds = 60
    MaxPurges = 1
    NoConsumer = NoConsumer
SPECIFICATION Spec
SYMMETRY ConsumerSymmetry
INVARIANT OnePlace
