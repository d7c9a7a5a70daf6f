CONSTANTS
    Producers = {p1}
    Consumers = {c1, c2}
    Groups = {g1}
    DedupIds = {d1}
    MaxMsgs = 2
    MaxTime = 1
    MaxReceives = 2
    NumMessages = {1}
    VisibilityTimeouts = {0}
    QueueVisibilityTimeout = 1
    QueueDelaySeconds = 0
    MaxReceiveCount = 0
    DeduplicationInterval = 1
    RetentionPeriod = 3
    RetentionEnabled = FALSE
    DeduplicationScope = "queue"
    DelayPurgeRetry = TRUE
    PurgeRetrySeconds = 60
    MaxPurges = 1
    NoConsumer = NoConsumer
SPECIFICATION Spec
SYMMETRY ConsumerSymmetry
INVARIANT PurgeIsFinal
