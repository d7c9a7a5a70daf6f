CONSTANTS
    Producers = {p1}
    Consumers = {c1, c2}
    MaxMsgs = 3
    MaxTime = 2
    MaxReceives = 3
    NumMessages = {1}
    VisibilityTimeouts = {0}
    DelaySeconds = {0}
    QueueVisibilityTimeout = 1
    MaxReceiveCount = 1
    RetentionPeriod = 1
    RetentionEnabled = TRUE
    DelayPurgeRetry = TRUE
    PurgeRetrySeconds = 60
SPECIFICATION Spec
SYMMETRY ConsumerSymmetry
INVARIANT RetentionOnlyExpired
