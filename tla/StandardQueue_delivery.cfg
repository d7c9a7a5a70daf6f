CONSTANTS
    Producers = {p1}
    Consumers = {c1, c2}
    MaxMsgs = 2
    MaxTime = 3
    MaxReceives = 3
    NumMessages = {1, 2}
    VisibilityTimeouts = {0}
    DelaySeconds = {0, 1}
    QueueVisibilityTimeout = 1
    MaxReceiveCount = 1
    RetentionPeriod = 1
    RetentionEnabled = TRUE
    DelayPurgeRetry = TRUE
    PurgeRetrySeconds = 60
SPECIFICATION Spec
SYMMETRY ConsumerSymmetry
INVARIANT TypeOK NoLostMessage PriorityOrder
