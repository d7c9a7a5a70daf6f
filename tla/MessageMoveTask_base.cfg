SPECIFICATION Spec
CONSTANTS
    Tasks = {t1, t2}
    NumMsgs = 2
    MaxReceives = 2
    InitialPolicy = "none"
    PolicyValues = {}
    MaxPolicyChanges = 0
    DeletableQueues = {"source", "destination"}
INVARIANT TypeOK MovedAtMostOnce
PROPERTY MessageMoveRefinement
