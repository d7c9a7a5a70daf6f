SPECIFICATION Spec
CONSTANTS
    Tasks = {}
    NumMsgs = 2
    MaxReceives = 2
    InitialPolicy = "valid"
    PolicyValues = {"none"}
    MaxPolicyChanges = 1
    DeletableQueues = {"source"}
PROPERTY MessageMoveRefinement
