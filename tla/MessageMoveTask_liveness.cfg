SPECIFICATION FairSpec
CONSTANTS
    Tasks = {t1, t2}
    NumMsgs = 2
    MaxReceives = 2
    InitialPolicy = "valid"
    PolicyValues = {"none", "noTarget", "valid"}
    MaxPolicyChanges = 1
    DeletableQueues = {"source", "destination"}
PROPERTY TaskSettles
