CONSTANTS
    N = 2
    MaxRetries = 3
    MaxErrors = 2
    MaxFaults = 1
    ReplyMax = 3
    Patience = 2
    Faults = {"lose"}
SPECIFICATION FairSpec
PROPERTIES EverySendEnds
CHECK_DEADLOCK FALSE
