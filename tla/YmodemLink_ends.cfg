CONSTANTS
    N = 5
    MaxRetries = 3
    MaxErrors = 2
    MaxFaults = 3
    ReplyMax = 3
    Patience = 2
    Faults = {"lose", "corrupt"}
SPECIFICATION FairSpec
PROPERTIES TransferEnds TransferCompletes
CHECK_DEADLOCK FALSE
