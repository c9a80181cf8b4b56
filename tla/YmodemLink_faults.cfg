CONSTANTS
    N = 3
    MaxRetries = 4
    MaxErrors = 1
    MaxFaults = 3
    ReplyMax = 4
    Patience = 0
    Faults = {"lose", "corrupt", "garble", "reply", "delay", "flash"}
SPECIFICATION Spec
INVARIANTS TypeOK InOrder WholeWhenGone SenderNotAhead
CHECK_DEADLOCK FALSE
