CONSTANTS
    Depth = 2
    BufSize = 5
    LineSizes = {1, 3}
    MaxMessages = 4
    MaxStarts = 3
    Faults = {"power", "mount", "files"}
SPECIFICATION FairSpec
INVARIANTS TypeOK InOrder StartsNumbered
PROPERTIES ReadingsStored
CHECK_DEADLOCK FALSE
