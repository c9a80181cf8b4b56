CONSTANTS
    Masks = {"off", "on"}
    AllOff = "off"
    MaxRequests = 2
    LinkSize = 2
    MaxFaults = 1
    MaxEvents = 1
SPECIFICATION FairSpec
INVARIANTS TypeOK
PROPERTIES TakenInOrder CommandsEnd DisplaySettles
