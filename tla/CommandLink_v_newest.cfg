CONSTANTS
    Masks = {"off", "on"}
    AllOff = "off"
    MaxRequests = 2
    LinkSize = 2
    MaxFaults = 0
    MaxEvents = 0
SPECIFICATION Spec
INVARIANTS NewestStands
