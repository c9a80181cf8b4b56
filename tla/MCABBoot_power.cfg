CONSTANTS
    imgA = imgA
    imgB = imgB
    badB = badB
    Images = {imgA, imgB}
    NoImage = NoImage
    Unreadable = Unreadable
    MaxPages = 2
    LinkSlot <- LinkABB
    Size <- SizeAll
    CounterMax = 4
    Healthy = {imgA, imgB}
    Hanging = {}
    Faults = {"tear_state"}
SPECIFICATION HSpec
INVARIANTS ConfirmedIntact AppNotMidUpgrade StayBound
PROPERTIES WritesSpareHome ImplementsABUpdate
