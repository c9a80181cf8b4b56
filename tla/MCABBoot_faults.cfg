CONSTANTS
    imgA = imgA
    imgB = imgB
    badB = badB
    Images = {imgA, imgB}
    NoImage = NoImage
    Unreadable = Unreadable
    MaxPages = 2
    LinkSlot <- LinkABB
    Size <- SizeAll
    CounterMax = 4
    Healthy = {imgA}
    Hanging = {}
    Faults = {"tear_state", "tear_bootctl", "flash", "hang"}
SPECIFICATION HSpec
INVARIANTS TypeOK PendingVerified TrialBound FallbackStarts
PROPERTIES WritesSpareConfirmed
