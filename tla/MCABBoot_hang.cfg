CONSTANTS
    imgA = imgA
    imgB = imgB
    badB = badB
    Images = {imgA, imgB, badB}
    NoImage = NoImage
    Unreadable = Unreadable
    MaxPages = 2
    LinkSlot <- LinkABB
    Size <- SizeMixed
    CounterMax = 4
    Healthy = {imgA}
    Hanging = {badB}
    Faults = {"tear_bootctl", "hang"}
SPECIFICATION HFairSpec
INVARIANTS HangBound JumpIsRecorded
PROPERTIES TrialResolves
