SPECIFICATION Spec
CONSTANTS
    Offered <- MCOffered
    Legal <- MCLegal
    LegalPulses <- MCLegalPulses
    Defaults <- MCDefaults
    Unreadable = Unreadable
    TickMod = 6
    Window = 2
    MaxSequence = 3
    Faults = {"power", "flash"}
INVARIANTS TypeOK EffectiveValid CleanMeansSame NoticedBySensor
PROPERTIES RestartKeeps WithinWindow
