CONSTANTS
    C = 2
    Keys = {1}
    MailSize = 1
    MinHealthy = 2
    MaxEvents = 2
    MaxFaults = 2
SPECIFICATION Spec
INVARIANTS TypeOK InputTogglesOnce ConfirmedAfterHealth
PROPERTIES ToggleInverts
