SPECIFICATION Spec
CONSTANTS
    Device = {d1}
    Teleports = {}
    EnvKnown = {}
    SeedFiles = {{}}
    RememberNewDevices = TRUE
    RequireIP = FALSE
    AlwaysNotify = FALSE
    RemoveOldDevices = FALSE
    FallbackEnabled = TRUE
    WSEventDelay = TRUE
    Interactive = FALSE
    ExportToSeed = FALSE
    Faults = FALSE
    Backoffs = 4
    TeleportCap = 8
    DecisionsCap = 0
    CommandsCap = 0
    MaxSleepers = 1
    MaxBoots = 1
    NoAlert = NoAlert
INVARIANT NoAlertForKnown
CHECK_DEADLOCK FALSE
