SPECIFICATION Spec
CONSTANTS
    Device = {d1}
    Teleports = {}
    EnvKnown = {}
    SeedFiles = {{}, {d1}}
    RememberNewDevices = FALSE
    RequireIP = FALSE
    AlwaysNotify = FALSE
    RemoveOldDevices = TRUE
    FallbackEnabled = TRUE
    WSEventDelay = FALSE
    Interactive = TRUE
    ExportToSeed = FALSE
    Faults = FALSE
    Backoffs = 0
    TeleportCap = 0
    DecisionsCap = 1
    CommandsCap = 1
    MaxSleepers = 0
    MaxBoots = 1
    NoAlert = NoAlert
INVARIANT SeedHonoured
CHECK_DEADLOCK FALSE
