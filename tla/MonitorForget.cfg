SPECIFICATION Spec
CONSTANTS
    Device = {d1}
    Teleports = {}
    EnvKnown = {}
    SeedFiles = {{}}
    RememberNewDevices = FALSE
    RequireIP = FALSE
    AlwaysNotify = FALSE
    RemoveOldDevices = TRUE
    FallbackEnabled = TRUE
    WSEventDelay = FALSE
    Interactive = FALSE
    ExportToSeed = FALSE
    Faults = FALSE
    Backoffs = 0
    TeleportCap = 0
    DecisionsCap = 0
    CommandsCap = 0
    MaxSleepers = 0
    MaxBoots = 1
    NoAlert = NoAlert
PROPERTY OnlyAbsentForgotten
CHECK_DEADLOCK FALSE
