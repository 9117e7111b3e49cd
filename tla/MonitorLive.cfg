SPECIFICATION FairSpec
CONSTANTS
    Device = {d1}
    Teleports = {}
    EnvKnown = {}
    SeedFiles = {{}}
    RememberNewDevices = FALSE
    RequireIP = TRUE
    AlwaysNotify = FALSE
    RemoveOldDevices = FALSE
    FallbackEnabled = TRUE
    WSEventDelay = TRUE
    Interactive = TRUE
    ExportToSeed = FALSE
    Faults = FALSE
    Backoffs = 1
    TeleportCap = 0
    DecisionsCap = 1
    CommandsCap = 0
    MaxSleepers = 0
    MaxBoots = 1
    NoAlert = NoAlert
INVARIANT CheckIsComplete
PROPERTIES NewDeviceAlerted ShutdownCompletes LapsedAllowAlerts
CHECK_DEADLOCK FALSE
