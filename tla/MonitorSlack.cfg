SPECIFICATION Spec
CONSTANTS
    Device = {d1}
    Teleports = {}
    EnvKnown = {}
    SeedFiles = {{}, {d1}}
    RememberNewDevices = FALSE
    RequireIP = FALSE
    AlwaysNotify = FALSE
    RemoveOldDevices = FALSE
    FallbackEnabled = FALSE
    WSEventDelay = FALSE
    Interactive = TRUE
    ExportToSeed = TRUE
    Faults = TRUE
    Backoffs = 1
    TeleportCap = 0
    DecisionsCap = 1
    CommandsCap = 1
    MaxSleepers = 0
    MaxBoots = 2
    NoAlert = NoAlert
INVARIANTS TypeOK KnownIsAccounted LiveRowsKnown AllowedStaysQuiet
PROPERTIES SeedLostForCause ImplementsContract
CHECK_DEADLOCK FALSE
