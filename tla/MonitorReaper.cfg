SPECIFICATION Spec
CONSTANTS
    Device = {t1, d2}
    Teleports = {t1}
    EnvKnown = {}
    SeedFiles = {{}, {d2}}
    RememberNewDevices = TRUE
    RequireIP = FALSE
    AlwaysNotify = FALSE
    RemoveOldDevices = TRUE
    FallbackEnabled = FALSE
    WSEventDelay = TRUE
    Interactive = FALSE
    ExportToSeed = FALSE
    Faults = FALSE
    Backoffs = 0
    TeleportCap = 1
    DecisionsCap = 0
    CommandsCap = 0
    MaxSleepers = 1
    MaxBoots = 1
    NoAlert = NoAlert
INVARIANTS MemoryMatchesTable SeedHonoured CheckIsComplete
PROPERTIES OnlyAbsentForgotten ImplementsContract
CHECK_DEADLOCK FALSE
