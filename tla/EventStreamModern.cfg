SPECIFICATION FairSpec
CONSTANTS
    Modern = TRUE
    TeleportCap = 1
PROPERTY Reconnects
