SPECIFICATION FairSpec
CONSTANTS
    Modern = FALSE
    TeleportCap = 1
INVARIANT TypeOK
PROPERTIES Reconnects FetchesRecover StopsOnCancel
