SPECIFICATION FairSpec
CONSTANTS
    Alert = {a1}
    User = {u1, u2}
    AllowedUsers = {u1}
    Settings <- MCSettings
    OldLabels <- MCOldLabels
    MaxInt = 1048575
    Nanos = 2
    DecisionsCap = 1
    CommandsCap = 1
    MaxPresses = 2
    MaxBoots = 2
    MaxLost = 1
INVARIANTS TypeOK ToldMeansQueued OnceUnlessAckLost ButtonsAllow
PROPERTIES ImplementsFeed PressApplied
CHECK_DEADLOCK FALSE
