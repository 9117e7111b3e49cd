SPECIFICATION FairSpec
CONSTANTS
    Alert = {a1}
    NoAlert = NoAlert
    Services = {"Telegram", "Ntfy", "Discord", "Pushover", "None", "MQTT"}
    MaxRetries = 3
    Hints <- MCHints
    MaxLinks = 2
    OldList = {m1}
    Lists = {{}, {m1, m2}}
INVARIANTS TypeOK OncePerLink SentMeansAccepted RateLimitRespected NeverHalfWritten ReportedTruthfully
    OnlineWhenSettled OfflineOrWilled
PROPERTIES OnlineWhileConnected OfflineWhenGone SignalEnds
CHECK_DEADLOCK FALSE
