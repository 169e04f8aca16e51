\* Six peers, enforcement on, mnb and community items; an item, a forgotten
\* hash, a sleep or a reconnecting peer disturb the sync at most three times.
CONSTANTS
    NPeers <- MCPeers
    Items = {h1}
    NoItem = NoItem
    SporkEnforcement = TRUE
    ClearMayFail = FALSE
    Churn = TRUE
    ArrivingKinds = {"mnb", "community"}
SPECIFICATION MCSpec
INVARIANT TypeOK
PROPERTIES SyncStageDiscipline SyncSettles
