\* three connected peers that stay silent
CONSTANTS
    NPeers = 3
    Items = {h1}
    NoItem = NoItem
    SporkEnforcement = FALSE
    ClearMayFail = FALSE
    Churn = FALSE
    ArrivingKinds = {"mnb", "community"}
SPECIFICATION MCSpec
PROPERTIES SyncSettles
