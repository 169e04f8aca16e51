\* the cs_vNodes TRY_LOCK of ClearFulfilledRequest may fail
CONSTANTS
    NPeers <- MCPeers
    Items = {h1}
    NoItem = NoItem
    SporkEnforcement = TRUE
    ClearMayFail = TRUE
    Churn = FALSE
    ArrivingKinds = {"mnb", "community"}
SPECIFICATION MCSpec
PROPERTIES SyncSettles
