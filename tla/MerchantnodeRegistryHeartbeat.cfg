\* The bounds of MerchantnodeRegistry.cfg, under timely pings.
CONSTANTS
    MaxBroadcasts = 2
    MinMnbSeconds = 1
    MinMnpSeconds = 2
    AnchorWindow = 2
    PingWindow = 3
    ExpirationSeconds = 4
    RemovalSeconds = 5
    NoEntry = NoEntry
SPECIFICATION TimelySpec
PROPERTY HeartbeatRefreshes
