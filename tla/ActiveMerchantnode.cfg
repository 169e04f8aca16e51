\* A hot node with an empty wallet, activated from its cold wallet
\* (start-alias), two broadcasts, two restarts or losses of the synced chain.
CONSTANTS
    MaxBroadcasts = 2
    MinMnbSeconds = 1
    MinMnpSeconds = 2
    AnchorWindow = 2
    PingWindow = 3
    ExpirationSeconds = 4
    RemovalSeconds = 5
    NoEntry = NoEntry
    Funded = FALSE
    ConfListed = FALSE
    MaxDisturbances = 2
SPECIFICATION MCSpec
INVARIANT TypeOK
PROPERTIES StaysStarted StartedEntryEnabled
