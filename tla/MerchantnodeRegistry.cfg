\* The bounds of MerchantnodeRegistry.cfg, under timely pings and the
\* fairness of TimelySpec.
CONSTANTS
    MaxBroadcasts = 2
    MinMnbSeconds = 1
    MinMnpSeconds = 2
    AnchorWindow = 2
    PingWindow = 3
    ExpirationSeconds = 4
    RemovalSeconds = 5
    NoEntry = NoEntry
SPECIFICATION TimelySpec
INVARIANT TypeOK
PROPERTIES Settles SpentForgotten
