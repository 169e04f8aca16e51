\* A hot node whose own wallet holds the collateral (not listed in
\* merchantnode.conf): it activates itself, with no cold wallet.
CONSTANTS
    MaxBroadcasts = 2
    MinMnbSeconds = 1
    MinMnpSeconds = 2
    AnchorWindow = 2
    PingWindow = 3
    ExpirationSeconds = 4
    RemovalSeconds = 5
    NoEntry = NoEntry
    Funded = TRUE
    ConfListed = FALSE
    MaxDisturbances = 2
SPECIFICATION MCSpec
PROPERTY StaysStarted
