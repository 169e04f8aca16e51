\* Four nodes, a tenth scaled to a half (nTenth = CountEnabled / 2), distinct
\* scores and payment ages; one peer, as with distinct keys the sort is unique.
CONSTANTS
    Nodes = {1, 2, 3, 4}
    Peers = {a}
    SporkEnforcement = TRUE
    TenthDivisor = 2
    NoNode = NoNode
    NotComputed = NotComputed
SPECIFICATION MCReferenceSpec
INVARIANT
    QueueMatchesReference
