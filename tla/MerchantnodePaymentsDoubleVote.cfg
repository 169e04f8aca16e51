\* A byzantine voter n3 signs two payees for one height; CanVote only
\* remembers the last height voted.
CONSTANTS
    Nodes = {n1, n2, n3}
    Voters = {n1, n2, n3}
    Byzantine = {n3}
    Me = n1
    NoNode = NoNode
    Payees = {p1, p2}
    MaxHeight = 5
    MaxVoteHeight = 3
    NEnabled = 1
    NSize = 1
    MinCleanDepth = 2
    SigsRequired = 2
    NoVote = NoVote
    Forgeries = FALSE
SYMMETRY PayeeSymmetry
INIT Init
NEXT Next
INVARIANTS
    OneVotePerNodeHeight
CHECK_DEADLOCK FALSE
