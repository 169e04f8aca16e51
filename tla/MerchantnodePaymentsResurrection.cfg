\* 1.25 * size outweighs the 1000-block floor (scaled here to 0):
\* int(1.25 * 1) = 1 block kept, while the range check truncates
\* nHeight - 1.25 towards zero and accepts votes 2 blocks back.
CONSTANTS
    Nodes = {n1, n2, n3}
    Voters = {n1, n2, n3}
    Byzantine = {}
    Me = n1
    NoNode = NoNode
    Payees = {p1, p2}
    MaxHeight = 5
    MaxVoteHeight = 3
    NEnabled = 1
    NSize = 1
    MinCleanDepth = 0
    SigsRequired = 2
    NoVote = NoVote
    Forgeries = FALSE
SYMMETRY PayeeSymmetry
INIT Init
NEXT Next
INVARIANTS
    NoResurrection
CHECK_DEADLOCK FALSE
