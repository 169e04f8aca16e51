\* Honest voters only; peers forge votes with a bad signature.  CanVote
\* records the height before SignatureValid is checked.
CONSTANTS
    Nodes = {n1, n2, n3}
    Voters = {n1, n2, n3}
    Byzantine = {}
    Me = n1
    NoNode = NoNode
    Payees = {p1, p2}
    MaxHeight = 5
    MaxVoteHeight = 3
    NEnabled = 1
    NSize = 1
    MinCleanDepth = 2
    SigsRequired = 2
    NoVote = NoVote
    Forgeries = TRUE
SYMMETRY PayeeSymmetry
INIT Init
NEXT Next
INVARIANTS
    HonestVoteAcceptable
CHECK_DEADLOCK FALSE
