\* Three honest voters, this node among them, two payees, tips 1..5, votes
\* for heights 1..3; peers forge votes with a bad signature.
\* Two votes are required, so two payees could only both reach it with a
\* voter counted twice.  The range check reaches back two blocks
\* (1.25 enabled nodes) and CleanPaymentList drops votes more than two
\* blocks old, as the 1000-block floor exceeds 1.25 * CountEnabled.
CONSTANTS
    Nodes = {n1, n2, n3}
    Voters = {n1, n2, n3}
    Byzantine = {}
    Me = n1
    NoNode = NoNode
    Payees = {p1, p2}
    MaxHeight = 5
    MaxVoteHeight = 3
    NEnabled = 1
    NSize = 1
    MinCleanDepth = 2
    SigsRequired = 2
    NoVote = NoVote
    Forgeries = TRUE
SYMMETRY PayeeVoterSymmetry
INIT Init
NEXT Next
INVARIANTS
    PayeeUnique
    NoResurrection
    TallyMatchesVotes
PROPERTY
    LedgerRefinement
CHECK_DEADLOCK FALSE
