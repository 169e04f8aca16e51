------------------------- MODULE MerchantnodeElection -------------------------
(***************************************************************************)
(* The election engine of CMerchantnodeMan (src/merchantnodeman.cpp):      *)
(* GetMerchantnodeRank, which gates every payment vote, and                *)
(* GetNextMerchantnodeInQueueForPayment, which picks the payee a           *)
(* merchantnode votes for.  Both sort a vector with std::sort and a        *)
(* comparator that looks at the key only; std::sort is not stable, so      *)
(* entries with equal keys come out in an order the code does not fix.     *)
(* The model makes that order a nondeterministic choice, and lets several  *)
(* peers evaluate the same registry.                                       *)
(*                                                                         *)
(* An entry of vMerchantnodes is a record of what the functions read:      *)
(*   score    CalculateScore(1, h).GetCompact(false) for the rank, and     *)
(*            the uint256 score of the queue (the same order)              *)
(*   enabled  IsEnabled() after Check()                                    *)
(*   protocolOK  protocolVersion >= the minimum                            *)
(*   matured  GetAdjustedTime() - sigTime >= MN_WINNER_MINIMUM_AGE         *)
(*   queueOK  not IsScheduled and GetMerchantnodeInputAge() >= nMnCount    *)
(*   fresh    sigTime + nMnCount * 2.6 min > GetAdjustedTime()             *)
(*   paid     SecondsSincePayment()                                        *)
(***************************************************************************)
EXTENDS Integers, Sequences, FiniteSets

CONSTANTS
    Nodes,             \* the collateral outpoints in vMerchantnodes
    Peers,             \* nodes that evaluate the same registry
    SporkEnforcement,  \* IsSporkActive(SPORK_8_MASTERNODE_PAYMENT_ENFORCEMENT)
    TenthDivisor,      \* the 10 of CountEnabled() / 10, scaled with the registry
    NoNode,            \* a NULL CMerchantnode*
    NotComputed

ASSUME SporkEnforcement \in BOOLEAN /\ TenthDivisor \in Nat \ {0}

Entries == [score : Nat, enabled : BOOLEAN, protocolOK : BOOLEAN,
            matured : BOOLEAN, queueOK : BOOLEAN, fresh : BOOLEAN, paid : Nat]

VARIABLES
    vMerchantnodes,  \* [Nodes -> Entries]: this registry, the same for every peer
    answer           \* answer[p]: the last call peer p made and its result,
                     \*   [call |-> "rank", vin, r], [call |-> "queue", val]
                     \*   or [call |-> "current", val]

vars == <<vMerchantnodes, answer>>

-----------------------------------------------------------------------------
(* std::sort(v.rbegin(), v.rend(), cmp) with cmp comparing key(x) only:    *)
(* every sequence of S in descending key[x] order, equal keys in any order.   *)
RECURSIVE SortedDesc(_, _)
SortedDesc(S, key) ==
    IF S = {} THEN {<<>>}
    ELSE UNION { { <<x>> \o rest : rest \in SortedDesc(S \ {x}, key) } :
                 x \in {y \in S : \A z \in S : key[z] <= key[y]} }

Min2(a, b) == IF a <= b THEN a ELSE b
Max2(a, b) == IF a >= b THEN a ELSE b

Score(n) == vMerchantnodes[n].score
Paid(n) == vMerchantnodes[n].paid

\* CountEnabled(): Check(), then the protocol and the enabled state
CountEnabled == Cardinality({n \in Nodes : vMerchantnodes[n].protocolOK /\ vMerchantnodes[n].enabled})

\* the entries GetMerchantnodeRank(vin, h, minProtocol, fOnlyActive = true) scores
RankCandidates == {n \in Nodes :
    /\ vMerchantnodes[n].protocolOK
    /\ SporkEnforcement => vMerchantnodes[n].matured
    /\ vMerchantnodes[n].enabled}

\* the 1-based position of vin in the sorted scores, -1 when absent
RankIn(vin, order) ==
    IF \E i \in 1..Len(order) : order[i] = vin
    THEN CHOOSE i \in 1..Len(order) : order[i] = vin
    ELSE -1

\* the entries the queue loop pushes into vecMerchantnodeLastPaid
QueueCandidates(fFilterSigTime) == {n \in Nodes :
    /\ vMerchantnodes[n].enabled
    /\ vMerchantnodes[n].protocolOK
    /\ vMerchantnodes[n].queueOK
    /\ ~(fFilterSigTime /\ vMerchantnodes[n].fresh)}

\* a slip: the break is tested before the entry is scored, so nTenth = 0
\* looks at nothing
BestOfOldestBreakFirst(order) ==
    LET k == Min2(Len(order), CountEnabled \div TenthDivisor)
        best == {i \in 1..k : /\ \A j \in 1..(i-1) : Score(order[j]) < Score(order[i])
                              /\ \A j \in (i+1)..k : Score(order[j]) <= Score(order[i])}
    IN  IF best = {} THEN NoNode ELSE order[CHOOSE i \in best : TRUE]

(* The loop over the oldest: it scores each entry, keeps the first highest *)
(* (n > nHigh with nHigh = 0), and breaks once nCountTenth >= nTenth, so   *)
(* it looks at max(1, nTenth) entries.                                     *)
BestOfOldest(order) ==
    LET k == Min2(Len(order), Max2(1, CountEnabled \div TenthDivisor))
        best == {i \in 1..k : /\ \A j \in 1..(i-1) : Score(order[j]) < Score(order[i])
                              /\ \A j \in (i+1)..k : Score(order[j]) <= Score(order[i])}
    IN  IF best = {} THEN NoNode ELSE order[CHOOSE i \in best : TRUE]

\* the outcomes of GetMerchantnodeRank(vin, ...) over the orders std::sort may produce
GetMerchantnodeRank(vin) == {RankIn(vin, o) : o \in SortedDesc(RankCandidates, [n \in Nodes |-> Score(n)])}

(***************************************************************************)
(* GetNextMerchantnodeInQueueForPayment(h, fFilterSigTime, nCount): the     *)
(* outcomes over the orders of the sort by SecondsSincePayment, oldest     *)
(* first.  When the sigTime filter leaves fewer than a third of the        *)
(* enabled nodes, it calls itself again without the filter.                *)
(***************************************************************************)
RECURSIVE GetNextMerchantnodeInQueueForPayment(_)
GetNextMerchantnodeInQueueForPayment(fFilterSigTime) ==
    LET c == QueueCandidates(fFilterSigTime) IN
    IF fFilterSigTime /\ Cardinality(c) < CountEnabled \div 3
    THEN GetNextMerchantnodeInQueueForPayment(FALSE)
    ELSE {BestOfOldest(o) : o \in SortedDesc(c, [n \in Nodes |-> Paid(n)])}

(***************************************************************************)
(* GetCurrentMasterNode(1, h, minProtocol): Check() each entry, skip an    *)
(* old protocol or a disabled entry, keep the first with n2 > score, score *)
(* starting at 0.  Both callers (FillBlockPayee, the "current" RPC) pass   *)
(* minProtocol 0, so no entry is skipped for its protocol.                 *)
(* vMerchantnodes is scanned in its own order, which the model does not    *)
(* keep, so a tie may go to any of the tied entries.                       *)
(***************************************************************************)
GetCurrentMasterNode ==
    LET c == {n \in Nodes : vMerchantnodes[n].enabled /\ Score(n) > 0}
    IN  IF c = {} THEN {NoNode} ELSE {n \in c : \A m \in c : Score(m) <= Score(n)}

-----------------------------------------------------------------------------
(* A peer's IsValid or ProcessBlock ranks a node; a peer's ProcessBlock    *)
(* picks the queue winner (fFilterSigTime = true).  The registry is an     *)
(* input chosen by Init and read, not changed, by these functions.         *)

ComputeRank(p, v) ==
    /\ \E r \in GetMerchantnodeRank(v) :
          answer' = [answer EXCEPT ![p] = [call |-> "rank", vin |-> v, r |-> r]]
    /\ UNCHANGED vMerchantnodes

ComputeWinner(p) ==
    /\ \E w \in GetNextMerchantnodeInQueueForPayment(TRUE) :
          answer' = [answer EXCEPT ![p] = [call |-> "queue", val |-> w]]
    /\ UNCHANGED vMerchantnodes

\* FillBlockPayee with no block payee, or the "current" RPC, asks for the leader
ComputeCurrent(p) ==
    /\ \E c \in GetCurrentMasterNode :
          answer' = [answer EXCEPT ![p] = [call |-> "current", val |-> c]]
    /\ UNCHANGED vMerchantnodes

Init ==
    /\ vMerchantnodes \in [Nodes -> Entries]
    /\ answer = [p \in Peers |-> NotComputed]

Next ==
    \/ \E p \in Peers, v \in Nodes : ComputeRank(p, v)
    \/ \E p \in Peers : ComputeWinner(p)
    \/ \E p \in Peers : ComputeCurrent(p)

Spec == Init /\ [][Next]_vars

-----------------------------------------------------------------------------
(* Properties.  The references are written from spec 4.2, not from the    *)
(* loops above.                                                            *)

\* spec 4.2: the eligible set, with the age filter dropped when it leaves
\* fewer than a third
RefQueueEligible(filter) ==
    {n \in Nodes : /\ vMerchantnodes[n].enabled /\ vMerchantnodes[n].protocolOK
                   /\ vMerchantnodes[n].queueOK /\ (filter => ~vMerchantnodes[n].fresh)}
RefQueueSet == IF Cardinality(RefQueueEligible(TRUE)) < CountEnabled \div 3
               THEN RefQueueEligible(FALSE) ELSE RefQueueEligible(TRUE)
\* the oldest-unpaid shortlist, at least one node long
RefShortlist == {n \in RefQueueSet :
    Cardinality({m \in RefQueueSet : Paid(m) > Paid(n)}) < Max2(1, CountEnabled \div TenthDivisor)}
RefWinner == IF RefShortlist = {} THEN NoNode
             ELSE CHOOSE n \in RefShortlist : \A m \in RefShortlist : Score(m) <= Score(n)

(***************************************************************************)
(* Queue (GetNextMerchantnodeInQueueForPayment): with distinct payment     *)
(* ages and scores, the winner is the highest scoring node of the oldest   *)
(* tenth of the eligible nodes, NULL only when none is eligible.           *)
(***************************************************************************)
QueueMatchesReference ==
    \A p \in Peers : answer[p] # NotComputed /\ answer[p].call = "queue"
                       => answer[p].val = RefWinner
=====
