----------------------------- MODULE PayeeLedger -----------------------------
(***************************************************************************)
(* What the payment-vote ledger promises (spec 4.2 and 8), without the     *)
(* messages, hashes, locks and tallies of CMerchantnodePayments: a set of  *)
(* accepted votes that grows one vote at a time, with at most one vote of  *)
(* a voter for a height, and that pruning shrinks from the oldest heights  *)
(* up; a vote once pruned is never accepted again.                         *)
(***************************************************************************)
EXTENDS Integers

CONSTANTS Voters, Payees, VoteHeights

VARIABLES
    accepted,   \* the votes the ledger holds
    dropped     \* the votes pruning has removed

Vote == [vin : Voters, h : VoteHeights, payee : Payees]

\* a voter has no vote for height h, held or pruned
Unvoted(v, h) == \A w \in accepted \cup dropped : ~(w.vin = v /\ w.h = h)

Accept(m) ==
    /\ accepted' = accepted \cup {m}
    /\ Unvoted(m.vin, m.h)
    /\ UNCHANGED dropped

\* pruning removes some votes, each older than every vote it keeps
Prune ==
    /\ accepted' \subseteq accepted
    /\ accepted' # accepted
    /\ \A w \in accepted \ accepted', x \in accepted' : w.h < x.h
    /\ dropped' = dropped \cup (accepted \ accepted')

Init == accepted = {} /\ dropped = {}

Next == (\E m \in Vote : Accept(m)) \/ Prune

Spec == Init /\ [][Next]_<<accepted, dropped>>
====
