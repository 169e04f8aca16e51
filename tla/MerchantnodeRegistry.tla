------------------------- MODULE MerchantnodeRegistry -------------------------
(***************************************************************************)
(* The registry entry of one merchantnode collateral, as one peer holds it *)
(* (CMerchantnodeMan in src/merchantnodeman.cpp, CMerchantnode and its     *)
(* broadcast and ping in src/merchantnode.cpp): the mnb and mnp handlers,  *)
(* the lifecycle CMerchantnode::Check and the periodic CheckAndRemove.     *)
(* The owner of the collateral (the hot node and its cold wallet) and the  *)
(* other peers are the environment: the owner signs                        *)
(* broadcasts and a ping every period, peers relay any of them, late, any *)
(* number of times or never, and a peer that holds the entry answers dseg  *)
(* with a broadcast carrying its newest ping.                              *)
(*                                                                         *)
(* Time is counted in periods of 5 minutes (MERCHANTNODE_PING_SECONDS,     *)
(* ManageStatus runs once a period) and kept as ages that saturate once    *)
(* every comparison of the code is settled, so the model has no horizon.   *)
(* Broadcast i is the i-th the owner signed; its hash, hash(sigTime,       *)
(* pubKeyCollateralAddress), is i.  A ping is named by its age: its hash   *)
(* is hash(vin, sigTime).  The dseg handler's insert of an enabled       *)
(* entry's broadcast into the seen map is left out: that hash is never     *)
(* missing while the entry is enabled (it is inserted on receipt, erased   *)
(* only with the entry, and its ping is kept fresh by the mnp handler).    *)
(* A ping past the sigTime window fails with nDoS = 1 and also reaches    *)
(* AskForMN; such pings are left out, as they only add asks to the ones    *)
(* the owner's current pings make.                                         *)
(***************************************************************************)
EXTENDS Naturals, FiniteSets

CONSTANTS
    MaxBroadcasts,      \* broadcasts the owner signs (start, restart, start-alias)
    MinMnbSeconds,      \* MERCHANTNODE_MIN_MNB_SECONDS, in periods
    MinMnpSeconds,      \* MERCHANTNODE_MIN_MNP_SECONDS, in periods
    PingWindow,         \* the 60 * 60 s a ping's sigTime may lag GetAdjustedTime()
    AnchorWindow,       \* periods in which the chain grows the 12 blocks between a
                        \* ping's anchor (tip - 12) and the limit tip - 24
    ExpirationSeconds,  \* MERCHANTNODE_EXPIRATION_SECONDS, in periods
    RemovalSeconds,     \* MERCHANTNODE_REMOVAL_SECONDS, in periods
    NoEntry             \* Find(vin) == NULL

ASSUME /\ MaxBroadcasts \in Nat \ {0}
       /\ 0 < MinMnbSeconds /\ MinMnbSeconds <= MinMnpSeconds
       /\ MinMnpSeconds <= AnchorWindow /\ AnchorWindow < PingWindow
       /\ PingWindow < ExpirationSeconds /\ ExpirationSeconds < RemovalSeconds
       /\ PingWindow + MinMnpSeconds <= RemovalSeconds

Broadcasts == 1..MaxBroadcasts
States == {"PRE_ENABLED", "ENABLED", "EXPIRED", "VIN_SPENT", "REMOVE"}

\* the ages past which no comparison changes
SigAgeCap == RemovalSeconds + MinMnpSeconds
SeenCap == 2 * RemovalSeconds + 1

\* a slip: an age that keeps growing past the point where every comparison
\* is settled
OlderUncapped(a, cap) == a + 1

Older(a, cap) == IF a < cap THEN a + 1 ELSE cap
Min2(a, b) == IF a <= b THEN a ELSE b

VARIABLES
    announced,   \* broadcasts 1..announced have been signed by the owner
    sigAge,      \* sigAge[i]: periods since broadcast i was signed
    spent,       \* the collateral output has been spent
    entry,       \* the element of vMerchantnodes for the collateral, or NoEntry:
                 \* [b: the broadcast whose sigTime it holds,
                 \*  lastPing: the age of lastPing.sigTime, activeState]
    mapSeenMerchantnodeBroadcast,  \* hash -> the age of its lastPing.sigTime
    mapSeenMerchantnodePing,       \* the ages of the seen pings younger than PingWindow
    askLeft,     \* mWeAskedForMerchantnodeListEntry[vin]: periods until askAgain
                 \* is reached, 0 when there is no entry or it has passed
    dsegAsked    \* a dseg for the vin, sent by AskForMN, awaits its answer

vars == <<announced, sigAge, spent, entry, mapSeenMerchantnodeBroadcast,
          mapSeenMerchantnodePing, askLeft, dsegAsked>>

-----------------------------------------------------------------------------
(* A seen ping older than PingWindow is left out of mapSeenMerchantnodePing: *)
(* such a ping fails the sigTime window whether or not it was seen, and the  *)
(* failure changes nothing the model holds.                                  *)

\* the pings the owner has signed that are still inside the window
Pings == IF announced = 0 THEN {} ELSE 0..Min2(sigAge[1], PingWindow - 1)

\* the pings a broadcast i may carry: its own, signed with it, or a newer one
\* added by a peer that answers dseg; PingWindow stands for every older one
Carried(i) == 0..Min2(sigAge[i], PingWindow)

\* CMerchantnode::IsEnabled
IsEnabled(e) == e # NoEntry /\ e.activeState = "ENABLED"

(***************************************************************************)
(* CMerchantnode::Check(forceCheck): VIN_SPENT is kept; then removal,      *)
(* expiry and the maturity of the last ping are decided before the         *)
(* TRY_LOCK(cs_main) whose failure returns with the state unchanged, and   *)
(* AcceptableInputs decides between VIN_SPENT and ENABLED.  The 5 s        *)
(* MERCHANTNODE_CHECK_SECONDS guard is below one period: a call it skips is *)
(* a call that comes later.                                                *)
\* a slip: the expiry test comes before the removal test
CheckExpiryFirst(e, lockMain) ==
    IF e.activeState = "VIN_SPENT" THEN e
    ELSE [e EXCEPT !.activeState =
            CASE e.lastPing >= ExpirationSeconds -> "EXPIRED"
              [] e.lastPing >= RemovalSeconds -> "REMOVE"
              [] sigAge[e.b] - e.lastPing < MinMnpSeconds -> "PRE_ENABLED"
              [] ~lockMain -> e.activeState
              [] spent -> "VIN_SPENT"
              [] OTHER -> "ENABLED"]

(***************************************************************************)
Check(e, lockMain) ==
    IF e.activeState = "VIN_SPENT" THEN e
    ELSE [e EXCEPT !.activeState =
            CASE e.lastPing >= RemovalSeconds                -> "REMOVE"
              [] e.lastPing >= ExpirationSeconds             -> "EXPIRED"
              [] sigAge[e.b] - e.lastPing < MinMnpSeconds    -> "PRE_ENABLED"
              [] ~lockMain                                   -> e.activeState
              [] spent                                       -> "VIN_SPENT"
              [] OTHER                                       -> "ENABLED"]

\* CMerchantnodePing::CheckAndUpdate's rate limit, !IsPingedWithin(MIN_MNP - 60,
\* sigTime): at least 540 s, that is two periods, after the last ping
PingDue(e, p) == e.lastPing - p >= MinMnpSeconds

\* the anchor block (tip - 12 when signed) is not below tip - 24
AnchorRecent(p) == p <= AnchorWindow

(***************************************************************************)
(* The mnb handler (CMerchantnodeMan::ProcessMessage "mnb"), one step: the *)
(* seen check and insert, CMerchantnodeBroadcast::CheckAndUpdate with the  *)
(* update of an enabled entry (UpdateFromNewBroadcast, the full check of   *)
(* the carried ping, Check), then CheckInputsAndAdd: the merchantnode's    *)
(* own broadcast is left alone (own: fMasterNode, the vin is              *)
(* activeMerchantnode.vin and the key the node's own), an enabled entry is *)
(* kept, any other is removed before the TRY_LOCK(cs_main), the            *)
(* AcceptableInputs and the confirmation checks, and a new entry, ENABLED  *)
(* by the constructor, is added.  lockCheck and lockAdd are the outcomes   *)
(* of the two TRY_LOCKs, mature whether GetInputAge reaches                *)
(* MERCHANTNODE_MIN_CONFIRMATIONS on this peer's chain.                    *)
(***************************************************************************)
UpdateFromNewBroadcast(i, p) ==
    LET e1 == [entry EXCEPT !.b = i]
        pingOK == PingDue(e1, p) /\ AnchorRecent(p)
    IN  [entry |-> IF pingOK THEN [e1 EXCEPT !.lastPing = p] ELSE e1, pingOK |-> pingOK]

\* mapSeenMerchantnodeBroadcast.erase(GetHash()): checked again when relayed again
Forget(seen, i) == [h \in DOMAIN seen \ {i} |-> seen[h]]

\* CMerchantnode(mnb) and mnodeman.Add: a new entry for broadcast i with its
\* ping p, ENABLED until its first Check
NewMerchantnode(i, p) == [b |-> i, lastPing |-> p, activeState |-> "ENABLED"]

\* a slip: the AcceptableInputs test is left out
CheckInputsAndAddUnspent(e, i, p, lockAdd, mature, seen, own) ==
    CASE own \/ IsEnabled(e) -> [entry |-> e, seen |-> seen, added |-> FALSE]
      [] ~lockAdd -> [entry |-> NoEntry, seen |-> Forget(seen, i), added |-> FALSE]
      [] ~mature  -> [entry |-> NoEntry, seen |-> Forget(seen, i), added |-> FALSE]
      [] OTHER    -> [entry |-> NewMerchantnode(i, p),
                      seen |-> seen, added |-> TRUE]

CheckInputsAndAdd(e, i, p, lockAdd, mature, seen, own) ==
    CASE own          -> [entry |-> e, seen |-> seen, added |-> FALSE]
      [] IsEnabled(e) -> [entry |-> e, seen |-> seen, added |-> FALSE]
      [] ~lockAdd     -> [entry |-> NoEntry, seen |-> Forget(seen, i), added |-> FALSE]
      [] spent        -> [entry |-> NoEntry, seen |-> seen, added |-> FALSE]
      [] ~mature      -> [entry |-> NoEntry, seen |-> Forget(seen, i), added |-> FALSE]
      [] OTHER        -> [entry |-> NewMerchantnode(i, p),
                          seen |-> seen, added |-> TRUE]

\* the carried ping is past the sigTime window, or the entry already holds a
\* broadcast signed at the same time or later (pmn->sigTime >= sigTime)
Outdated(i, p) == p >= PingWindow \/ (entry # NoEntry /\ entry.b >= i)

\* what the handler leaves behind: the entry, the two seen maps, and whether
\* CheckInputsAndAdd added a new entry (where it calls EnableHotColdMasterNode)
MnbOutcome(i, p, lockCheck, lockAdd, mature, own) ==
    LET seen == [h \in DOMAIN mapSeenMerchantnodeBroadcast \cup {i} |->
                    IF h = i THEN p ELSE mapSeenMerchantnodeBroadcast[h]]
    IN  CASE Outdated(i, p) ->
                 [entry |-> entry, seen |-> seen, pings |-> mapSeenMerchantnodePing, added |-> FALSE]
          [] IsEnabled(entry) /\ sigAge[entry.b] >= MinMnbSeconds ->
                 LET u == UpdateFromNewBroadcast(i, p)
                     e == Check(u.entry, lockCheck)
                     r == CheckInputsAndAdd(e, i, p, lockAdd, mature, seen, own)
                 IN  [entry |-> r.entry, seen |-> r.seen, added |-> r.added,
                      pings |-> IF u.pingOK /\ IsEnabled(e) THEN mapSeenMerchantnodePing \cup {p}
                                ELSE mapSeenMerchantnodePing]
          [] OTHER ->
                 LET r == CheckInputsAndAdd(entry, i, p, lockAdd, mature, seen, own)
                 IN  [entry |-> r.entry, seen |-> r.seen, added |-> r.added,
                      pings |-> mapSeenMerchantnodePing]

HandleMnb(i, p, lockCheck, lockAdd, mature, own) ==
    /\ i \notin DOMAIN mapSeenMerchantnodeBroadcast
    /\ LET o == MnbOutcome(i, p, lockCheck, lockAdd, mature, own)
       IN  /\ entry' = o.entry
           /\ mapSeenMerchantnodeBroadcast' = o.seen
           /\ mapSeenMerchantnodePing' = o.pings
    /\ UNCHANGED <<announced, sigAge, spent, askLeft>>

\* the handler at a peer that is not the collateral's merchantnode
ReceiveMnb(i, p, lockCheck, lockAdd, mature) ==
    HandleMnb(i, p, lockCheck, lockAdd, mature, FALSE) /\ UNCHANGED dsegAsked

(***************************************************************************)
(* AskForMN(pnode, vin): nothing while GetTime() is before the askAgain    *)
(* recorded for the outpoint; otherwise a dseg for the vin to the peer and *)
(* askAgain = GetTime() + MIN_MNP_SECONDS.                                 *)
(***************************************************************************)
AskForMN ==
    IF askLeft > 0 THEN UNCHANGED <<askLeft, dsegAsked>>
    ELSE askLeft' = MinMnpSeconds /\ dsegAsked' = TRUE

(***************************************************************************)
(* The mnp handler (ProcessMessage "mnp" and CMerchantnodePing::           *)
(* CheckAndUpdate with fRequireEnabled = true): the seen check and insert, *)
(* then, for a known entry, the enabled check, the rate limit, the anchor  *)
(* check, the new lastPing (also in the seen broadcast) and Check(true).   *)
(* Every refusal leaves the entry alone; a ping of a vin this peer does   *)
(* not hold (Find returns NULL, nDoS stays 0) makes it call AskForMN.      *)
(***************************************************************************)
ReceiveMnp(p, lockMain) ==
    /\ p \notin mapSeenMerchantnodePing
    /\ mapSeenMerchantnodePing' = mapSeenMerchantnodePing \cup {p}
    /\ IF IsEnabled(entry) /\ PingDue(entry, p) /\ AnchorRecent(p)
       THEN /\ entry' = Check([entry EXCEPT !.lastPing = p], lockMain)
            /\ mapSeenMerchantnodeBroadcast' =
                   IF entry.b \in DOMAIN mapSeenMerchantnodeBroadcast
                   THEN [mapSeenMerchantnodeBroadcast EXCEPT ![entry.b] = p]
                   ELSE mapSeenMerchantnodeBroadcast
            /\ UNCHANGED <<askLeft, dsegAsked>>
       ELSE /\ UNCHANGED <<entry, mapSeenMerchantnodeBroadcast>>
            /\ IF entry = NoEntry THEN AskForMN ELSE UNCHANGED <<askLeft, dsegAsked>>
    /\ UNCHANGED <<announced, sigAge, spent>>

(***************************************************************************)
(* The answer to the dseg: a peer holding the vin ENABLED pushes the       *)
(* inventory of CMerchantnodeBroadcast(mn), its broadcast with its newest  *)
(* ping, and this peer's mnb handler takes it.  DsegDropped is every other *)
(* end of the request: the message or the answer is lost, the peer holds   *)
(* no enabled entry, or the hash is already in this peer's seen map (then  *)
(* the handler only counts it for the sync).                               *)
(***************************************************************************)
AnswerDseg(i, p, lockCheck, lockAdd, mature) ==
    /\ dsegAsked
    /\ dsegAsked' = FALSE
    /\ HandleMnb(i, p, lockCheck, lockAdd, mature, FALSE)

DsegDropped ==
    /\ dsegAsked
    /\ dsegAsked' = FALSE
    /\ UNCHANGED <<announced, sigAge, spent, entry, mapSeenMerchantnodeBroadcast,
                   mapSeenMerchantnodePing, askLeft>>

\* a Check() made by a reader: CountEnabled, the queue, the ranks, ManageStatus
CheckEntry(lockMain) ==
    /\ entry # NoEntry
    /\ entry' = Check(entry, lockMain)
    /\ UNCHANGED <<announced, sigAge, spent, mapSeenMerchantnodeBroadcast,
                   mapSeenMerchantnodePing, askLeft, dsegAsked>>

(***************************************************************************)
(* CheckAndRemove(false), from ThreadMerchantnodePool every minute: Check, *)
(* removal of a REMOVE or VIN_SPENT entry with every seen broadcast of its *)
(* vin and its mWeAskedForMerchantnodeListEntry record, and the expiry of  *)
(* seen broadcasts whose ping is older than twice the removal time.  The   *)
(* expiry of a passed askAgain changes no later decision of AskForMN.      *)
(***************************************************************************)
CheckAndRemove(lockMain) ==
    LET e == IF entry = NoEntry THEN NoEntry ELSE Check(entry, lockMain)
        drop == e # NoEntry /\ e.activeState \in {"REMOVE", "VIN_SPENT"}
        kept == IF drop THEN {} ELSE DOMAIN mapSeenMerchantnodeBroadcast
    IN  /\ entry' = IF drop THEN NoEntry ELSE e
        /\ mapSeenMerchantnodeBroadcast' =
               [h \in {k \in kept : mapSeenMerchantnodeBroadcast[k] <= 2 * RemovalSeconds} |->
                   mapSeenMerchantnodeBroadcast[h]]
        /\ askLeft' = IF drop THEN 0 ELSE askLeft
        /\ UNCHANGED <<announced, sigAge, spent, mapSeenMerchantnodePing, dsegAsked>>

-----------------------------------------------------------------------------
(* The environment.                                                        *)

\* one period passes
Tick ==
    /\ sigAge' = [i \in Broadcasts |-> IF i <= announced THEN Older(sigAge[i], SigAgeCap) ELSE 0]
    /\ entry' = IF entry = NoEntry THEN NoEntry
                ELSE [entry EXCEPT !.lastPing = Older(@, RemovalSeconds)]
    /\ mapSeenMerchantnodeBroadcast' =
           [h \in DOMAIN mapSeenMerchantnodeBroadcast |-> Older(mapSeenMerchantnodeBroadcast[h], SeenCap)]
    /\ mapSeenMerchantnodePing' = {q + 1 : q \in mapSeenMerchantnodePing} \ {PingWindow}
    /\ askLeft' = IF askLeft > 0 THEN askLeft - 1 ELSE 0
    /\ UNCHANGED <<announced, spent, dsegAsked>>

\* the owner signs a new broadcast, at most one a period
Signed ==
    /\ ~spent
    /\ announced < MaxBroadcasts
    /\ announced > 0 => sigAge[announced] >= 1
    /\ announced' = announced + 1
    /\ sigAge' = [sigAge EXCEPT ![announced + 1] = 0]

\* a broadcast signed elsewhere: CActiveMerchantnode::ManageStatus at a
\* start, or start-alias on a cold wallet that is not this peer
Announce ==
    /\ Signed
    /\ UNCHANGED <<spent, entry, mapSeenMerchantnodeBroadcast, mapSeenMerchantnodePing,
                   askLeft, dsegAsked>>

(***************************************************************************)
(* CMerchantnodeMan::UpdateMerchantnodeList(mnb), which start-alias (rpc   *)
(* and Qt) runs on the cold wallet with the broadcast it has just signed:  *)
(* both seen maps take the broadcast and its fresh ping, then the entry is *)
(* added (Add; the constructor makes it ENABLED) or updated from the       *)
(* broadcast, which is always newer.  Neither CheckAndUpdate nor           *)
(* CheckInputsAndAdd runs, and no Check follows: only the carried ping's   *)
(* own CheckAndUpdate(nDoS, false) calls Check, and only when it passes.   *)
(***************************************************************************)
UpdateMerchantnodeList(i, lockCheck) ==
    /\ mapSeenMerchantnodePing' = mapSeenMerchantnodePing \cup {0}
    /\ mapSeenMerchantnodeBroadcast' =
           [h \in DOMAIN mapSeenMerchantnodeBroadcast \cup {i} |->
               IF h = i THEN 0 ELSE mapSeenMerchantnodeBroadcast[h]]
    /\ entry' = IF entry = NoEntry THEN NewMerchantnode(i, 0)
                ELSE LET u == UpdateFromNewBroadcast(i, 0)
                     IN  IF u.pingOK THEN Check(u.entry, lockCheck) ELSE u.entry

\* this peer is the cold wallet and runs start-alias
StartAliasHere(lockCheck) ==
    /\ Signed
    /\ UpdateMerchantnodeList(announced + 1, lockCheck)
    /\ UNCHANGED <<spent, askLeft, dsegAsked>>

\* the collateral output is spent
Spend ==
    /\ ~spent
    /\ spent' = TRUE
    /\ UNCHANGED <<announced, sigAge, entry, mapSeenMerchantnodeBroadcast, mapSeenMerchantnodePing,
                   askLeft, dsegAsked>>

Init ==
    /\ announced = 0
    /\ sigAge = [i \in Broadcasts |-> 0]
    /\ spent = FALSE
    /\ entry = NoEntry
    /\ mapSeenMerchantnodeBroadcast = [h \in {} |-> 0]
    /\ mapSeenMerchantnodePing = {}
    /\ askLeft = 0
    /\ dsegAsked = FALSE

Next ==
    \/ \E i \in 1..announced, lc, la, m \in BOOLEAN :
           \E p \in Carried(i) : ReceiveMnb(i, p, lc, la, m)
    \/ \E p \in Pings, l \in BOOLEAN : ReceiveMnp(p, l)
    \/ \E i \in 1..announced, lc, la, m \in BOOLEAN :
           \E p \in Carried(i) : AnswerDseg(i, p, lc, la, m)
    \/ DsegDropped
    \/ \E l \in BOOLEAN : CheckEntry(l)
    \/ \E l \in BOOLEAN : CheckAndRemove(l)
    \/ Tick
    \/ Announce
    \/ \E l \in BOOLEAN : StartAliasHere(l)
    \/ Spend

Spec == Init /\ [][Next]_vars

-----------------------------------------------------------------------------
(* Properties.                                                             *)

TypeOK ==
    /\ announced \in 0..MaxBroadcasts
    /\ sigAge \in [Broadcasts -> 0..SigAgeCap]
    /\ spent \in BOOLEAN
    /\ entry = NoEntry \/ entry \in [b : 1..announced, lastPing : 0..RemovalSeconds, activeState : States]
    /\ DOMAIN mapSeenMerchantnodeBroadcast \subseteq 1..announced
    /\ \A h \in DOMAIN mapSeenMerchantnodeBroadcast : mapSeenMerchantnodeBroadcast[h] \in 0..SeenCap
    /\ mapSeenMerchantnodePing \subseteq 0..(PingWindow - 1)
    /\ askLeft \in 0..MinMnpSeconds
    /\ dsegAsked \in BOOLEAN

(***************************************************************************)
(* Heartbeat acceptance (spec 4.1, and scenario 1 of spec 8): a ping the   *)
(* mnp handler sees for the first time, for an entry that is PRE_ENABLED  *)
(* or ENABLED, inside the sigTime window, past the rate limit and with a   *)
(* recent anchor, becomes the entry's lastPing.  CMerchantnodePing::       *)
(* CheckAndUpdate also demands IsEnabled(), which a PRE_ENABLED entry is   *)
(* not, and only a newer ping can make it ENABLED.                         *)
(***************************************************************************)
HeartbeatRefreshes ==
    [][\A p \in Pings, l \in BOOLEAN :
          (ReceiveMnp(p, l) /\ entry # NoEntry /\ entry.activeState \in {"PRE_ENABLED", "ENABLED"}
             /\ PingDue(entry, p) /\ AnchorRecent(p))
          => entry'.lastPing = p]_vars


(***************************************************************************)
(* Recovery (spec 8, and the CheckAndRemove comment "this will allow us to *)
(* get it back without them sending a brand new mnb"): when the owner      *)
(* keeps pinging and peers keep relaying, this peer ends up holding the    *)
(* collateral ENABLED for good, unless it is spent.  The PRE_ENABLED       *)
(* lockout of the mnp handler costs a removal cycle, not the entry.        *)
(***************************************************************************)
Settles ==
    <>[](announced > 0 => spent \/ IsEnabled(entry))

(***************************************************************************)
(* Spent collateral is forgotten (Check's VIN_SPENT, CheckAndRemove, the   *)
(* AcceptableInputs test of CheckInputsAndAdd): once the collateral is     *)
(* spent, the peer eventually drops the entry and no relayed broadcast,    *)
(* old or new, brings it back.                                             *)
(***************************************************************************)
SpentForgotten ==
    [](spent => <>[](entry = NoEntry))

=============================================================================
