--------------------------- MODULE MerchantnodeSync ---------------------------
(***************************************************************************)
(* CMerchantnodeSync (src/merchantnode-sync.cpp): the staged bootstrap of  *)
(* sporks, merchantnode list, payment winners, budgets and community       *)
(* proposals from the connected peers.                                     *)
(*                                                                         *)
(* Process() runs on ThreadMerchantnodePool once a second and does work on *)
(* every fifth call, so one ProcessTick is one run of its body and time is *)
(* counted in such periods of Period seconds.  Timestamps of the code are  *)
(* kept as ages (periods since the event), saturated at the first age at   *)
(* which every comparison of the code has its final value; a timestamp of  *)
(* 0 (never) is NoItem.  Peers answer, gossip and reconnect as the         *)
(* environment; the budget and community modules that call                 *)
(* AddedBudgetItem/AddedCommunityItem are outside this repository.         *)
(***************************************************************************)
EXTENDS Naturals, FiniteSets

CONSTANTS
    NPeers,            \* size of vNodes, all peers of the current protocol
    Items,             \* hashes an item of each kind may have
    NoItem,            \* model value: a last-item timestamp of 0
    SporkEnforcement,  \* IsSporkActive(SPORK_8_MASTERNODE_PAYMENT_ENFORCEMENT)
    ClearMayFail,      \* TRY_LOCK(cs_vNodes) in ClearFulfilledRequest may fail
    Churn,             \* peers may disconnect and be replaced
    ArrivingKinds      \* the kinds of item the peers send

ASSUME NPeers \in Nat \ {0}
ASSUME {SporkEnforcement, ClearMayFail, Churn} \subseteq BOOLEAN
ASSUME ArrivingKinds \subseteq {"mnb", "mnw", "budget", "community"}

Peers == 1..NPeers

\* stage codes of merchantnode-sync.h
INITIAL == 0
SPORKS == 1
LIST == 2
MNW == 3
BUDGET == 4
COMMUNITYVOTE == 5
FAILED == 998
FINISHED == 999
Stages == {INITIAL, SPORKS, LIST, MNW, BUDGET, COMMUNITYVOTE, FAILED, FINISHED}

SyncTimeout == 5     \* MASTERNODE_SYNC_TIMEOUT, in seconds
SyncThreshold == 2   \* MASTERNODE_SYNC_THRESHOLD
Period == 5          \* seconds between two runs of the body of Process()
FailureBackoff == 60 \* lastFailure + (1 * 60) < GetTime()

\* the first ages past which a comparison of the code no longer changes
ItemAgeCap == (SyncTimeout * 2) \div Period + 1
AssetAgeCap == (SyncTimeout * 5) \div Period + 1
FailureAgeCap == FailureBackoff \div Period + 1

\* the item kinds and the request flags
Kinds == {"mnb", "mnw", "budget", "community"}
Requests == {"getspork", "mnsync", "mnwsync", "busync", "comsync"}
\* Reset() leaves lastCommunityItem and mapSeenSyncCommunity alone
ResetKinds == {"mnb", "mnw", "budget"}

VARIABLES
    RequestedMerchantnodeAssets,   \* current stage
    RequestedMerchantnodeAttempt,  \* requests sent in this stage
    fulfilledRequests,  \* [Peers -> SUBSET Requests]: CNode::HasFulfilledRequest
    lastItemAge,        \* [Kinds -> ages]: lastMerchantnodeList, ..., lastCommunityItem
    mapSeenSync,        \* [Kinds -> [Items -> 0..SyncThreshold]]: mapSeenSyncMNB, ...
    assetSyncAge,       \* periods since nAssetSyncStarted
    lastFailureAge,     \* periods since lastFailure
    fBlockchainSynced,  \* the static latch of IsBlockchainSynced()
    tipRecent,          \* chainActive.Tip()->nTime + 60 * 60 >= GetTime()
    slept               \* more than an hour passed since IsBlockchainSynced() last ran

syncVars == <<RequestedMerchantnodeAssets, RequestedMerchantnodeAttempt, fulfilledRequests,
              lastItemAge, mapSeenSync, assetSyncAge, lastFailureAge>>
vars == <<syncVars, fBlockchainSynced, tipRecent, slept>>

-----------------------------------------------------------------------------
(* The object's fields as one record, so that the calls Process() makes in *)
(* sequence compose as functions from record to record.                    *)

Now == [assets |-> RequestedMerchantnodeAssets, attempt |-> RequestedMerchantnodeAttempt,
        fulfilled |-> fulfilledRequests, last |-> lastItemAge, seen |-> mapSeenSync,
        started |-> assetSyncAge, failure |-> lastFailureAge]

Assign(s) ==
    /\ RequestedMerchantnodeAssets' = s.assets
    /\ RequestedMerchantnodeAttempt' = s.attempt
    /\ fulfilledRequests' = s.fulfilled
    /\ lastItemAge' = s.last
    /\ mapSeenSync' = s.seen
    /\ assetSyncAge' = s.started
    /\ lastFailureAge' = s.failure

Older(a, cap) == IF a = NoItem THEN NoItem ELSE IF a < cap THEN a + 1 ELSE cap

\* one period of wall-clock time passes
Aged(s) == [s EXCEPT !.last = [k \in Kinds |-> Older(s.last[k], ItemAgeCap)],
                     !.started = Older(@, AssetAgeCap),
                     !.failure = Older(@, FailureAgeCap)]

\* lastX > 0 && lastX < GetTime() - MASTERNODE_SYNC_TIMEOUT * 2
QuietSince(a) == a # NoItem /\ a * Period > SyncTimeout * 2

\* GetTime() - nAssetSyncStarted > MASTERNODE_SYNC_TIMEOUT * 5
StageTimedOut(s) == s.started * Period > SyncTimeout * 5

Reset(s) ==
    [s EXCEPT !.assets = INITIAL, !.attempt = 0,
              !.last = [k \in Kinds |-> IF k \in ResetKinds THEN NoItem ELSE s.last[k]],
              !.seen = [k \in Kinds |-> IF k \in ResetKinds THEN [h \in Items |-> 0]
                                                            ELSE s.seen[k]],
              !.failure = FailureAgeCap,
              !.started = 0]

\* a slip: the five request flags are named one by one and only "getspork" is cleared
ClearFulfilledRequestSporksOnly(s, locked) ==
    IF locked THEN [s EXCEPT !.fulfilled = [p \in Peers |-> @[p] \ {"getspork"}]] ELSE s

\* TRY_LOCK(cs_vNodes) succeeded (locked) or not
ClearFulfilledRequest(s, locked) ==
    IF locked THEN [s EXCEPT !.fulfilled = [p \in Peers |-> {}]] ELSE s

\* a slip: a case of the switch falls through from LIST past MNW
NextStageSkippingMnw(st) == CASE st = SPORKS -> LIST [] st = LIST -> BUDGET [] st = MNW -> BUDGET
                   [] st = BUDGET -> COMMUNITYVOTE [] st = COMMUNITYVOTE -> FINISHED
                   [] OTHER -> st

NextStage(st) == CASE st = SPORKS -> LIST [] st = LIST -> MNW [] st = MNW -> BUDGET
                   [] st = BUDGET -> COMMUNITYVOTE [] st = COMMUNITYVOTE -> FINISHED
                   [] OTHER -> st

GetNextAsset(s, locked) ==
    LET s1 == IF s.assets \in {INITIAL, FAILED}
              THEN [ClearFulfilledRequest(s, locked) EXCEPT !.assets = SPORKS]
              ELSE [s EXCEPT !.assets = NextStage(s.assets)]
    IN  [s1 EXCEPT !.attempt = 0, !.started = 0]

Unasked(s, r) == {p \in Peers : r \notin s.fulfilled[p]}

\* the first peer of vNodes that has not fulfilled request r, marked as asked
Ask(s, r) ==
    LET p == CHOOSE q \in Unasked(s, r) : \A o \in Unasked(s, r) : q <= o
    IN  [s EXCEPT !.fulfilled[p] = @ \cup {r}]

SyncFailed(s) == [s EXCEPT !.assets = FAILED, !.attempt = 0, !.failure = 0]

\* RequestedMerchantnodeAttempt >= MASTERNODE_SYNC_THRESHOLD * 3
AttemptCapReachedLate(s) == s.attempt > SyncThreshold * 3
AttemptCapReached(s) == s.attempt >= SyncThreshold * 3

\* the SPORKS branch of the peer loop
SporksStep(s, locked) ==
    IF Unasked(s, "getspork") = {} THEN s
    ELSE LET s1 == Ask(s, "getspork")
             s2 == IF s1.attempt >= 2 THEN GetNextAsset(s1, locked) ELSE s1
         IN  [s2 EXCEPT !.attempt = @ + 1]

\* the LIST and MNW branches: request r, items of kind k
ListStep(s, r, k, locked) ==
    IF QuietSince(s.last[k]) /\ s.attempt >= SyncThreshold THEN GetNextAsset(s, locked)
    ELSE IF Unasked(s, r) = {} THEN s
    ELSE LET s1 == Ask(s, r)
         IN  IF s1.last[k] = NoItem /\ (AttemptCapReached(s1) \/ StageTimedOut(s1))
             THEN IF SporkEnforcement THEN SyncFailed(s1) ELSE GetNextAsset(s1, locked)
             ELSE IF AttemptCapReached(s1) THEN s1
             ELSE [s1 EXCEPT !.attempt = @ + 1]

\* the BUDGET and COMMUNITYVOTE branches: both checks precede the request flag
BudgetStep(s, r, k, locked) ==
    IF QuietSince(s.last[k]) /\ s.attempt >= SyncThreshold THEN GetNextAsset(s, locked)
    ELSE IF s.last[k] = NoItem /\ (AttemptCapReached(s) \/ StageTimedOut(s))
         THEN GetNextAsset(s, locked)
    ELSE IF Unasked(s, r) = {} THEN s
    ELSE LET s1 == Ask(s, r)
         IN  IF AttemptCapReached(s1) THEN s1 ELSE [s1 EXCEPT !.attempt = @ + 1]

PeerLoop(s, locked) ==
    CASE s.assets = SPORKS -> SporksStep(s, locked)
      [] s.assets = LIST -> ListStep(s, "mnsync", "mnb", locked)
      [] s.assets = MNW -> ListStep(s, "mnwsync", "mnw", locked)
      [] s.assets = BUDGET -> BudgetStep(s, "busync", "budget", locked)
      [] s.assets = COMMUNITYVOTE -> BudgetStep(s, "comsync", "community", locked)
      [] OTHER -> s

\* a slip: the "sporks synced but blockchain not" wait also lets LIST run
ChainGateAfterList(s, synced) == ~synced /\ s.assets > LIST

\* !IsBlockchainSynced() && RequestedMerchantnodeAssets > MASTERNODE_SYNC_SPORKS
ChainGate(s, synced) == ~synced /\ s.assets > SPORKS

BackoffOver(s) == s.failure * Period > FailureBackoff

(***************************************************************************)
(* One run of the body of Process().  lockVNodes, lockMain and lockClear   *)
(* are the outcomes of its TRY_LOCKs on cs_vNodes, cs_main (inside         *)
(* IsBlockchainSynced) and cs_vNodes (inside ClearFulfilledRequest);       *)
(* hasEnabled is mnodeman.CountEnabled() > 0.                              *)
(***************************************************************************)
ProcessTick(lockVNodes, lockMain, lockClear, hasEnabled) ==
    /\ ~slept
    /\ \E s0 \in {Aged(Now)} :
       LET idle == \/ s0.assets = FINISHED /\ hasEnabled
                   \/ s0.assets = FAILED /\ ~BackoffOver(s0)
           synced == fBlockchainSynced \/ (tipRecent /\ lockMain)
       IN  \E s1 \in {IF s0.assets \in {FINISHED, FAILED} THEN Reset(s0) ELSE s0} :
           \E s2 \in {IF s1.assets = INITIAL THEN GetNextAsset(s1, lockClear) ELSE s1} :
           \E s \in {IF idle THEN s0
                      ELSE IF ChainGate(s2, synced) \/ ~lockVNodes THEN s2
                      ELSE PeerLoop(s2, lockClear)} :
              /\ Assign(s)
              /\ fBlockchainSynced' = IF idle THEN fBlockchainSynced ELSE synced
    /\ UNCHANGED <<tipRecent, slept>>

-----------------------------------------------------------------------------
(* The environment.                                                        *)

\* AddedMerchantnodeList/Winner/BudgetItem/CommunityItem(hash), called by a
\* handler that passed IsBlockchainSynced(); every caller has put the hash in
\* its own seen map first, so only the count branch of the code runs
ItemArrives(k, h) ==
    /\ k \in ArrivingKinds
    /\ ~slept /\ (fBlockchainSynced \/ tipRecent)
    /\ mapSeenSync[k][h] < SyncThreshold
    /\ lastItemAge' = [lastItemAge EXCEPT ![k] = 0]
    /\ mapSeenSync' = [mapSeenSync EXCEPT ![k][h] = @ + 1]
    /\ fBlockchainSynced' = TRUE
    /\ UNCHANGED <<RequestedMerchantnodeAssets, RequestedMerchantnodeAttempt,
                   fulfilledRequests, assetSyncAge, lastFailureAge, tipRecent, slept>>

\* mapSeenSyncMNB/MNW.erase(hash) by CheckAndRemove, CheckInputsAndAdd and
\* CleanPaymentList
ForgetSeen(k, h) ==
    /\ mapSeenSync[k][h] > 0
    /\ mapSeenSync' = [mapSeenSync EXCEPT ![k][h] = 0]
    /\ UNCHANGED <<RequestedMerchantnodeAssets, RequestedMerchantnodeAttempt,
                   fulfilledRequests, lastItemAge, assetSyncAge, lastFailureAge,
                   fBlockchainSynced, tipRecent, slept>>

\* the machine sleeps for more than an hour: every clock saturates, the tip is old
Sleep ==
    /\ ~slept
    /\ slept' = TRUE
    /\ tipRecent' = FALSE
    /\ lastItemAge' = [k \in Kinds |-> Older(lastItemAge[k], ItemAgeCap) ]
    /\ assetSyncAge' = AssetAgeCap
    /\ lastFailureAge' = FailureAgeCap
    /\ UNCHANGED <<RequestedMerchantnodeAssets, RequestedMerchantnodeAttempt,
                   fulfilledRequests, mapSeenSync, fBlockchainSynced>>

\* the first IsBlockchainSynced() call after the sleep, on whichever thread
WakeUp ==
    /\ slept
    /\ \E s \in {Reset(Now)} : Assign(s)
    /\ fBlockchainSynced' = FALSE
    /\ slept' = FALSE
    /\ UNCHANGED tipRecent

\* block download brings the tip within the hour
TipCatchUp ==
    /\ ~tipRecent
    /\ tipRecent' = TRUE
    /\ UNCHANGED <<syncVars, fBlockchainSynced, slept>>

\* peer p disconnects and a new peer, with no fulfilled requests, takes its place
PeerReconnect(p) ==
    /\ Churn
    /\ fulfilledRequests[p] # {}
    /\ fulfilledRequests' = [fulfilledRequests EXCEPT ![p] = {}]
    /\ UNCHANGED <<RequestedMerchantnodeAssets, RequestedMerchantnodeAttempt,
                   lastItemAge, mapSeenSync, assetSyncAge, lastFailureAge,
                   fBlockchainSynced, tipRecent, slept>>

-----------------------------------------------------------------------------

\* the constructor calls Reset(); the node starts with an old tip
Init ==
    /\ RequestedMerchantnodeAssets = INITIAL
    /\ RequestedMerchantnodeAttempt = 0
    /\ fulfilledRequests = [p \in Peers |-> {}]
    /\ lastItemAge = [k \in Kinds |-> NoItem]
    /\ mapSeenSync = [k \in Kinds |-> [h \in Items |-> 0]]
    /\ assetSyncAge = 0
    /\ lastFailureAge = FailureAgeCap
    /\ fBlockchainSynced = FALSE
    /\ tipRecent \in BOOLEAN
    /\ slept = FALSE

ClearOutcomes == IF ClearMayFail THEN BOOLEAN ELSE {TRUE}

Tick == \E lv, lm \in BOOLEAN, lc \in ClearOutcomes, he \in BOOLEAN :
            ProcessTick(lv, lm, lc, he)

\* a run in which no TRY_LOCK fails
UncontendedTick == \E he \in BOOLEAN : ProcessTick(TRUE, TRUE, TRUE, he)

Next ==
    \/ Tick
    \/ \E k \in Kinds, h \in Items : ItemArrives(k, h) \/ ForgetSeen(k, h)
    \/ Sleep
    \/ \E p \in Peers : PeerReconnect(p)
    \/ WakeUp
    \/ TipCatchUp

(***************************************************************************)
(* ThreadMerchantnodePool loops forever, so the uncontended run of Process *)
(* keeps happening; the first IsBlockchainSynced() call after a sleep      *)
(* happens; the node downloads blocks until its tip is recent.  Peers owe  *)
(* nothing: they may stay silent and never reconnect.                      *)
(***************************************************************************)
Spec == Init /\ [][Next]_vars
        /\ WF_vars(UncontendedTick) /\ WF_vars(WakeUp) /\ WF_vars(TipCatchUp)

-----------------------------------------------------------------------------
(* Properties                                                              *)

TypeOK ==
    /\ RequestedMerchantnodeAssets \in Stages
    /\ RequestedMerchantnodeAttempt \in 0..SyncThreshold * 3
    /\ fulfilledRequests \in [Peers -> SUBSET Requests]
    /\ lastItemAge \in [Kinds -> {NoItem} \cup 0..ItemAgeCap]
    /\ mapSeenSync \in [Kinds -> [Items -> 0..SyncThreshold]]
    /\ assetSyncAge \in 0..AssetAgeCap
    /\ lastFailureAge \in 0..FailureAgeCap
    /\ {fBlockchainSynced, tipRecent, slept} \subseteq BOOLEAN

(***************************************************************************)
(* Stage discipline (GetNextAsset, Process): the stage only moves to the   *)
(* next one in the order SPORKS, LIST, MNW, BUDGET, COMMUNITYVOTE,         *)
(* FINISHED, to FAILED from LIST or MNW while payment enforcement is on,   *)
(* or back to a fresh round (INITIAL or SPORKS) by Reset(); and no stage   *)
(* after SPORKS is left forwards while the blockchain is not synced.       *)
(***************************************************************************)
\* the order of spec 4.4, written out independently of GetNextAsset
StageSequence == <<SPORKS, LIST, MNW, BUDGET, COMMUNITYVOTE, FINISHED>>
Following(st) == LET i == CHOOSE j \in 1..5 : StageSequence[j] = st IN StageSequence[i + 1]
Ordered == {StageSequence[i] : i \in 1..5}

Forward(st, st2) ==
    \/ st \in Ordered /\ st2 = Following(st)
    \/ st2 = FAILED /\ st \in {LIST, MNW} /\ SporkEnforcement
    \/ st2 \in {INITIAL, SPORKS} /\ st # SPORKS
    \/ st = SPORKS /\ st2 = INITIAL

SyncStageDiscipline ==
    [][ /\ Forward(RequestedMerchantnodeAssets, RequestedMerchantnodeAssets')
        /\ (RequestedMerchantnodeAssets \in {LIST, MNW, BUDGET, COMMUNITYVOTE}
            /\ RequestedMerchantnodeAssets' \notin {INITIAL, SPORKS})
           => fBlockchainSynced'
      ]_RequestedMerchantnodeAssets

(***************************************************************************)
(* Settling (Process): once the peers stop sending new items and the       *)
(* machine stops sleeping, the sync keeps coming back to FINISHED or       *)
(* FAILED: no stage waits forever, whatever the peers answer.  The         *)
(* disturbances are bounded by the model that checks it.                   *)
(***************************************************************************)
Disturbance ==
    \/ \E k \in Kinds, h \in Items : ItemArrives(k, h) \/ ForgetSeen(k, h)
    \/ Sleep
    \/ \E p \in Peers : PeerReconnect(p)

SyncSettles == []<>(RequestedMerchantnodeAssets \in {FINISHED, FAILED})

=============================================================================
