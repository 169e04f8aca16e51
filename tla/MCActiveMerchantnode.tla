------------------------- MODULE MCActiveMerchantnode -------------------------
(***************************************************************************)
(* ActiveMerchantnode for TLC: at most MaxDisturbances restarts and losses *)
(* of the synced chain, so the liveness property speaks of what happens    *)
(* once the node stays up on a synced chain.                               *)
(***************************************************************************)
EXTENDS ActiveMerchantnode

CONSTANT MaxDisturbances

VARIABLE disturbances, slept

mcVars == <<vars, disturbances, slept>>

Disturbance == LoseSync \/ Restart

\* history: the chain has gone unsynced (a sleep) since the node last
\* became STARTED
MCInit == Init /\ disturbances = 0 /\ slept = FALSE

RecordSleep ==
    slept' = IF status' = "STARTED" /\ status # "STARTED" THEN FALSE
             ELSE slept \/ (synced /\ ~synced')

MCNext ==
    /\ \/ Next /\ ~Disturbance /\ UNCHANGED disturbances
       \/ Disturbance /\ disturbances < MaxDisturbances /\ disturbances' = disturbances + 1
    /\ RecordSleep

(***************************************************************************)
(* Fairness: the pool thread calls ManageStatus every 300 s and            *)
(* CheckAndRemove every minute, its TRY_LOCK(cs_main) does not fail        *)
(* forever, time passes, and the chain catches up again.  None on relays:  *)
(* peers may never send the broadcast back.                                *)
(***************************************************************************)
MCSpec ==
    /\ MCInit /\ [][MCNext]_mcVars
    /\ WF_vars(\E l, c, w, m \in BOOLEAN : ManageStatus(l, c, w, m))
    /\ WF_vars(Tick)
    /\ WF_vars(CheckAndRemove(TRUE))
    /\ WF_vars(RegainSync)

(***************************************************************************)
(* An activation holds (spec 4.5: the controller "remains STARTED,         *)
(* subsequently emitting a fresh signed Heartbeat"): a STARTED node that   *)
(* has not slept leaves STARTED only when it restarts or its collateral    *)
(* has been spent.  The step that breaks it is SendMerchantnodePing        *)
(* finding no entry for activeMerchantnode.vin in the node's own list.  A  *)
(* sleep is exempt: the pool thread neither pings nor runs CheckAndRemove  *)
(* on an unsynced chain, and the entry may lapse meanwhile.                *)
(***************************************************************************)
StaysStarted ==
    [][status = "STARTED" /\ status' # "STARTED" =>
          status' = "INITIAL" \/ spent \/ slept']_mcVars
=============================================================================
