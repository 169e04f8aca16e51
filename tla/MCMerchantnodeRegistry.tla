------------------------ MODULE MCMerchantnodeRegistry ------------------------
(***************************************************************************)
(* MerchantnodeRegistry for TLC.  The liveness run assumes pings are       *)
(* timely: the network hands this peer the owner's ping of a period before *)
(* the period ends, as a relay takes seconds and a period five minutes.    *)
(* Relays other than dseg answers are the disturbance: at most MaxRelays   *)
(* of them, so that the liveness property speaks of what the peer does     *)
(* once they stop.                                                         *)
(***************************************************************************)
EXTENDS MerchantnodeRegistry

MaxRelays == 2

VARIABLE relays

mcVars == <<vars, relays>>

MCInit == Init /\ relays = 0

\* a period ends only once the current ping has reached the mnp handler
TimelyTick == Tick /\ (0 \in Pings => 0 \in mapSeenMerchantnodePing)

Relay ==
    /\ relays < MaxRelays
    /\ relays' = relays + 1
    /\ \E i \in 1..announced, lc, la, m \in BOOLEAN :
           \E p \in Carried(i) : ReceiveMnb(i, p, lc, la, m)

TimelyNext0 ==
    \/ \E p \in Pings, l \in BOOLEAN : ReceiveMnp(p, l)
    \/ \E i \in 1..announced, lc, la, m \in BOOLEAN :
           \E p \in Carried(i) : AnswerDseg(i, p, lc, la, m)
    \/ DsegDropped
    \/ \E l \in BOOLEAN : CheckEntry(l)
    \/ \E l \in BOOLEAN : CheckAndRemove(l)
    \/ TimelyTick
    \/ Announce
    \/ \E l \in BOOLEAN : StartAliasHere(l)
    \/ Spend

TimelyNext ==
    \/ Relay
    \/ UNCHANGED relays /\ TimelyNext0

(***************************************************************************)
(* Fairness: the pool thread keeps calling CheckAndRemove and its          *)
(* TRY_LOCK(cs_main) does not fail forever; time passes; the current ping  *)
(* is handled with cs_main free; and a dseg that AskForMN keeps sending is *)
(* not lost every time: some peer holding the entry answers with a         *)
(* broadcast this peer has not seen and its newest ping, and it is handled *)
(* with cs_main free and the collateral confirmed on this peer's chain.    *)
(* Relays other than dseg answers owe nothing.                             *)
(***************************************************************************)
TimelySpec ==
    /\ MCInit /\ [][TimelyNext]_mcVars
    /\ WF_vars(TimelyTick)
    /\ WF_vars(CheckAndRemove(TRUE))
    /\ WF_vars(ReceiveMnp(0, TRUE))
    /\ SF_vars(\E i \in 1..announced : AnswerDseg(i, 0, TRUE, TRUE, TRUE))
=============================================================================
