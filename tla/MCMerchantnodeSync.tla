------------------------- MODULE MCMerchantnodeSync -------------------------
(* MerchantnodeSync bounded for TLC: one hash per item kind is enough for   *)
(* the watermarks and the per-hash counts, since every count of the code is *)
(* per hash and the stages only read the newest arrival.  The environment   *)
(* disturbs the sync (a new item, a forgotten hash, a sleep) at most        *)
(* MaxDisturbances times, so that a liveness property checks what happens   *)
(* once it stops.                                                           *)
EXTENDS MerchantnodeSync

\* six peers: the LIST and MNW timeouts fire only once a not yet asked peer
\* is found, and MASTERNODE_SYNC_THRESHOLD * 3 requests can be sent
MCPeers == 6
MaxDisturbances == 3

VARIABLE disturbances

mcVars == <<vars, disturbances>>

MCInit == Init /\ disturbances = 0

MCNext ==
    \/ Next /\ ~Disturbance /\ UNCHANGED disturbances
    \/ Disturbance /\ disturbances < MaxDisturbances /\ disturbances' = disturbances + 1

MCSpec == MCInit /\ [][MCNext]_mcVars
          /\ WF_vars(UncontendedTick) /\ WF_vars(WakeUp) /\ WF_vars(TipCatchUp)

=============================================================================
