------------------------ MODULE MCMerchantnodeElection ------------------------
(***************************************************************************)
(* Bounded registries for MerchantnodeElection.  Nodes are 1..N; where the *)
(* scores are distinct they are fixed to the node number, which loses no   *)
(* case as the nodes are otherwise interchangeable.  A registry varies    *)
(* the fields one of the two functions reads.                              *)
(***************************************************************************)
EXTENDS MerchantnodeElection

\* every registry GetMerchantnodeRank can meet: any enabled, protocol and age
\* state, with the given scores
RankRegistries(Scorings) ==
    { [n \in Nodes |-> [score |-> sc[n], enabled |-> en[n], protocolOK |-> pr[n],
                        matured |-> ma[n], queueOK |-> TRUE, fresh |-> FALSE, paid |-> n]] :
      sc \in Scorings, en \in [Nodes -> BOOLEAN], pr \in [Nodes -> BOOLEAN],
      ma \in [Nodes -> BOOLEAN] }

\* every registry the queue can meet: enabled, scheduled or young input, new
\* sigTime, with the given payment ages
QueueRegistries(Payments) ==
    { [n \in Nodes |-> [score |-> n, enabled |-> en[n], protocolOK |-> TRUE,
                        matured |-> TRUE, queueOK |-> qu[n], fresh |-> fr[n], paid |-> pd[n]]] :
      pd \in Payments, en \in [Nodes -> BOOLEAN], qu \in [Nodes -> BOOLEAN],
      fr \in [Nodes -> BOOLEAN] }

Distinct == {f \in [Nodes -> Nodes] : \A m, n \in Nodes : m # n => f[m] # f[n]}

MCInitWith(regs) ==
    /\ vMerchantnodes \in regs
    /\ answer = [p \in Peers |-> NotComputed]

\* distinct scores and payment ages: both functions have one answer
MCReferenceSpec ==
    MCInitWith(RankRegistries({[n \in Nodes |-> n]}) \cup QueueRegistries(Distinct)) /\ [][Next]_vars
=====
