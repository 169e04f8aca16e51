-------------------------- MODULE ActiveMerchantnode --------------------------
(***************************************************************************)
(* The activation controller of a merchantnode (CActiveMerchantnode in     *)
(* src/activemerchantnode.cpp) together with the node's own registry,      *)
(* MerchantnodeRegistry instantiated for the node's collateral: the        *)
(* registry's variables are the entry this node holds for its own          *)
(* collateral and its seen maps.                                           *)
(*                                                                         *)
(* ManageStatus runs once a period in the pool thread and composes the     *)
(* sync check, the INITIAL branch (Find(pubKeyMerchantnode), Check,        *)
(* EnableHotColdMasterNode), the capability checks, the coin selection     *)
(* (GetMasterNodeVin, SelectCoinsMerchantnode, GetVinFromOutput), the      *)
(* LockCoin, the broadcast it signs and relays, and SendMerchantnodePing.  *)
(* The mnb handler of the same node is the registry's, with the early      *)
(* return of CheckInputsAndAdd for the node's own broadcast and its call   *)
(* of EnableHotColdMasterNode for a new entry carrying the node's key.     *)
(*                                                                         *)
(* The node's operator key (activeMerchantnode.pubKeyMerchantnode,         *)
(* "initialized by init.cpp") is the key of every broadcast of the         *)
(* collateral: the node's own and the cold wallet's start-alias both sign  *)
(* with the operator key of merchantnode.conf.                             *)
(***************************************************************************)
EXTENDS Naturals, FiniteSets

CONSTANTS
    MaxBroadcasts, MinMnbSeconds, MinMnpSeconds, PingWindow, AnchorWindow,
    ExpirationSeconds, RemovalSeconds, NoEntry,
    Funded,       \* pwalletMain->GetBalance() > 0: the hot wallet holds the collateral
    ConfListed    \* -mnconflock and the collateral is an entry of merchantnode.conf

ASSUME {Funded, ConfListed} \subseteq BOOLEAN

VARIABLES
    announced, sigAge, spent, entry,
    mapSeenMerchantnodeBroadcast, mapSeenMerchantnodePing,
    askLeft, dsegAsked,  \* the registry's AskForMN record and pending dseg
    status,      \* activeMerchantnode.status
    vinSet,      \* activeMerchantnode.vin is the collateral (not the empty CTxIn())
    coinLocked,  \* the collateral is in the wallet's setLockedCoins
    pingsSent,   \* the ages of the pings this node signed, younger than PingWindow
    synced,      \* merchantnodeSync.IsBlockchainSynced()
    managed      \* the pool thread has called ManageStatus in this period

registryVars == <<announced, sigAge, spent, entry, mapSeenMerchantnodeBroadcast,
                  mapSeenMerchantnodePing, askLeft, dsegAsked>>
vars == <<registryVars, status, vinSet, coinLocked, pingsSent, synced, managed>>

\* the node never asks for its own entry: every ping of its vin is one it
\* signed and put into its seen map itself, so AskForMN is never reached and
\* askLeft and dsegAsked keep their initial values
Registry == INSTANCE MerchantnodeRegistry

\* ACTIVE_MERCHANTNODE_*
Statuses == {"INITIAL", "SYNC_IN_PROCESS", "INPUT_TOO_NEW", "NOT_CAPABLE", "STARTED"}

-----------------------------------------------------------------------------
\* a slip: the early return for the node's own broadcast is left out
OwnNever == FALSE

\* CheckInputsAndAdd's first test: fMasterNode, the broadcast's vin is
\* activeMerchantnode.vin and its key the node's
Own == vinSet

\* SelectCoinsMerchantnode: AvailableCoins skips spent and locked outputs; a
\* merchantnode.conf collateral is unlocked for the call and locked after it
CoinAvailable == Funded /\ ~spent /\ (~coinLocked \/ ConfListed)
LockedAfterSelect == coinLocked \/ ConfListed

\* the pings a relayed broadcast i may carry: its own, or a newer one of this
\* node that a peer put into its seen broadcast; PingWindow stands for older
Relayed(i) == {Registry!Min2(sigAge[i], PingWindow)} \cup {q \in pingsSent : q <= sigAge[i]}

(***************************************************************************)
(* SendMerchantnodePing, called with status STARTED: Find(vin), then the   *)
(* IsPingedWithin(MERCHANTNODE_PING_SECONDS) rate limit, then the new      *)
(* lastPing, its seen-map insert, the update of the seen broadcast's ping  *)
(* and the relay; with no entry the status falls to NOT_CAPABLE.  e is the *)
(* entry as the INITIAL branch's Check left it.                            *)
(***************************************************************************)
\* a slip: the rate limit of IsPingedWithin takes MERCHANTNODE_EXPIRATION_SECONDS
PingOutcomeExpiryLimit(e) ==
    CASE e = NoEntry                    -> [status |-> "NOT_CAPABLE", entry |-> e, sent |-> FALSE]
      [] e.lastPing < ExpirationSeconds -> [status |-> "STARTED", entry |-> e, sent |-> FALSE]
      [] OTHER                          -> [status |-> "STARTED", entry |-> [e EXCEPT !.lastPing = 0],
                                            sent |-> TRUE]

PingOutcome(e) ==
    CASE e = NoEntry    -> [status |-> "NOT_CAPABLE", entry |-> e, sent |-> FALSE]
      [] e.lastPing < 1 -> [status |-> "STARTED", entry |-> e, sent |-> FALSE]
      [] OTHER          -> [status |-> "STARTED", entry |-> [e EXCEPT !.lastPing = 0],
                            sent |-> TRUE]

SendMerchantnodePing(e) ==
    LET o == PingOutcome(e)
    IN  /\ status' = o.status
        /\ entry' = o.entry
        /\ pingsSent' = IF o.sent THEN pingsSent \cup {0} ELSE pingsSent
        /\ mapSeenMerchantnodePing' =
               IF o.sent THEN mapSeenMerchantnodePing \cup {0} ELSE mapSeenMerchantnodePing
        /\ mapSeenMerchantnodeBroadcast' =
               IF o.sent /\ e.b \in DOMAIN mapSeenMerchantnodeBroadcast
               THEN [mapSeenMerchantnodeBroadcast EXCEPT ![e.b] = 0]
               ELSE mapSeenMerchantnodeBroadcast
        /\ UNCHANGED <<announced, sigAge, spent, coinLocked, askLeft, dsegAsked>>

\* GetMasterNodeVin and GetVinFromOutput: no import or reindex, the
\* TRY_LOCK(cs_wallet), the first output SelectCoinsMerchantnode offers, and
\* the key of its address in the wallet (walletOK: all but the coin)
GetMasterNodeVin(walletOK) == walletOK /\ CoinAvailable

\* CreateBroadcast signs a broadcast carrying a ping of the same time, and
\* mnb.Relay() sends it; broadcast announced + 1 is signed now
CreateBroadcast ==
    /\ announced < MaxBroadcasts
    /\ announced' = announced + 1
    /\ sigAge' = [sigAge EXCEPT ![announced + 1] = 0]

\* EnableHotColdMasterNode(vin, addr)
EnableHotColdMasterNode == status' = "STARTED" /\ vinSet' = TRUE

(***************************************************************************)
(* The branch for a status other than STARTED: NOT_CAPABLE, then the       *)
(* early returns in the code's order.  capable: the wallet is unlocked, an *)
(* external address is found, its port is the default one and ConnectNode *)
(* reaches it; the balance check reads Funded.  walletOK and mature are    *)
(* GetMasterNodeVin's conditions other than the coin and GetInputAge(vin)  *)
(* reaching MERCHANTNODE_MIN_CONFIRMATIONS.  GetVinFromOutput writes the   *)
(* member vin before the input age is looked at; a success locks the coin, *)
(* signs and relays a broadcast, and returns STARTED with no ping and no   *)
(* local UpdateMerchantnodeList.  e is the entry as the INITIAL branch's   *)
(* Check left it.                                                          *)
(***************************************************************************)
Activate(e, capable, walletOK, mature) ==
    /\ entry' = e
    /\ UNCHANGED <<spent, mapSeenMerchantnodeBroadcast, mapSeenMerchantnodePing, pingsSent,
                   askLeft, dsegAsked>>
    /\ CASE ~capable \/ ~Funded \/ ~walletOK ->
                /\ status' = "NOT_CAPABLE"
                /\ UNCHANGED <<announced, sigAge, vinSet, coinLocked>>
         [] ~GetMasterNodeVin(walletOK) ->
                /\ status' = "NOT_CAPABLE"
                /\ coinLocked' = LockedAfterSelect
                /\ UNCHANGED <<announced, sigAge, vinSet>>
         [] ~mature ->
                /\ status' = "INPUT_TOO_NEW"
                /\ vinSet' = TRUE
                /\ coinLocked' = LockedAfterSelect
                /\ UNCHANGED <<announced, sigAge>>
         [] OTHER ->
                /\ coinLocked' = TRUE
                /\ CreateBroadcast
                /\ status' = "STARTED"
                /\ vinSet' = TRUE

(***************************************************************************)
(* CActiveMerchantnode::ManageStatus.  lockMain is the TRY_LOCK(cs_main)   *)
(* of the pmn->Check() in the INITIAL branch.                              *)
(***************************************************************************)
ManageStatusFrom(s, lockMain, capable, walletOK, mature) ==
    /\ UNCHANGED synced
    /\ IF ~synced
       THEN /\ status' = "SYNC_IN_PROCESS"
            /\ UNCHANGED <<registryVars, vinSet, coinLocked, pingsSent>>
       ELSE LET s0 == IF s = "SYNC_IN_PROCESS" THEN "INITIAL" ELSE s
                e1 == IF s0 = "INITIAL" /\ entry # NoEntry
                      THEN Registry!Check(entry, lockMain) ELSE entry
                hot == s0 = "INITIAL" /\ Registry!IsEnabled(e1)
            IN  IF s0 = "STARTED" \/ hot
                THEN /\ SendMerchantnodePing(e1)
                     /\ vinSet' = (vinSet \/ hot)
                ELSE Activate(e1, capable, walletOK, mature)

\* the pool thread (ThreadCheckMerchantnodePool) calls ManageStatus once a
\* period, and only while IsBlockchainSynced()
ManageStatus(lockMain, capable, walletOK, mature) ==
    /\ synced
    /\ ~managed
    /\ managed' = TRUE
    /\ ManageStatusFrom(status, lockMain, capable, walletOK, mature)

\* RPC "startmerchantnode local": unless STARTED, status := INITIAL and
\* ManageStatus, at any time; the only caller that meets an unsynced chain
StartLocal(lockMain, capable, walletOK, mature) ==
    /\ status # "STARTED"
    /\ UNCHANGED managed
    /\ ManageStatusFrom("INITIAL", lockMain, capable, walletOK, mature)

(***************************************************************************)
(* The mnb handler of this node for a relayed broadcast of its collateral: *)
(* the registry's handler with the early return for its own broadcast,     *)
(* and EnableHotColdMasterNode (status STARTED, vin set) when              *)
(* CheckInputsAndAdd adds the entry, whatever the status was.  Process-   *)
(* Message drops every message while the chain is not synced.             *)
(***************************************************************************)
ReceiveMnb(i, p, lockCheck, lockAdd, mature) ==
    /\ synced
    /\ Registry!HandleMnb(i, p, lockCheck, lockAdd, mature, Own)
    /\ IF Registry!MnbOutcome(i, p, lockCheck, lockAdd, mature, Own).added
       THEN EnableHotColdMasterNode
       ELSE UNCHANGED <<status, vinSet>>
    /\ UNCHANGED <<dsegAsked, coinLocked, pingsSent, synced, managed>>

\* a Check() of the entry by a reader, and the pool thread's CheckAndRemove
\* (run only while IsBlockchainSynced())
CheckEntry(lockMain) ==
    Registry!CheckEntry(lockMain) /\ UNCHANGED <<status, vinSet, coinLocked, pingsSent, synced, managed>>
CheckAndRemove(lockMain) ==
    synced /\ Registry!CheckAndRemove(lockMain) /\ UNCHANGED <<status, vinSet, coinLocked, pingsSent, synced, managed>>

-----------------------------------------------------------------------------
(* The environment.                                                        *)

\* a slip: sent pings are kept past the sigTime window
AgePingsUncapped(s) == {q + 1 : q \in s}

\* a ping signed PingWindow periods ago fails the sigTime window of
\* CMerchantnodePing::CheckAndUpdate wherever it is relayed
AgePings(s) == {q + 1 : q \in s} \ {PingWindow}

\* a period ends once the pool thread has called ManageStatus in it; on an
\* unsynced chain the pool thread does nothing and time just passes
Tick ==
    /\ managed \/ ~synced
    /\ Registry!Tick
    /\ pingsSent' = AgePings(pingsSent)
    /\ managed' = FALSE
    /\ UNCHANGED <<status, vinSet, coinLocked, synced>>

\* the cold wallet holding the collateral runs start-alias: CreateBroadcast,
\* UpdateMerchantnodeList on the cold wallet, and the relay
StartAlias ==
    /\ ~Funded
    /\ Registry!Announce
    /\ UNCHANGED <<status, vinSet, coinLocked, pingsSent, synced, managed>>

Spend == Registry!Spend /\ UNCHANGED <<status, vinSet, coinLocked, pingsSent, synced, managed>>

\* IsBlockchainSynced latches true; it turns false again only after more
\* than an hour between two calls (the machine slept), until the tip is
\* recent again
LoseSync == synced /\ synced' = FALSE /\ UNCHANGED <<registryVars, status, vinSet, coinLocked, pingsSent, managed>>
RegainSync == ~synced /\ synced' = TRUE /\ UNCHANGED <<registryVars, status, vinSet, coinLocked, pingsSent, managed>>

\* the node's process restarts: the constructors' values, an empty registry
\* (nothing calls DumpMerchantnodes, so mncache.dat is never written), no
\* locked coins, and an unsynced chain
Restart ==
    /\ status' = "INITIAL"
    /\ vinSet' = FALSE
    /\ coinLocked' = FALSE
    /\ synced' = FALSE
    /\ entry' = NoEntry
    /\ mapSeenMerchantnodeBroadcast' = [h \in {} |-> 0]
    /\ mapSeenMerchantnodePing' = {}
    /\ askLeft' = 0
    /\ dsegAsked' = FALSE
    /\ UNCHANGED <<announced, sigAge, spent, pingsSent, managed>>

Init ==
    /\ Registry!Init
    /\ status = "INITIAL"
    /\ vinSet = FALSE
    /\ coinLocked = FALSE
    /\ pingsSent = {}
    /\ synced = FALSE
    /\ managed = FALSE

Next ==
    \/ \E l, c, w, m \in BOOLEAN : ManageStatus(l, c, w, m)
    \/ \E i \in 1..announced, lc, la, m \in BOOLEAN :
           \E p \in Relayed(i) : ReceiveMnb(i, p, lc, la, m)
    \/ \E l, c, w, m \in BOOLEAN : StartLocal(l, c, w, m)
    \/ \E l \in BOOLEAN : CheckEntry(l)
    \/ \E l \in BOOLEAN : CheckAndRemove(l)
    \/ Tick
    \/ StartAlias
    \/ Spend
    \/ LoseSync
    \/ RegainSync
    \/ Restart

Spec == Init /\ [][Next]_vars

-----------------------------------------------------------------------------
(* Properties.                                                             *)

TypeOK ==
    /\ Registry!TypeOK
    /\ status \in Statuses
    /\ {vinSet, coinLocked, synced, managed} \subseteq BOOLEAN
    /\ pingsSent \subseteq 0..(PingWindow - 1)

(***************************************************************************)
(* The node's own pings mature its entry: while the node is STARTED and    *)
(* its collateral unspent, the entry it holds for itself ends up ENABLED   *)
(* for good, as its pings (SendMerchantnodePing) move lastPing past        *)
(* MERCHANTNODE_MIN_MNP_SECONDS and Check runs.                            *)
(***************************************************************************)
StartedEntryEnabled ==
    <>[](status = "STARTED" /\ ~spent => Registry!IsEnabled(entry))

====
