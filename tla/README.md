# TLA+ models of the Artax merchantnode subsystem

This directory holds TLA+ models of the merchantnode code in `src/` and the
TLC configurations that check them. `PROJECT.json` lists the components,
the runs, the mutants that each checked property must catch, the map from every
definition to the source lines it translates, the findings and the hazards.

## The system

The merchantnode subsystem has five parts that share state. They run on two
kinds of thread: the message handlers (one per inbound message) and
`ThreadMerchantnodePool` (`merchantnode-helpers.cpp:18-47`).

| Part | Source | State | Operations |
|---|---|---|---|
| Sync coordinator | `merchantnode-sync.{h,cpp}` | `RequestedMerchantnodeAssets` (stage), `RequestedMerchantnodeAttempt`, watermarks `lastMerchantnodeList/Winner`, `lastBudgetItem`, `lastCommunityItem`, `mapSeenSync*`, `nAssetSyncStarted`, `lastFailure`, per-peer fulfilled flags, the static latch of `IsBlockchainSynced` | `Process`, `GetNextAsset`, `Reset`, `ClearFulfilledRequest`, `Added*`, `ProcessMessage("ssc")` |
| Registry | `merchantnodeman.cpp`, `merchantnode.cpp` | `vMerchantnodes`, `mapSeenMerchantnodeBroadcast/Ping`, `mAskedUs/WeAsked*` | `mnb`/`mnp`/`dseg` handlers, `CMerchantnode::Check`, `CheckAndRemove`, `Add`, `Remove` |
| Election | `merchantnodeman.cpp:476-705`, `merchantnode.cpp:169-307` | none of its own, reads the registry | `CalculateScore`, `GetMerchantnodeRank(s)`, `GetNextMerchantnodeInQueueForPayment` |
| Payment-vote ledger | `merchantnode-payments.{h,cpp}` | `mapMerchantnodePayeeVotes`, `mapMerchantnodeBlocks` (per-height payee tallies), `mapMerchantnodesLastVote` | `mnw` handler, `CanVote`, `AddWinningMerchantnode`, `ProcessBlock`, `CleanPaymentList`, `IsTransactionValid` |
| Activation controller | `activemerchantnode.{h,cpp}` | `status`, `vin`, `service` | `ManageStatus`, `SendMerchantnodePing`, `CreateBroadcast`, `EnableHotColdMasterNode` |

How they interact:
- The pool thread calls `merchantnodeSync.Process()` every second.
- Once the chain is synced, the pool thread also calls `ManageStatus` every 300 counts, and `CheckAndRemove` and `CleanPaymentList` every 60.
- The registry and ledger handlers report every new item to the sync coordinator (`Added*`). Pruning erases the sync counts (`mapSeenSync*.erase`).
- The sync coordinator calls `ManageStatus` when the budget stages end.
- The election ranks the registry. The ledger accepts a vote only from a node ranked in the top ten.

The hard behaviours:
- the two threads interleave with no lock on the sync object;
- `TRY_LOCK`s fail and skip work;
- peers stay silent, answer late, send duplicates or reconnect;
- the machine sleeps for hours;
- votes arrive for heights in any order.

Out of the repository, and so outside the model:
- the budget and community-vote modules that call `AddedBudgetItem` and `AddedCommunityItem`;
- sporks, signatures and the chain. These enter as inputs.

## Modules

### `MerchantnodeSync` (sync coordinator)

Variables:
- The code's fields keep their names: `RequestedMerchantnodeAssets`, `RequestedMerchantnodeAttempt` and `mapSeenSync`. `fulfilledRequests` holds the `CNode` flags of `vNodes`, and `fBlockchainSynced` is the static latch.
- Timestamps are ages counted in periods of 5 s. One period is one run of the body of `Process()`, which runs on every fifth 1 s tick.
- Each age saturates at the first value past which every comparison of the code is settled:
  - `lastX < now - 10` becomes age ≥ 3;
  - `now - nAssetSyncStarted > 25` becomes age ≥ 6;
  - `lastFailure + 60 < now` becomes age ≥ 13.
- A timestamp of 0 is the model value `NoItem`.
- `Reset()` leaves `lastCommunityItem` and `mapSeenSyncCommunity` alone (`ResetKinds`), as the code does.

Actions:
- `ProcessTick(lockVNodes, lockMain, lockClear, hasEnabled)` is one whole run of `Process()`. It takes the three `TRY_LOCK` outcomes and `CountEnabled() > 0` as inputs. It composes `Reset`, `GetNextAsset`, the blockchain-synced check and the peer loop (`SporksStep`, `ListStep` for LIST and MNW, `BudgetStep` for BUDGET and COMMUNITYVOTE) as functions on a record of the fields. So the order of the checks, and every early return, follows the code.
- Environment actions:
  - `ItemArrives(k, h)`: an `Added*` call made by a handler that passed `IsBlockchainSynced()`;
  - `ForgetSeen`: a `mapSeenSync*.erase` by the pruning code;
  - `Sleep` and `WakeUp`: the reset inside `IsBlockchainSynced` after a sleep of more than an hour;
  - `TipCatchUp`;
  - `PeerReconnect`.

`MCMerchantnodeSync`:
- It sets six peers.
- It adds a counter that allows at most `MaxDisturbances = 3` disturbances: item arrivals, erased counts, sleeps and reconnecting peers. The liveness property therefore speaks of what happens once the environment stops disturbing the sync.

Fairness:
- Weak fairness on `UncontendedTick`, the run of `Process()` in which no `TRY_LOCK` fails. The pool thread is an endless loop and the locks are held only briefly.
- Weak fairness on `WakeUp` (some thread calls `IsBlockchainSynced` again) and on `TipCatchUp` (block download completes).
- None on the peers: they may stay silent forever and never reconnect.

Abstractions:
- Peers are `1..NPeers`, in `vNodes` order. All of them speak the current protocol, so the `nVersion` checks always pass.
- One item hash per kind is enough: the code counts each hash separately, up to `MASTERNODE_SYNC_THRESHOLD`, and a stage reads only the newest arrival.
- The ssc `sum`/`count` fields are written here but read only by the absent budget code, so they are left out. So are `nCountFailures` (never read), `GetSyncStatus` (text) and the regtest branch.
- The `.cpp` uses the `MASTERNODE_SYNC_*` names of an outside header. The model takes the values of `merchantnode-sync.h`.

### `MerchantnodePayments` (payment-vote ledger)

Variables:
- `mapMerchantnodePayeeVotes` holds the hashes of the accepted votes. A hash is the record `[vin, h, payee]`, as `GetHash()` covers those three fields and not the signature.
- `mapMerchantnodeBlocks[h][p]` is the `nVotes` of payee `p` at height `h`.
- `mapMerchantnodesLastVote`, `nLastBlockHeight` and `nHeight` (the tip) keep their names.
- `signedVote[v][h]` is the vote an honest voter signed and relayed.
- `cleaned` is a history variable of the hashes `CleanPaymentList` removed.
- `zeroVote` says whether this node's empty winner (height 0, no payee) is stored; it is kept apart from the vote set, as no tally of height 0 is read.

Actions:
- `ReceiveMnw(m)` is the whole `mnw` handler, in the code's order:
  1. dedup by hash;
  2. the range check `nFirstBlock`/`+20`;
  3. `IsValid` (the sender is one of `Voters`);
  4. `CanVote`, which records the height;
  5. `SignatureValid`;
  6. `AddWinningMerchantnode`, with its `AddPayee`.
- `IsTransactionValid(h, paid)` is the operator for block validation. A coinbase is valid while no payee of `h` has the required votes; otherwise it must pay one such payee. `PayeeUnique` is stated through it.

  The returns that change nothing are stuttering steps, and so is a failed `TRY_LOCK(cs_main)`.
- `ProcessBlock(h)` is this node's vote for any payee. `IsScheduled` would exclude the payees leading a nearby height, but it returns false when its `TRY_LOCK(cs_main)` fails, so any payee is possible. A failed rank check changes nothing.
- `ProcessBlockNoWinner(h)` is `ProcessBlock` with no winner (a budget block or an empty queue). The vote keeps `nBlockHeight` 0. `GetBlockHash(-100)` succeeds, because `nBlocksAgo` stays 0 below height 1. So the first such vote is stored under height 0, relayed, and sets `nLastBlockHeight`; while it is stored, later ones are duplicates. `CleanPaymentList` drops it once the tip is more than the limit above 0.
- `FillBlockPayee` and `GetBlockPayee` (the miner's coinbase) are not modelled. The coinbase's amount comes from `GetBlockValue` and `GetMerchantnodePayment`, which are outside the repository. Folding the amount into the payee would hide the height mismatch at `merchantnode-payments.cpp:312` (see Left to review).
- `Voters` is the set of nodes whose votes `IsValid` accepts. This includes unranked nodes: `IsValid` rejects only a rank above 10, and `GetMerchantnodeRank` returns -1 for a node it does not rank (see Left to review).
- Environment actions:
  - `HonestVote`: another honest voter's `ProcessBlock`;
  - `NewTip`;
  - `CleanPaymentList`, as called by the pool thread.

Peers:
- Peers deliver any deliverable vote at any time, any number of times, or never. A deliverable vote is one of:
  - a signed vote of an honest voter;
  - any signed vote of a `Byzantine` voter;
  - when `Forgeries` holds, any vote with a bad signature.
- The caller of `ProcessBlock` (outside the repository) votes for `tip + 10`. The model scales the offset to 1 (`VoteOffset`): voters vote for `nHeight + 1`, once per height, in increasing order.

Bounds:
- 3 nodes, all top-ten voters, with this node among them.
- 2 payees, under symmetry.
- Tips `1..5`, votes for heights `1..3`.
- `SigsRequired = 2`, which is 6 of 10 scaled to 2 of 3: two payees can both reach it only if a voter is counted twice.
- `NEnabled = NSize = 1`. The range check then reaches back `ceil(1.25) = 2` blocks.
- `MinCleanDepth`, the 1000-block floor, is 2 in the passing runs. There it exceeds the range depth, as 1000 does for fewer than 800 nodes.
- The tip reaches 5 so that a vote for height 2 can age past the limit and be cleaned.

### `MerchantnodeElection` (rank and payment queue)

The two functions that decide who votes and who is paid, from
`merchantnodeman.cpp`:
- `GetMerchantnodeRank` (lines 593-637) ranks the enabled, protocol-current nodes by score. Under payment enforcement it ranks only nodes announced at least `MN_WINNER_MINIMUM_AGE` ago. The ledger's `IsValid` accepts a vote only from a node ranked in the top ten.
- `GetNextMerchantnodeInQueueForPayment` (lines 476-536) sorts the candidates oldest-paid first. It scores the first `max(1, CountEnabled()/10)` of them and returns the highest scorer. When the sigTime filter leaves fewer than a third of the enabled nodes, it calls itself again without the filter.

State and actions:
- `vMerchantnodes` maps each node to a record of what these functions read: the score, `IsEnabled`, the protocol check, the age checks, the queue checks and `SecondsSincePayment`. `Init` chooses it, and the functions only read it.
- `answer[p]` holds the last call peer `p` made and its result. `ComputeRank(p, v)` and `ComputeWinner(p)` are the two calls as `ProcessBlock` and `IsValid` make them.
- Both functions sort with `std::sort` and a comparator on the key alone. `std::sort` is not stable, so equal keys may come out in any order. `SortedDesc(S, key)` is the set of every order the sort may produce, and each function returns the set of its possible answers. Where the keys are distinct, that set has one element.
- The divisor 10 of `CountEnabled()/10` is the constant `TenthDivisor`, 2 in the runs. With four nodes the examined prefix is then 1 or 2 long, so both the cut and the `max(1, ...)` floor come into play.

Checks:
- `GetCurrentMasterNode` (lines 568-591) is the leader `FillBlockPayee` pays when no payee has votes, and `ComputeCurrent(p)` is the call.
  - It keeps the first enabled entry with a compact score above the best so far, starting from 0.
  - Both callers pass `minProtocol` 0 (`merchantnode-payments.cpp:303`, `rpcmerchantnode.cpp:356`), so no entry is skipped for its protocol.
  - A tie may go to any tied entry, as the model does not keep the vector's order.
- `QueueMatchesReference` compares each queue answer with a reference written from spec 4.2, not from the loop. The reference is the best score among the eligible nodes with fewer than `max(1, n/10)` nodes paid longer ago.
- Ranks and the leader have no property. With distinct scores each is the sort position by definition. The interesting case is a tie of compact scores, where peers disagree (see Left to review).

`MCMerchantnodeElection` builds the registries directly:
- for the rank: every enabled, protocol and age state of four nodes;
- for the queue: every enabled, scheduled and new state, with every assignment of distinct payment ages.

### `MerchantnodeRegistry` (one collateral as one peer holds it)

The entry of one collateral in `vMerchantnodes`, as one observing peer holds it. The module models:
- the `mnb` handler (`merchantnodeman.cpp:714-747`), with `CMerchantnodeBroadcast::CheckAndUpdate`, `CMerchantnode::UpdateFromNewBroadcast` and `CheckInputsAndAdd` (`merchantnode.cpp`);
- the `mnp` handler with `CMerchantnodePing::CheckAndUpdate`;
- the lifecycle `CMerchantnode::Check`;
- `CheckAndRemove`;
- `AskForMN` and the dseg for one vin, with its answer or its loss;
- `UpdateMerchantnodeList`, which start-alias runs on the cold wallet's own list.

State:
- `entry` is `NoEntry` or a record of the broadcast it holds (`b`, its sigTime), the age of its `lastPing`, and its `activeState`.
- `mapSeenMerchantnodeBroadcast` maps each hash to the age of the ping it carries.
- `mapSeenMerchantnodePing` holds the ages of the pings seen inside the hour. An older ping is refused by its sigTime check before it can change anything.
- `sigAge[i]` is the age of broadcast `i`, `announced` is how many the owner signed, and `spent` says whether the collateral is spent.
- `askLeft` is the `mWeAskedForMerchantnodeListEntry` record of the vin: periods until `askAgain`, 0 when there is none or it has passed. `dsegAsked` says that a dseg sent by `AskForMN` awaits its answer.
- Time is in periods of 5 minutes, and every age saturates once the code's comparisons are settled.
- The broadcast hash is `hash(sigTime, pubKeyCollateralAddress)`. With one honest owner it is the broadcast's index, and the broadcast's order is its sigTime order.

Actions:
- `ReceiveMnb(i, p, lockCheck, lockAdd, mature)` is one whole run of the mnb handler. It receives broadcast `i` carrying a ping of age `p`, with the two `TRY_LOCK(cs_main)` outcomes and the confirmation test as inputs. The seen insert happens first; then the refusal of an outdated broadcast (`Outdated`), the update path of an enabled entry, and `CheckInputsAndAdd`. `CheckInputsAndAdd` removes a non-enabled entry before its lock and erases the hash when it will retry, in the code's order.
- `ReceiveMnp(p, lockMain)` receives the owner's ping of age `p`. It requires `IsEnabled()` (the default `fRequireEnabled = true`), the rate limit `PingDue` and a recent anchor `AnchorRecent`. A ping for a vin this peer does not hold calls `AskForMN`, which sends a dseg unless `askAgain` is still ahead.
- `AnswerDseg(i, p, ...)` is a peer's answer to that dseg, its broadcast with its newest ping, taken by the mnb handler. `DsegDropped` is every other end of the request: the dseg or its answer is lost, no peer holds the entry enabled, or the answer's hash is already seen.
- `StartAliasHere(lockCheck)` makes this peer the cold wallet: the owner signs broadcast `announced + 1` (`Signed`, `CreateBroadcast`) and `UpdateMerchantnodeList` puts it and its fresh ping straight into the seen maps and the list. It skips `CheckAndUpdate` and `CheckInputsAndAdd`, and `Check` runs only if the carried ping passes its own check.
- `CheckEntry(lockMain)` is any reader's `Check()`.
- `CheckAndRemove(lockMain)` is the pool thread's call once a minute.
- The environment: `Tick` (a period passes), `Announce` (the owner signs a new broadcast elsewhere, as `ManageStatus` or a remote start-alias does), and `Spend`. Relays by other peers are `ReceiveMnb` with any ping in the broadcast's window (`Carried`). They may be late, repeated, or never sent.
- The dseg handler's insert of an enabled entry's broadcast into the seen map is left out. TLC showed it never enabled: that hash is present while the entry is enabled.
- The code names its times and states `MASTERNODE_*`, which no header of this repository defines. The model takes the values of the `MERCHANTNODE_*` defines of `merchantnode.h`.

`MCMerchantnodeRegistry` adds timely pings: `TimelyTick` ends a period only once the current ping has reached the handler (a relay takes seconds, a period five minutes). It bounds the relays a peer sends on its own (`Relay`) to `MaxRelays = 2`; dseg answers are not bounded. Its fairness is:
- weak fairness on `TimelyTick`, on `CheckAndRemove(TRUE)` (the pool thread runs it every minute and the lock is held only briefly), and on the uncontended handling of the current ping;
- strong fairness on a dseg answer of some broadcast with a current ping, all locks free and the collateral confirmed. A dseg that `AskForMN` keeps sending, once per `askAgain`, is not lost every time. Spontaneous relays owe nothing.

Relays are bounded because the code lets them starve the recovery. The mnb handler inserts a hash into the seen map before `CheckAndUpdate` (`merchantnodeman.cpp:721`). A relayed copy whose ping is over an hour old is refused but stays seen, and the dseg answer with a fresh ping has the same hash, `hash(sigTime, pubkey)`. It is dropped as seen until `CheckAndRemove` expires the hash, after twice the removal time. With unbounded relays TLC finds a run in which a peer keeps replaying the stale copy and `Settles` fails. `Settles` therefore speaks of what the peer does once the replays stop.

Checks:
- `Settles`: with timely pings and relays, the peer ends up holding the entry ENABLED for good, unless the collateral is spent.
- `SpentForgotten`: once the collateral is spent, the entry is eventually gone for good.
- `HeartbeatRefreshes` (violated): a due ping with a recent anchor, for a PRE_ENABLED or ENABLED entry, becomes its `lastPing`.

### `ActiveMerchantnode` (activation controller, composed with the registry)

`CActiveMerchantnode` of this node (`activemerchantnode.{h,cpp}`), composed
with the node's own registry entry for its collateral. The registry is
`Registry == INSTANCE MerchantnodeRegistry` with the same variables, so the
node's list is `entry` and its seen maps are the registry's. The node never
handles a ping it did not sign and put into its own seen map, so it never
calls `AskForMN`: `askLeft` and `dsegAsked` stay 0 and FALSE, and `Restart`
resets them with the other maps.

State, beyond the registry's:
- `status`: one of the five `ACTIVE_MERCHANTNODE_*` values.
- `vinSet`: `activeMerchantnode.vin` holds the collateral. It is what the early return at `merchantnode.cpp:573` compares (`Own`).
- `coinLocked`: the wallet has locked the collateral (`LockCoin`, line 102).
- `pingsSent`: the ages of the pings the node has relayed. A peer's relay of the broadcast may carry any of them (`Relayed`).
- `synced`: `IsBlockchainSynced()`.
- `managed`: the pool thread has called `ManageStatus` in the current period.

Constants: `Funded` says whether the wallet holds the collateral. FALSE is a hot node that waits for start-alias from a cold wallet; TRUE is a self-activating node. `ConfListed` says whether `merchantnode.conf` lists the coin, which `SelectCoinsMerchantnode` unlocks for a moment under `-mnconflock`.

Actions:
- `ManageStatusFrom(s, ...)` is the body of `ManageStatus` entered with status `s`. It has:
  - the sync gate (SYNC_IN_PROCESS);
  - the INITIAL branch, which looks up and `Check`s the own entry and calls `EnableHotColdMasterNode` when it is enabled;
  - `Activate`, for a node that is not STARTED: the wallet, balance, address, port and connection checks become the `capable`/`walletOK` inputs, then `GetMasterNodeVin`, the input-age check (INPUT_TOO_NEW), `LockCoin`, `CreateBroadcast` and the relay, ending STARTED;
  - `SendMerchantnodePing` for a STARTED node, with its rate limit and its NOT_CAPABLE fall-back when the own list lacks the vin.
- `ManageStatus` is the pool thread's call. It happens once a period and only while synced (`merchantnode-helpers.cpp:33-38`). `StartLocal` is the RPC `startmerchantnode local`: unless STARTED, it sets INITIAL and runs the body at any time. It is the only caller that meets an unsynced chain.
- `ReceiveMnb` is the registry's mnb handler with `own = vinSet`. When `CheckInputsAndAdd` adds the entry, `EnableHotColdMasterNode` sets STARTED and the vin. `ProcessMessage` drops everything while unsynced.
- `CheckEntry` and `CheckAndRemove`. The latter is the pool thread's call, made only while synced.
- Environment actions:
  - `Tick`: a period passes, once `ManageStatus` has run, or at any time on an unsynced chain;
  - `StartAlias`: a cold wallet signs a new broadcast;
  - `Spend`;
  - `LoseSync`: a sleep of over an hour resets the latch;
  - `RegainSync`;
  - `Restart`: the constructors' values and an empty registry. Nothing in the repository calls `DumpMerchantnodes`, so `mncache.dat` is never written.

`MCActiveMerchantnode` bounds sleeps and restarts to `MaxDisturbances = 2` and adds a history variable `slept`. Its fairness is:
- weak fairness on the pool thread's `ManageStatus` and `CheckAndRemove(TRUE)`, on `Tick` and on `RegainSync`;
- none on relays: peers may never send a broadcast back.

Checks:
- `StaysStarted`: a STARTED node that has not slept leaves STARTED only on restart or spend (spec 4.5).
- `StartedEntryEnabled`: while STARTED and unspent, the node's own entry ends up ENABLED for good.

Bounds are the registry's. Two broadcasts are enough for a second start-alias after a lapse, and two disturbances allow a sleep and a restart in one behaviour.

### `PayeeLedger` (abstract payment-vote ledger) and the refinement

`PayeeLedger` is what the ledger promises (spec 4.2 and 8), without messages, hashes, locks or tallies. It has two variables:
- `accepted`, a set of votes `[vin, h, payee]`;
- `dropped`, the votes pruning removed.

It has two actions:
- `Accept(m)` adds a vote when its voter has no vote for that height, held or pruned.
- `Prune` removes some votes, each older than every vote kept.

`MCMerchantnodePayments` instantiates it as `Ledger == INSTANCE PayeeLedger WITH accepted <- mapMerchantnodePayeeVotes, dropped <- cleaned`. The run `payments_honest` checks `LedgerRefinement == Ledger!Spec` as a property. The `mnw` handler, `ProcessBlock` and `CleanPaymentList` are each one abstract step (or a stutter), under honest voters and forged votes.

## Runs

| Run | Config | Expect | What it shows |
|---|---|---|---|
| `sync_settles` | `MerchantnodeSync.cfg` | pass | Six peers, enforcement on, mnb and community items, sleeps and reconnecting peers: the stage order holds, nothing after SPORKS advances while the chain is unsynced, and the sync keeps returning to FINISHED or FAILED (`SyncSettles`). 175k states, about 80 s. |
| `sync_few_peers` | `MerchantnodeSyncFewPeers.cfg` | violation | With three silent peers, LIST waits forever. Its timeout is examined only after an un-asked peer is found, against spec 8 scenario 3. |
| `sync_clear_contention` | `MerchantnodeSyncClearContention.cfg` | violation | One failed `TRY_LOCK` in `ClearFulfilledRequest` at a restart stalls the next round. |
| `payments_honest` | `MerchantnodePayments.cfg` | pass | Honest voters, forged votes, any delivery order: `IsTransactionValid` never accepts coinbases paying two different payees of one height unless no payee has the votes, cleaned votes never return, tallies equal the stored votes, and the ledger refines `PayeeLedger`. 595k states under symmetry of payees and of the two other honest voters, about 2 min. |
| `payments_double_vote` | `MerchantnodePaymentsDoubleVote.cfg` | violation | `CanVote` keeps only the last height: votes for H1, H2 and H1 again are all accepted, against spec 8. |
| `payments_forged_vote` | `MerchantnodePaymentsForgedVote.cfg` | violation | A forged vote delivered first uses up the voter's `CanVote` slot. The genuine vote is then rejected. |
| `payments_resurrection` | `MerchantnodePaymentsResurrection.cfg` | violation | With more than 800 nodes, `CleanPaymentList` keeps `floor(1.25·size)` blocks while the range check reaches back `ceil(1.25·enabled)`. This node's own vote at the boundary is cleaned and accepted again. |
| `election_reference` | `MerchantnodeElection.cfg` | pass | Four nodes with distinct scores and payment ages, one peer: every queue winner equals the reference; rank and leader queries are explored alongside. 717k states, about 1 min. |
| `registry_settles` | `MerchantnodeRegistry.cfg` | pass | Two broadcasts, relays with any ping in their window, failing `TRY_LOCK`s and unconfirmed collateral, with timely pings: `Settles` and `SpentForgotten` hold. Relays are bounded by `MaxRelays`, and recovery is through `AskForMN` and the dseg answer. About 121k states, about 1 min. |
| `registry_heartbeat` | `MerchantnodeRegistryHeartbeat.cfg` | violation | A new entry whose `lastPing` is its broadcast's own ping turns PRE_ENABLED at its first `Check`, and the mnp handler then refuses every ping (`fRequireEnabled`). It recovers only through EXPIRED, REMOVE and a relayed broadcast, against spec 8 scenario 1. |
| `active_cold` | `ActiveMerchantnode.cfg` | pass | A hot node without funds, activated by start-alias broadcasts relayed back with any ping, with failing `TRY_LOCK`s, unconfirmed collateral, sleeps, restarts and `startmerchantnode local`: `StaysStarted` and `StartedEntryEnabled` hold. 275k states, about 2 min. |
| `active_self` | `ActiveMerchantnodeSelf.cfg` | violation | A funded node that activates itself is never in its own list. `ManageStatus` relays its broadcast without adding it, and `CheckInputsAndAdd` returns early for its own vin. Its first ping then finds no entry and sets NOT_CAPABLE, and the locked coin is not offered again. Spec 4.5 says it stays STARTED. |

Bounds:
- Six peers is the smallest number for which the LIST/MNW timeout can fire: `MASTERNODE_SYNC_THRESHOLD * 3` requests.
- Three disturbances allow one item before a reset, a sleep, and one item after it. That is what the watermark and reset cases need. A reconnecting peer is one more kind of disturbance, so reconnection is bounded by the same three.
- The registry runs scale minutes to periods: `MIN_MNB` 1, `MIN_MNP` 2, anchor 2, ping window 3, expiry 4, removal 5. This keeps the code's order `MIN_MNB <= MIN_MNP <= anchor < window < expiry < removal` (an `ASSUME`), and every gap is at least one period, so each branch of `Check` and of the handlers is reachable. Two broadcasts are the fewest for an outdated relay and for the update path.
- The election runs use four nodes, the fewest for which `CountEnabled()/2` can cut the sorted queue short of its end.

Left to review rather than to a run:
- `GetMerchantnodeRank` can also tie. It compares `GetCompact(false)` of the score, which keeps about 23 bits of the 256-bit value, with the same unstable sort. Two peers may then disagree on whether a node is in the top ten. The payment queue has the same ordering hazard at `merchantnodeman.cpp:513`: `QueueMatchesReference` covers distinct payment ages only.
- `Reset()` keeps `lastCommunityItem`, so COMMUNITYVOTE of a new round can complete on an item of an earlier round (spec 3 says a reset starts the watermarks afresh). The sync model keeps this behaviour; no run singles it out.
- `IsMerchantnodeListSynced()` is true in FAILED. The Qt start-missing button trusts it, while the RPC guard of the same command excludes FAILED.
- `GetBlockHash` caches each height's hash in `mapCacheBlockHashes` and never drops an entry (`merchantnode.cpp:33`). `GetCurrentMasterNode(1)` and the list RPC ask for the tip. After a reorg of the tip, this node keeps the orphaned hash. A hundred blocks later that height is a score height, and this node's ranks differ from its peers'.
- `FillBlockPayee` takes the block value of the tip (`GetBlockValue(pindexPrev->nHeight)`), while `IsTransactionValid` requires the payment from the value of the block's own height. Where the subsidy rises from one height to the next, a node's own coinbase pays too little. `GetBlockValue` is outside the repository.
- An entry can go back to an older broadcast, against spec.md line 82 ("reject updates from equal-or-older timestamps"). While the entry exists, the `sigTime` test at `merchantnode.cpp:547` refuses an older broadcast. But `CheckAndRemove` removes the entry and erases its seen hashes, and after that a relay of broadcast 1 with a fresh ping is admitted where broadcast 2 was held. The same happens without the erase: broadcast 2, relayed again with an expired ping, is refused but stays seen, and then broadcast 1 is admitted. TLC finds both when the registry model records the newest broadcast held in a history variable. No run slot was left for it.
- `CMerchantnodePaymentWinner::IsValid` (`merchantnode-payments.cpp:675-685`) rejects a voter only when its rank is above 10. `GetMerchantnodeRank` returns -1 for a voter that is disabled, PRE_ENABLED, or immature under SPORK_8, and when the score block's hash is not found. Such a voter passes `IsValid`, and its vote is counted. `ProcessBlock` (line 699) does test for -1. The payments model takes the accepted voters as the constant `Voters`, so no run composes it with the election's -1.
- `GetBlockPayee` reads `mapMerchantnodeBlocks` without `cs_mapMerchantnodeBlocks`, while the handlers insert and erase (a data race).
- Seen-map poisoning (`merchantnodeman.cpp:721`): a replayed relay with a stale ping keeps the entry out for as long as it is replayed. `registry_settles` bounds relays for this reason (see the registry section).
- `UpdateMerchantnodeList` adds the cold wallet's entry without the confirmation and `AcceptableInputs` checks, and start-alias's `CreateBroadcast` checks no confirmations. The cold wallet can list as ENABLED a collateral every peer refuses. Confirmations are an input of each receipt in the model, not state, so no property compares the two.
- `GetMerchantnodeRank`, `GetMerchantnodeRanks`, `GetCurrentMasterNode`, `GetMerchantnodeByRank` and `CountEnabled` scan `vMerchantnodes` without `LOCK(cs)`, while `Add` and `CheckAndRemove` change it (undefined behaviour). `GetMerchantnodeRanks` (the list RPC) also gives disabled entries the score 9999 and skips the matured filter, so its ranks can differ from `GetMerchantnodeRank`'s.
- On MAIN, `DsegUpdate` skips a public peer asked within the last 3 hours, while the sync's LIST stage flags that peer and counts the attempt. A LIST stage retried after FAILED or a `Reset` within 3 hours sends no dseg to those peers. The sync model does not tie answers to requests, so it cannot show this.
- `startmerchantnode all|many|missing|disabled` (`rpcmerchantnode.cpp:457-513`) calls `CreateBroadcast` and counts a success, but it neither calls `UpdateMerchantnodeList` nor relays the broadcast, unlike `alias` (lines 540-541). The commands report "Successfully started" and change no state. A model would hold nothing for them, so this is recorded here rather than checked.

## Not modelled

See the components of `PROJECT.json`:
- RPC and Qt front ends, apart from their state-changing calls. The RPC start-alias and the Qt start buttons (`qt/merchantnodelist.cpp:103, 143`) run `CreateBroadcast`, `UpdateMerchantnodeList` and a relay, which is the registry's `StartAliasHere` and `Announce`. The rest is display, and the Qt start-all also locks the wallet again at its end;
- configuration file parsing;
- the persistence files, which are I/O with checksums. Nothing calls `DumpMerchantnodes`, so the registry starts empty after every restart, which is how both the registry and the activation modules start;
- the race between `EnableHotColdMasterNode`, on the message thread, and `ManageStatus`, on the pool thread. There is no lock, so this is a data race; both run as atomic steps;
- a dropped hot node that ignores new start-alias broadcasts until a restart. The model contains it (`Own` is `vinSet`, which only `Restart` clears), but no run states it.
