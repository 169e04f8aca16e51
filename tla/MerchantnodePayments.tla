------------------------- MODULE MerchantnodePayments -------------------------
(***************************************************************************)
(* CMerchantnodePayments (src/merchantnode-payments.{h,cpp}): the ledger   *)
(* of payment votes ("mnw").  A merchantnode ranked in the top             *)
(* MNPAYMENTS_SIGNATURES_TOTAL at height h - 100 votes for the payee of    *)
(* block h; every node counts the votes it accepts per height and payee,   *)
(* and a coinbase must pay a payee with MNPAYMENTS_SIGNATURES_REQUIRED     *)
(* votes when there is one.                                                *)
(*                                                                         *)
(* A vote is a record [vin, h, payee, sig]; its hash (GetHash) covers      *)
(* vin, h and payee but not sig.  Peers deliver votes in any order, any    *)
(* number of times, or never: a signed vote of an honest voter, any vote   *)
(* of a byzantine voter (which signs what it likes), and forgeries with a  *)
(* bad signature in anyone's name.  Signatures are a flag, as the          *)
(* signing primitives are outside this repository.                         *)
(***************************************************************************)
EXTENDS Integers, FiniteSets

CONSTANTS
    Nodes,          \* collateral outpoints of the merchantnodes (model values)
    Voters,         \* the nodes IsValid accepts: known, current protocol, and a
                    \*   rank n with n <= 10, which admits n = -1 (unranked)
    Byzantine,      \* voters that sign conflicting votes
    Me,             \* this node's outpoint when fMasterNode (a voter), else NoNode
    NoNode,
    Payees,         \* payee scripts of the queue winners
    MaxHeight,      \* the tip stays in 1..MaxHeight
    MaxVoteHeight,  \* votes are made for heights up to MaxVoteHeight
    NEnabled,       \* mnodeman.CountEnabled()
    NSize,          \* mnodeman.size()
    MinCleanDepth,  \* the 1000 of CleanPaymentList, scaled with the heights
    SigsRequired,   \* MNPAYMENTS_SIGNATURES_REQUIRED, scaled with the voters
    Forgeries,      \* whether peers send votes with a bad signature
    NoVote

ASSUME Voters \subseteq Nodes /\ Byzantine \subseteq Voters
ASSUME Me \in Voters \cup {NoNode} /\ Forgeries \in BOOLEAN
ASSUME MaxVoteHeight \in 1..MaxHeight
ASSUME NSize >= NEnabled /\ NEnabled \in Nat /\ MinCleanDepth \in Nat

Heights == 1..MaxHeight
Lookahead == 20   \* winner.nBlockHeight > nHeight + 20
\* a new tip makes every merchantnode call ProcessBlock(tip + 10); the
\* caller is outside the repository, the offset is scaled to 1
VoteOffset == 1

VoteHeights == 1..MaxVoteHeight
Votes == [vin : Nodes, h : VoteHeights, payee : Payees, sig : BOOLEAN]
Key(m) == [vin |-> m.vin, h |-> m.h, payee |-> m.payee]   \* GetHash()

VARIABLES
    nHeight,                    \* chainActive.Tip()->nHeight
    mapMerchantnodePayeeVotes,  \* hashes of the accepted votes
    mapMerchantnodeBlocks,      \* [Heights -> [Payees -> Nat]]: nVotes per payee
    mapMerchantnodesLastVote,   \* [Nodes -> Heights \cup {NoVote}]
    nLastBlockHeight,           \* the last height ProcessBlock voted for
    signedVote,                 \* [Nodes -> [Heights -> Payees \cup {NoVote}]]:
                                \*   the vote an honest voter signed and relayed
    cleaned,                    \* history: hashes CleanPaymentList removed
    zeroVote                    \* the empty winner (nBlockHeight 0, no payee) of this
                                \*   node is in mapMerchantnodePayeeVotes

vars == <<nHeight, mapMerchantnodePayeeVotes, mapMerchantnodeBlocks,
          mapMerchantnodesLastVote, nLastBlockHeight, signedVote, cleaned, zeroVote>>

-----------------------------------------------------------------------------

\* int nFirstBlock = nHeight - (mnodeman.CountEnabled() * 1.25): the double
\* is truncated towards zero
FirstBlock(n) == LET x == 4 * n - 5 * NEnabled
                 IN  IF x >= 0 THEN x \div 4 ELSE -((-x) \div 4)

InRange(h) == h >= FirstBlock(nHeight) /\ h <= nHeight + Lookahead

\* the votes a peer can deliver
Deliverable(m) ==
    \/ ~m.sig /\ Forgeries
    \/ m.sig /\ m.vin \in Byzantine
    \/ m.vin \in Voters \ Byzantine /\ signedVote[m.vin][m.h] = m.payee

\* CanVote: only the last voted height is remembered per outpoint
CanVote(v, h) == mapMerchantnodesLastVote[v] # h

\* CMerchantnodeBlockPayees::AddPayee
AddPayee(payees, p, nIncrement) == [payees EXCEPT ![p] = @ + nIncrement]

\* AddWinningMerchantnode: GetBlockHash(h - 100) exists for every height
\* modelled; the hash must be new
AddWinningMerchantnode(m) ==
    /\ Key(m) \notin mapMerchantnodePayeeVotes
    /\ mapMerchantnodePayeeVotes' = mapMerchantnodePayeeVotes \cup {Key(m)}
    /\ mapMerchantnodeBlocks' =
           [mapMerchantnodeBlocks EXCEPT ![m.h] = AddPayee(@, m.payee, 1)]

(***************************************************************************)
(* ProcessMessageMerchantnodePayments("mnw").  Returns that change nothing *)
(* (already seen, out of range, IsValid false, CanVote false) are          *)
(* stuttering; a failed TRY_LOCK(cs_main) drops the message, as a lost     *)
(* delivery does.                                                          *)
(***************************************************************************)
ReceiveMnw(m) ==
    /\ Deliverable(m)
    /\ Key(m) \notin mapMerchantnodePayeeVotes
    /\ InRange(m.h)
    /\ m.vin \in Voters
    /\ CanVote(m.vin, m.h)
    /\ mapMerchantnodesLastVote' = [mapMerchantnodesLastVote EXCEPT ![m.vin] = m.h]
    /\ IF m.sig
       THEN AddWinningMerchantnode(m)
       ELSE UNCHANGED <<mapMerchantnodePayeeVotes, mapMerchantnodeBlocks>>
    /\ UNCHANGED <<nHeight, nLastBlockHeight, signedVote, cleaned, zeroVote>>

\* a slip: the guard against voting twice lets the same height through
ProcessBlockRepeats(h) ==
    /\ Me \in Voters
    /\ h >= nLastBlockHeight
    /\ \E p \in Payees :
          LET m == [vin |-> Me, h |-> h, payee |-> p, sig |-> TRUE] IN
          /\ AddWinningMerchantnode(m)
          /\ signedVote' = [signedVote EXCEPT ![Me][h] = p]
          /\ nLastBlockHeight' = h
    /\ UNCHANGED <<nHeight, mapMerchantnodesLastVote, cleaned, zeroVote>>

(***************************************************************************)
(* ProcessBlock(h): this merchantnode votes, if it is in the top ten, for  *)
(* the queue winner (any payee: IsScheduled excludes payees only when its *)
(* TRY_LOCK(cs_main) succeeds), signs, adds and relays the vote.           *)
(***************************************************************************)
ProcessBlock(h) ==
    /\ Me \in Voters
    /\ h > nLastBlockHeight
    /\ \E p \in Payees :
          LET m == [vin |-> Me, h |-> h, payee |-> p, sig |-> TRUE] IN
          /\ AddWinningMerchantnode(m)
          /\ signedVote' = [signedVote EXCEPT ![Me][h] = p]
          /\ nLastBlockHeight' = h
    /\ UNCHANGED <<nHeight, mapMerchantnodesLastVote, cleaned, zeroVote>>

(***************************************************************************)
(* ProcessBlock(h) with no winner (budget block, empty queue): the vote    *)
(* keeps nBlockHeight 0 and no payee.  GetBlockHash(-100) succeeds, as     *)
(* nBlocksAgo stays 0 for a height below 1, so AddWinningMerchantnode      *)
(* stores it under height 0 and ProcessBlock relays it and sets            *)
(* nLastBlockHeight; while it is stored, the next one is a duplicate and   *)
(* changes nothing.                                                        *)
(***************************************************************************)
ProcessBlockNoWinner(h) ==
    /\ Me \in Voters
    /\ h > nLastBlockHeight
    /\ ~zeroVote
    /\ zeroVote' = TRUE
    /\ nLastBlockHeight' = h
    /\ UNCHANGED <<nHeight, mapMerchantnodePayeeVotes, mapMerchantnodeBlocks,
                   mapMerchantnodesLastVote, signedVote, cleaned>>

\* another honest voter runs its ProcessBlock(h) and relays the vote
HonestVote(v, h, p) ==
    /\ v \in Voters \ (Byzantine \cup {Me})
    /\ \A g \in Heights : g >= h => signedVote[v][g] = NoVote
    /\ signedVote' = [signedVote EXCEPT ![v][h] = p]
    /\ UNCHANGED <<nHeight, mapMerchantnodePayeeVotes, mapMerchantnodeBlocks,
                   mapMerchantnodesLastVote, nLastBlockHeight, cleaned, zeroVote>>

NewTip ==
    /\ nHeight < MaxHeight
    /\ nHeight' = nHeight + 1
    /\ UNCHANGED <<mapMerchantnodePayeeVotes, mapMerchantnodeBlocks,
                   mapMerchantnodesLastVote, nLastBlockHeight, signedVote, cleaned, zeroVote>>

\* a slip: the floor of 1000 blocks is left out
CleanLimitNoFloor == (5 * NSize) \div 4

\* nLimit = std::max(int(mnodeman.size() * 1.25), 1000)
CleanLimit == IF (5 * NSize) \div 4 > MinCleanDepth THEN (5 * NSize) \div 4
              ELSE MinCleanDepth

\* a slip: the votes go but mapMerchantnodeBlocks.erase is left out
CleanPaymentListKeepsTally ==
    LET old == {k \in mapMerchantnodePayeeVotes : nHeight - k.h > CleanLimit}
    IN  /\ old # {} \/ (zeroVote /\ nHeight > CleanLimit)
        /\ mapMerchantnodePayeeVotes' = mapMerchantnodePayeeVotes \ old
        /\ cleaned' = cleaned \cup old
        /\ zeroVote' = (zeroVote /\ nHeight <= CleanLimit)
        /\ UNCHANGED <<nHeight, mapMerchantnodeBlocks, mapMerchantnodesLastVote,
                       nLastBlockHeight, signedVote>>

\* a slip: the comparison is turned round and the recent votes go
CleanPaymentListRecent ==
    LET old == {k \in mapMerchantnodePayeeVotes : nHeight - k.h < CleanLimit}
        oldHeights == {k.h : k \in old}
    IN  /\ old # {} \/ (zeroVote /\ nHeight > CleanLimit)
        /\ mapMerchantnodePayeeVotes' = mapMerchantnodePayeeVotes \ old
        /\ mapMerchantnodeBlocks' =
               [h \in Heights |-> IF h \in oldHeights THEN [p \in Payees |-> 0]
                                  ELSE mapMerchantnodeBlocks[h]]
        /\ cleaned' = cleaned \cup old
        /\ zeroVote' = (zeroVote /\ nHeight <= CleanLimit)
        /\ UNCHANGED <<nHeight, mapMerchantnodesLastVote, nLastBlockHeight, signedVote>>

\* CleanPaymentList: every vote more than nLimit blocks old goes, with the
\* whole tally of its height, the empty winner at height 0 among them;
\* mapMerchantnodesLastVote is not pruned
CleanPaymentList ==
    LET old == {k \in mapMerchantnodePayeeVotes : nHeight - k.h > CleanLimit}
        oldHeights == {k.h : k \in old}
    IN  /\ old # {} \/ (zeroVote /\ nHeight > CleanLimit)
        /\ mapMerchantnodePayeeVotes' = mapMerchantnodePayeeVotes \ old
        /\ mapMerchantnodeBlocks' =
               [h \in Heights |-> IF h \in oldHeights THEN [p \in Payees |-> 0]
                                  ELSE mapMerchantnodeBlocks[h]]
        /\ cleaned' = cleaned \cup old
        /\ zeroVote' = (zeroVote /\ nHeight <= CleanLimit)
        /\ UNCHANGED <<nHeight, mapMerchantnodesLastVote, nLastBlockHeight, signedVote>>

Init ==
    /\ nHeight = 1
    /\ mapMerchantnodePayeeVotes = {}
    /\ mapMerchantnodeBlocks = [h \in Heights |-> [p \in Payees |-> 0]]
    /\ mapMerchantnodesLastVote = [v \in Nodes |-> NoVote]
    /\ nLastBlockHeight = 0
    /\ signedVote = [v \in Nodes |-> [h \in Heights |-> NoVote]]
    /\ cleaned = {}
    /\ zeroVote = FALSE

Next ==
    \/ \E m \in Votes : ReceiveMnw(m)
    \/ \E h \in {nHeight + VoteOffset} \cap 1..MaxVoteHeight :
          \/ ProcessBlock(h)
          \/ ProcessBlockNoWinner(h)
          \/ \E v \in Nodes, p \in Payees : HonestVote(v, h, p)
    \/ NewTip
    \/ CleanPaymentList

Spec == Init /\ [][Next]_vars

\* the payees of height h with the votes IsTransactionValid requires: the
\* nMaxSignatures scan (a height with no CMerchantnodeBlockPayees has none)
Required(h) == {p \in Payees : mapMerchantnodeBlocks[h][p] >= SigsRequired}

(***************************************************************************)
(* CMerchantnodePayments::IsTransactionValid of a coinbase at height h     *)
(* whose outputs pay the payees in paid at least the required amount: any *)
(* coinbase is valid while no payee has MNPAYMENTS_SIGNATURES_REQUIRED     *)
(* votes (the longest chain decides), otherwise one such payee must be     *)
(* paid.  The amount (GetMerchantnodePayment with the count drift) is     *)
(* folded into paid.                                                       *)
(***************************************************************************)
IsTransactionValid(h, paid) == Required(h) = {} \/ Required(h) \cap paid # {}

-----------------------------------------------------------------------------
(* Properties                                                              *)

(***************************************************************************)
(* One payee per block (mnw handler, ProcessBlock, IsTransactionValid):    *)
(* when fewer than 2 * SigsRequired merchantnodes may vote and all are     *)
(* honest, IsTransactionValid never accepts two coinbases that each pay a  *)
(* different single payee, unless no payee has the votes and the longest   *)
(* chain decides.                                                          *)
(***************************************************************************)
PayeeUnique ==
    \A h \in Heights, p, q \in Payees :
        p # q /\ IsTransactionValid(h, {p}) /\ IsTransactionValid(h, {q})
            => Required(h) = {}

(***************************************************************************)
(* No resurrection (CleanPaymentList against the mnw range check): a vote  *)
(* that CleanPaymentList dropped is never accepted again, although its     *)
(* hash is forgotten and mapMerchantnodesLastVote may have moved on.       *)
(***************************************************************************)
NoResurrection == cleaned \cap mapMerchantnodePayeeVotes = {}

(***************************************************************************)
(* Tally (AddWinningMerchantnode, CleanPaymentList): the count of a payee  *)
(* at a height is the number of accepted votes for it.                     *)
(***************************************************************************)
TallyMatchesVotes ==
    \A h \in Heights, p \in Payees :
        mapMerchantnodeBlocks[h][p] =
            Cardinality({k \in mapMerchantnodePayeeVotes : k.h = h /\ k.payee = p})

(***************************************************************************)
(* One vote per node and height (spec 8): a merchantnode never has two     *)
(* accepted votes for different payees at the same height.                 *)
(***************************************************************************)
OneVotePerNodeHeight ==
    \A a, b \in mapMerchantnodePayeeVotes : a.vin = b.vin /\ a.h = b.h => a.payee = b.payee

(***************************************************************************)
(* Honest votes count (mnw handler): a vote that an honest voter signed    *)
(* and that is not yet accepted can still pass CanVote, i.e. no other      *)
(* message has used up its slot.                                           *)
(***************************************************************************)
HonestVoteAcceptable ==
    \A v \in Voters \ Byzantine, h \in Heights :
        (/\ signedVote[v][h] # NoVote
         /\ [vin |-> v, h |-> h, payee |-> signedVote[v][h]] \notin mapMerchantnodePayeeVotes)
        => CanVote(v, h)

=============================================================================
