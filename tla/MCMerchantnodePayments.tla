------------------------ MODULE MCMerchantnodePayments ------------------------
(* Bounds for checking MerchantnodePayments with TLC.                      *)
EXTENDS MerchantnodePayments, TLC

\* payee scripts are interchangeable: no definition tells one from another
PayeeSymmetry == Permutations(Payees)

\* so are payee scripts and, separately, the honest voters other than this
\* node: only Me, Byzantine and Voters are named by the definitions
PayeeVoterSymmetry == Permutations(Payees) \cup Permutations(Voters \ (Byzantine \cup {Me}))

\* the abstract ledger, with the accepted vote hashes as its votes and the
\* history of CleanPaymentList as what pruning removed
Ledger == INSTANCE PayeeLedger
              WITH accepted <- mapMerchantnodePayeeVotes, dropped <- cleaned

(***************************************************************************)
(* The mnw handler, ProcessBlock and CleanPaymentList implement the        *)
(* abstract ledger: every vote the node accepts, relayed or its own, is    *)
(* the first of its voter for its height and was never pruned, and         *)
(* CleanPaymentList removes votes only from below every vote it keeps.     *)
(***************************************************************************)
LedgerRefinement == Ledger!Spec
=============================================================================
