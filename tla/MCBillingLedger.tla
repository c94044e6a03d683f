--------------------------- MODULE MCBillingLedger ---------------------------
(***************************************************************************)
(* The billing ledger for TLC.                                             *)
(***************************************************************************)
EXTENDS BillingLedger, TLC

\* Requests are alike (none or all are asynchronous), and so are channels.
Symmetry == Permutations(Requests) \cup Permutations(Channels)
=============================================================================
