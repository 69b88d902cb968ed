------------------------------ MODULE MCLedger ------------------------------
(***************************************************************************)
(* Instances of Ledger for TLC.                                            *)
(***************************************************************************)
EXTENDS Ledger, TLC

\* Handlers and row ids are interchangeable; accounts are too.
Symmetry == Permutations(Procs) \cup Permutations(Txns) \cup Permutations(Accounts)
=============================================================================
