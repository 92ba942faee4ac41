------------------------------ MODULE MCLedger ------------------------------
(* Instances of Ledger for TLC.  Handlers and keys are interchangeable.     *)
EXTENDS Ledger, TLC

Symmetry == Permutations(Procs) \cup Permutations(Keys) \cup Permutations(BatchKeys)
=============================================================================
