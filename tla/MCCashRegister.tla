-------------------------- MODULE MCCashRegister ---------------------------
(* CashRegister for TLC: handlers, shifts and payments are interchangeable. *)
EXTENDS CashRegister, TLC

Symmetry == Permutations(Procs) \cup Permutations(Shifts) \cup Permutations(Payments)
=============================================================================
