-------------------------- MODULE MCCustomerRegistry --------------------------
(* Instances of CustomerRegistry for TLC.  Handlers, ids, phones and keys    *)
(* are interchangeable.                                                      *)
EXTENDS CustomerRegistry, TLC

Symmetry == Permutations(Handlers) \cup Permutations(Customers)
=============================================================================
