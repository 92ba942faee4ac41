---------------------------- MODULE MCCustomerPage ----------------------------
(* Instances of CustomerPage for TLC. *)
EXTENDS CustomerPage
=============================================================================
