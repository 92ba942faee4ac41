---------------------------- MODULE MCOverdueCron ----------------------------
(* Instances of OverdueCron for TLC. *)
EXTENDS OverdueCron
=============================================================================
