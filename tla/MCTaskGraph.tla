---------------------------- MODULE MCTaskGraph ----------------------------
(* TaskGraph on small instances. *)
EXTENDS TaskGraph, TLC

\* Task ids can be exchanged for one another.
Symmetry == Permutations(Tasks)
=============================================================================
