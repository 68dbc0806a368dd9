--------------------------- MODULE MCReviewLedger ---------------------------
(* ReviewLedger on small instances. *)
EXTENDS ReviewLedger, TLC

\* Context ids and source contents can be exchanged for one another.
Symmetry == Permutations(Contexts) \cup Permutations(Sources)
=============================================================================
