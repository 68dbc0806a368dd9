-------------------------- MODULE MCEvidenceChain --------------------------
(* EvidenceChain on small instances. *)
EXTENDS EvidenceChain, TLC

\* Two contents of the project source can be exchanged for one another, and
\* so can two acceptances; targets and digests are left alone.
Symmetry == Permutations(Sources) \cup Permutations(Acceptances)
=============================================================================
