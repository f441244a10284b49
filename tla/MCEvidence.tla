----------------------------- MODULE MCEvidence -----------------------------
(* Instances of Evidence for TLC. *)
EXTENDS Evidence, TLC

Symmetry == Permutations(Portals) \cup Permutations(Keys)

==============================================================================
