---------------------------- MODULE MCFreshness ----------------------------
(* Finite instances of Freshness for TLC.                                  *)
EXTENDS FreshnessInvariant, TLC

Symmetry == Permutations(Paths) \cup Permutations(Texts)
=============================================================================
