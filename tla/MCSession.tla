----------------------------- MODULE MCSession -----------------------------
(* Finite instances of Session for TLC.                                    *)
EXTENDS SessionInvariant, TLC

Symmetry == Permutations(Requests) \cup Permutations(Docs)
=============================================================================
