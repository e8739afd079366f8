------------------------- MODULE MCSessionManager -------------------------
(* Instances of SessionManager for TLC. *)
EXTENDS SessionManager, TLC

CONSTANTS w1, w2, s1, s2

\* Sessions and workers are interchangeable: no definition tells them apart.
Symmetry == Permutations(Workers) \union Permutations(Sessions)
=============================================================================
