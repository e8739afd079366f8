----------------------------- MODULE MCLMCache -----------------------------
(* Instances of LMCache and of the store under it for TLC.  The capacities *)
(* let an entry be too large for the top tier, for a middle tier that is   *)
(* smaller than the one above it, and for the whole hierarchy.  Two        *)
(* requests share their first block.                                       *)
EXTENDS LMCache

MCCapacity == <<3, 2, 4>>
MCSizes == {1, 2, 3, 5}
B(k, n) == [key |-> k, n |-> n]
MCRequests == {<<B("a", 2), B("b", 1)>>, <<B("a", 2), B("c", 2)>>}
=============================================================================
