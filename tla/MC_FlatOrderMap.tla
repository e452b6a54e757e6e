--------------------------- MODULE MC_FlatOrderMap ---------------------------
(* An instance of FlatOrderMap whose references collide in the small table *)
(* (1 with 2, 3 with 4) and partly in the grown one (3 with 4).            *)
EXTENDS FlatOrderMap

MCHash == [r \in Refs |-> CASE r = 1 -> 2 [] r = 2 -> 6 [] r = 3 -> 3 [] OTHER -> 3]
=============================================================================
