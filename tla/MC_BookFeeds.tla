---------------------------- MODULE MC_BookFeeds ----------------------------
(* Three symbols whose probes start on the last slot of the table, and key *)
(* 0, which hashes to the slot they wrap to; two books for them all.       *)
EXTENDS BookFeeds

MCHash == [key \in Symbols |-> IF key = NoKey THEN 0 ELSE 2]
=============================================================================
