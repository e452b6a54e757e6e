---------------------------- MODULE MC_Pipeline ----------------------------
(* Instances of Pipeline: an input whose orders alternate between shards,  *)
(* with two neighbours of the same shard, so that a thread both skips and  *)
(* applies consecutively.                                                  *)
EXTENDS Pipeline

CONSTANTS c1, c2

\* Orders 0, 3, 4 go to c1 and 1, 2, 5 to c2.
MCShardOf == [s \in 0 .. NumOrders - 1 |-> IF (s \div 2 + s) % 2 = 0 THEN c1 ELSE c2]
=============================================================================
