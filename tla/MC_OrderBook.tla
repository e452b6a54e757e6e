---------------------------- MODULE MC_OrderBook ----------------------------
(* Instances of OrderBook. Order references are interchangeable.           *)
EXTENDS OrderBook

RefSymmetry == Permutations(Refs)
=============================================================================
