---------------------------- MODULE LiveOrderMap ----------------------------
(***************************************************************************)
(* What an OrderBook expects of live_orders_: a map from the references of *)
(* the live orders to their state. An order enters once, changes while it  *)
(* is live, and is removed.                                                *)
(***************************************************************************)
CONSTANTS Refs, Data, None

VARIABLE orders     \* [Refs -> Data, or None for a reference not live]

Init == orders = [r \in Refs |-> None]

Enter(ref, data) ==
    /\ orders[ref] = None
    /\ orders' = [orders EXCEPT ![ref] = data]

Change(ref, data) ==
    /\ orders[ref] # None
    /\ orders' = [orders EXCEPT ![ref] = data]

Remove(ref) ==
    /\ orders[ref] # None
    /\ orders' = [orders EXCEPT ![ref] = None]

Next ==
    \E ref \in Refs : Remove(ref) \/ \E data \in Data : Enter(ref, data) \/ Change(ref, data)

Spec == Init /\ [][Next]_orders
=============================================================================
