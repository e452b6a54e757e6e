----------------------------- MODULE BoundedFifo -----------------------------
(***************************************************************************)
(* What SpscQueue promises: a first-in first-out queue of at most Capacity *)
(* items. popped is the item the latest successful pop returned.           *)
(***************************************************************************)
EXTENDS Naturals, Sequences

CONSTANTS Capacity, Items, NoItem

VARIABLES queue, popped

fifoVars == <<queue, popped>>

Init == queue = <<>> /\ popped = NoItem

Push(item) ==
    /\ Len(queue) < Capacity
    /\ queue' = Append(queue, item)
    /\ UNCHANGED popped

Pop ==
    /\ queue # <<>>
    /\ popped' = Head(queue)
    /\ queue' = Tail(queue)

Next == Pop \/ \E item \in Items : Push(item)

Spec == Init /\ [][Next]_fifoVars
=============================================================================
