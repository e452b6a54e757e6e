--------------------------- MODULE ShardedDelivery ---------------------------
(***************************************************************************)
(* What a pipeline promises its book-builder threads, whatever carries the *)
(* orders: thread t is handed exactly the orders of its own shard, each of *)
(* them once, in the order the producer sent them, and it may leave only   *)
(* when the producer has closed the stream and nothing of its shard is     *)
(* left. Pipeline (broadcast journal) and RoutedPipeline (one queue per    *)
(* shard) are checked to implement it.                                     *)
(***************************************************************************)
EXTENDS Naturals, Sequences, Functions

CONSTANTS NumOrders,    \* length of the input; order s is its s-th element
          Threads,      \* the book-builder threads
          ShardOf       \* [order -> the thread whose shard its symbol is in]

Orders == 0 .. NumOrders - 1

Own(t) == {s \in Orders : ShardOf[s] = t}

VARIABLES
    sent,       \* the producer has sent orders 0 .. sent - 1
    closed,     \* the producer has said there will be no more
    handed,     \* per thread: the sequence of orders handed to its book
    left        \* the threads that have left

deliveryVars == <<sent, closed, handed, left>>

Init ==
    /\ sent = 0
    /\ closed = FALSE
    /\ handed = [t \in Threads |-> <<>>]
    /\ left = {}

Send ==
    /\ ~closed
    /\ sent < NumOrders
    /\ sent' = sent + 1
    /\ UNCHANGED <<closed, handed, left>>

Close ==
    /\ ~closed
    /\ sent = NumOrders
    /\ closed' = TRUE
    /\ UNCHANGED <<sent, handed, left>>

\* s is the oldest order of t's shard that t has not been handed yet.
IsNext(t, s) ==
    /\ s \in Own(t) \ Range(handed[t])
    /\ \A r \in Own(t) : r < s => r \in Range(handed[t])

Deliver(t) ==
    \E s \in Orders :
        /\ s < sent
        /\ IsNext(t, s)
        /\ handed' = [handed EXCEPT ![t] = Append(@, s)]
        /\ UNCHANGED <<sent, closed, left>>

Leave(t) ==
    /\ closed
    /\ t \notin left
    /\ Own(t) \subseteq Range(handed[t])
    /\ left' = left \union {t}
    /\ UNCHANGED <<sent, closed, handed>>

Next == Send \/ Close \/ \E t \in Threads : Deliver(t) \/ Leave(t)

Spec == Init /\ [][Next]_deliveryVars

=============================================================================
