------------------------- MODULE MC_RoutedPipeline -------------------------
(***************************************************************************)
(* RoutedPipeline, whose queues are sequences, and SpscQueue, the queue it *)
(* stands on, access by access; part, chosen initially, says which runs.   *)
(* The input fills the batch of thread 0 more than once and leaves every   *)
(* shard with orders for the last flush.                                   *)
(***************************************************************************)
EXTENDS RoutedPipeline

\* Orders 1, 4 and 7 go to thread 1, order 5 to thread 2, the others to thread 0.
MCShardOf == [s \in Orders |-> IF s % 3 = 1 THEN 1 ELSE IF s = 5 THEN 2 ELSE 0]

CONSTANTS
    QueueCapacity,      \* of the queue that runs by itself
    Items, NoItem, Torn, MaxPushes

ASSUME QueueAssumption ==
    /\ QueueCapacity \in Nat \ {0} /\ MaxPushes \in Nat
    /\ NoItem \notin Items /\ Torn \notin Items /\ NoItem # Torn

VARIABLES
    part,               \* "pipeline" or "queue"
    slots_, head_, tail_, pusher, call, pushing, consumer, first_read, popping, popped

Queue == INSTANCE SpscQueue WITH Capacity <- QueueCapacity, producer <- pusher

queueVars ==
    <<slots_, head_, tail_, pusher, call, pushing, consumer, first_read, popping, popped>>

MCInit == Init /\ Queue!Init /\ part \in {"pipeline", "queue"}

MCNext ==
    \/ part = "pipeline" /\ Next /\ UNCHANGED <<part, queueVars>>
    \/ part = "queue" /\ Queue!Next /\ UNCHANGED <<part, vars>>

MCSpec ==
    /\ MCInit /\ [][MCNext]_<<part, vars, queueVars>>
    /\ part = "pipeline" => Fairness
    /\ part = "queue" => Queue!Fairness

-----------------------------------------------------------------------------
(* The producer spins on a full queue and the threads spin on an empty one,*)
(* but never for ever: run() returns.                                      *)
PipelineReturns == part = "pipeline" => Termination

(* However the accesses of the two threads interleave, the ring is a       *)
(* bounded first-in first-out queue: nothing is lost, duplicated, mixed or *)
(* reordered, and what is pushed is what the call was given.               *)
IsBoundedFifo == Queue!IsBoundedFifo

(* The slots are plain memory: the two threads never copy into and out of  *)
(* the same slot at the same time.                                         *)
NoSlotShared == Queue!NoSlotShared

(* push() spins until it has room; since the consumer goes on popping, it  *)
(* always returns, and every item it has pushed is popped in the end.      *)
EveryPushIsPopped == part = "queue" => Queue!EveryPushIsPopped

=============================================================================
