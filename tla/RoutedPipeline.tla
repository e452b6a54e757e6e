--------------------------- MODULE RoutedPipeline ---------------------------
(***************************************************************************)
(* RoutedPipeline::run of include/routed_pipeline.h: the producer hashes   *)
(* every order to a shard, collects it in that shard's local batch, and    *)
(* pushes a full batch into the shard's queue; thread t pops only from     *)
(* queue t.                                                                *)
(*                                                                         *)
(* A queue is the bounded first-in first-out queue that SpscQueue is shown *)
(* to implement: push() and try_pop() take effect in one step.             *)
(***************************************************************************)
EXTENDS Integers, Sequences, FiniteSets, Functions

CONSTANTS NumOrders,    \* length of the input
          NumThreads,   \* num_book_threads
          ShardOf,      \* [order -> thread]: get_shard(orders[i].ticker_key)
          Capacity,     \* of each queue
          BATCH_SIZE,   \* 64 in the code
          SampleEvery   \* 1000 in the code

Threads == 0 .. NumThreads - 1
Orders == 0 .. NumOrders - 1

ASSUME SizesAssumption ==
    /\ NumOrders \in Nat
    /\ {NumThreads, Capacity, BATCH_SIZE, SampleEvery} \subseteq Nat \ {0}
ASSUME ShardOfAssumption == ShardOf \in [Orders -> Threads]

Own(t) == {s \in Orders : ShardOf[s] = t}

VARIABLES
    measure_latency,  \* Config: chosen once, read only
    producer,         \* "stamp", "route", "flush", "final", "join", "returned"
    i,                \* the producer's loop counter, advanced when i is routed
    shard,            \* the shard being flushed
    pos,              \* how many messages of its batch have been pushed
    batches,          \* [thread -> local batch]
    producer_done,
    publish_ts,       \* [order -> TRUE once its publish time is written]
    queues,           \* [thread -> its queue]
    reader,           \* per thread: "pop", "apply", "sample", "check",
                      \* "recheck" or "gone"
    order,            \* per thread: the order popped last
    applied,          \* per thread: what its book manager has applied, in order
    latency           \* the places of publish_ts that latencies were taken from

flushVars == <<shard, pos, batches>>
producerVars == <<producer, i, flushVars, producer_done, publish_ts>>
threadVars == <<reader, order, applied, latency>>
vars == <<measure_latency, producerVars, queues, threadVars>>

Init ==
    /\ measure_latency \in BOOLEAN
    /\ producer = "stamp"
    /\ i = 0
    /\ shard = 0
    /\ pos = 0
    /\ batches = [t \in Threads |-> <<>>]
    /\ producer_done = FALSE
    /\ publish_ts = [s \in Orders |-> FALSE]
    /\ queues = [t \in Threads |-> <<>>]
    /\ reader = [t \in Threads |-> "pop"]
    /\ order = [t \in Threads |-> 0]
    /\ applied = [t \in Threads |-> <<>>]
    /\ latency = {}

-----------------------------------------------------------------------------
(* The producer.                                                           *)

ProducerGoto(step) ==
    /\ producer' = step
    /\ UNCHANGED <<measure_latency, threadVars>>

Stamp ==
    /\ producer = "stamp"
    /\ i < NumOrders
    /\ publish_ts' = IF measure_latency THEN [publish_ts EXCEPT ![i] = TRUE] ELSE publish_ts
    /\ ProducerGoto("route")
    /\ UNCHANGED <<i, flushVars, producer_done, queues>>

\* batches[shard].push_back(orders[i]); a full batch is flushed at once.
Route ==
    /\ producer = "route"
    /\ LET s == ShardOf[i]
           batch == Append(batches[s], i)
       IN  /\ batches' = [batches EXCEPT ![s] = batch]
           /\ shard' = s
           /\ ProducerGoto(IF Len(batch) >= BATCH_SIZE THEN "flush" ELSE "stamp")
    /\ pos' = 0
    /\ i' = i + 1
    /\ UNCHANGED <<producer_done, publish_ts, queues>>

\* queues[shard]->push(msg) spins until it has room.
PushNext ==
    /\ producer \in {"flush", "final"}
    /\ pos < Len(batches[shard])
    /\ Len(queues[shard]) < Capacity
    /\ queues' = [queues EXCEPT ![shard] = Append(@, batches[shard][pos + 1])]
    /\ pos' = pos + 1
    /\ ProducerGoto(producer)
    /\ UNCHANGED <<i, shard, batches, producer_done, publish_ts>>

\* The batch is not emptied after it was pushed.
Cleared_Not(batch) == batch

\* batches[shard].clear()
Cleared(batch) == <<>>

Flushed == pos = Len(batches[shard])

\* On to the next order.
EndFlush ==
    /\ producer = "flush"
    /\ Flushed
    /\ batches' = [batches EXCEPT ![shard] = Cleared(@)]
    /\ pos' = 0
    /\ ProducerGoto("stamp")
    /\ UNCHANGED <<i, shard, producer_done, publish_ts, queues>>

\* "Flush remaining", from shard 0.
FlushRemaining ==
    /\ producer = "stamp"
    /\ i >= NumOrders
    /\ shard' = 0
    /\ pos' = 0
    /\ ProducerGoto("final")
    /\ UNCHANGED <<i, batches, producer_done, publish_ts, queues>>

NextShard ==
    /\ producer = "final"
    /\ Flushed
    /\ shard + 1 < NumThreads
    /\ shard' = shard + 1
    /\ pos' = 0
    /\ ProducerGoto("final")
    /\ UNCHANGED <<i, batches, producer_done, publish_ts, queues>>

\* The producer joins without raising the flag.
DoneFlag_Forgotten == FALSE

DoneFlag == TRUE

SetDone ==
    /\ producer = "final"
    /\ Flushed
    /\ shard + 1 = NumThreads
    /\ producer_done' = DoneFlag
    /\ ProducerGoto("join")
    /\ UNCHANGED <<i, flushVars, publish_ts, queues>>

Join ==
    /\ producer = "join"
    /\ \A t \in Threads : reader[t] = "gone"
    /\ ProducerGoto("returned")
    /\ UNCHANGED <<i, flushVars, producer_done, publish_ts, queues>>

-----------------------------------------------------------------------------
(* A book-builder thread. local_count is the length of applied[t]; it is   *)
(* what thread_message_counts[t] is set to when the thread leaves.         *)

Goto(t, step) ==
    /\ reader' = [reader EXCEPT ![t] = step]
    /\ UNCHANGED <<measure_latency, producerVars>>

\* my_queue.try_pop(order)
Pop(t) ==
    /\ reader[t] = "pop"
    /\ queues[t] # <<>>
    /\ order' = [order EXCEPT ![t] = Head(queues[t])]
    /\ queues' = [queues EXCEPT ![t] = Tail(@)]
    /\ Goto(t, "apply")
    /\ UNCHANGED <<applied, latency>>

PopNothing(t) ==
    /\ reader[t] = "pop"
    /\ queues[t] = <<>>
    /\ Goto(t, "check")
    /\ UNCHANGED <<queues, order, applied, latency>>

SampleDue(t, local_count) == measure_latency /\ t = 0 /\ local_count % SampleEvery = 0

Apply(t) ==
    /\ reader[t] = "apply"
    /\ applied' = [applied EXCEPT ![t] = Append(@, order[t])]
    /\ Goto(t, IF SampleDue(t, Len(applied[t]) + 1) THEN "sample" ELSE "pop")
    /\ UNCHANGED <<queues, order, latency>>

\* Not held below the length of the input.
SampledPlace_Unclamped(t) == Len(applied[t]) * NumThreads

\* The place of publish_ts that is read for a latency sample: where the
\* producer would be if the shards were even.
SampledPlace(t) ==
    LET even == Len(applied[t]) * NumThreads
    IN  IF even < NumOrders - 1 THEN even ELSE NumOrders - 1

\* Recorded when the clock is past the time read.
Sample(t) ==
    /\ reader[t] = "sample"
    /\ latency' \in {latency, latency \union {SampledPlace(t)}}
    /\ Goto(t, "pop")
    /\ UNCHANGED <<queues, order, applied>>

CheckDone(t) ==
    /\ reader[t] = "check"
    /\ Goto(t, IF producer_done THEN "recheck" ELSE "pop")
    /\ UNCHANGED <<queues, order, applied, latency>>

\* The thread trusts the empty pop it made before it saw producer_done.
Available_FromPop(t) == 0

\* my_queue.available()
Available(t) == Len(queues[t])

\* Asked once more after producer_done was read.
Recheck(t) ==
    /\ reader[t] = "recheck"
    /\ Goto(t, IF Available(t) = 0 THEN "gone" ELSE "pop")
    /\ UNCHANGED <<queues, order, applied, latency>>

-----------------------------------------------------------------------------
ProducerStep ==
    \/ Stamp \/ Route \/ PushNext \/ EndFlush
    \/ FlushRemaining \/ NextShard \/ SetDone \/ Join

ThreadStep(t) ==
    \/ Pop(t) \/ PopNothing(t) \/ Apply(t) \/ Sample(t)
    \/ CheckDone(t) \/ Recheck(t)

\* run() has returned.
Returned == producer = "returned" /\ UNCHANGED vars

Next == ProducerStep \/ (\E t \in Threads : ThreadStep(t)) \/ Returned

Spec == Init /\ [][Next]_vars

\* Each thread is pinned to a core of its own; none is stopped for good.
Fairness == WF_vars(ProducerStep) /\ \A t \in Threads : WF_vars(ThreadStep(t))

FairSpec == Spec /\ Fairness

-----------------------------------------------------------------------------
(* Properties.                                                             *)

TypeOK ==
    /\ producer \in {"stamp", "route", "flush", "final", "join", "returned"}
    /\ i \in 0 .. NumOrders
    /\ shard \in Threads
    /\ pos \in Nat
    /\ batches \in [Threads -> Seq(Orders)]
    /\ {producer_done, measure_latency} \subseteq BOOLEAN
    /\ publish_ts \in [Orders -> BOOLEAN]
    /\ queues \in [Threads -> Seq(Orders)]
    /\ reader \in [Threads -> {"pop", "apply", "sample", "check", "recheck", "gone"}]
    /\ order \in [Threads -> Orders \union {0}]
    /\ applied \in [Threads -> Seq(Orders)]
    /\ latency \subseteq Orders

\* The messages of t's batch that still have to be pushed.
Unpushed(t) ==
    LET flushing == producer \in {"flush", "final", "join", "returned"} /\ shard = t
        passed == producer \in {"final", "join", "returned"} /\ t < shard
    IN  CASE flushing -> SubSeq(batches[t], pos + 1, Len(batches[t]))
          [] passed -> <<>>
          [] ~flushing /\ ~passed -> batches[t]

\* Everything on its way to t's book, oldest first.
Line(t) ==
    applied[t] \o (IF reader[t] = "apply" THEN <<order[t]>> ELSE <<>>)
        \o queues[t] \o Unpushed(t)

(* Between the batch, the queue and the thread, every order routed so far  *)
(* is in exactly one place, the one of its shard, and the places form one  *)
(* line that never overtakes: no flush boundary, full queue or early look  *)
(* at the flag loses, repeats or reorders an order.                        *)
NothingLostOrReordered ==
    \A t \in Threads :
        /\ Range(Line(t)) = {s \in Own(t) : s < i}
        /\ \A j, k \in DOMAIN Line(t) : j < k => Line(t)[j] < Line(t)[k]

(* The routed pipeline keeps the same promise as the broadcast one, and    *)
(* without a bound on the input, because push() waits for room.            *)
Delivery == INSTANCE ShardedDelivery WITH
                sent <- i,
                closed <- producer_done,
                handed <- applied,
                left <- {t \in Threads : reader[t] = "gone"}

DeliversOwnOrders == Delivery!Spec

(* The producer spins on a full queue and the threads spin on an empty one,*)
(* but never for ever: run() returns.                                      *)
Termination == <>(producer = "returned")

=============================================================================
