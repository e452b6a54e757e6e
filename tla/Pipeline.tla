------------------------------ MODULE Pipeline ------------------------------
(***************************************************************************)
(* Pipeline::run of include/pipeline.h: one producer publishes num_orders  *)
(* orders into the broadcast journal, every book-builder thread reads all  *)
(* of them and applies those of its own shard, and the producer joins the  *)
(* threads.                                                                *)
(*                                                                         *)
(* The producer calls publish(), which does not look at the progress word, *)
(* so when NumOrders > Capacity a slow thread can be lapped: what it then  *)
(* reads in place is another order, or a mixture while the slot is being   *)
(* copied over. The slot contents of BroadcastJournal carry that.          *)
(***************************************************************************)
EXTENDS BroadcastJournal, Sequences, FiniteSets

CONSTANTS NumOrders,    \* length of the input
          ShardOf,      \* [0 .. NumOrders-1 -> Consumers]: get_shard(ticker_key)
          Sampler,      \* thread 0, the one that samples latencies
          SampleEvery   \* 1000 in the code: one sequence in SampleEvery

ASSUME NumOrdersAssumption == NumOrders \in Nat
ASSUME ShardOfAssumption == ShardOf \in [0 .. NumOrders - 1 -> Consumers]
ASSUME SampleEveryAssumption == SampleEvery \in Nat \ {0}

VARIABLES
    measure_latency,  \* Config: chosen once, read only
    producer,         \* "stamp", "publish", "copy", "store", "join" or "returned"
    producer_done,
    publish_ts,       \* [order -> TRUE once its publish time is written]
    reader,           \* per thread: where in its loop it is
    local_seq,        \* per thread: next sequence to look at
    published,        \* per thread: the index value its last poll returned
    first_read,       \* per thread: what the slot held at the shard test
    applied,          \* per thread: what its book manager has applied, in order
    latency,          \* the sequences whose latency was recorded
    lapped            \* history: a slot was overwritten that a thread still needs

producerVars == <<producer, producer_done, publish_ts>>
workVars == <<first_read, applied, latency>>
threadVars == <<reader, local_seq, published, workVars>>
fixedVars == <<measure_latency, lapped>>
vars == <<journalVars, producerVars, threadVars, fixedVars>>

Orders == 0 .. NumOrders - 1

Own(t) == {s \in Orders : ShardOf[s] = t}

Init ==
    /\ JournalInit
    /\ measure_latency \in BOOLEAN
    /\ producer = "stamp"
    /\ producer_done = FALSE
    /\ publish_ts = [s \in Orders |-> FALSE]
    /\ reader = [t \in Consumers |-> "poll"]
    /\ local_seq = [t \in Consumers |-> 0]
    /\ published = [t \in Consumers |-> 0]
    /\ first_read = [t \in Consumers |-> Blank]
    /\ applied = [t \in Consumers |-> <<>>]
    /\ latency = {}
    /\ lapped = FALSE

-----------------------------------------------------------------------------
(* The producer. Its loop counter i is the number of orders published.     *)

\* The time is written one place too far.
StampedOrder_Next(i) == i + 1

StampedOrder(i) == i

\* publish_ts[i] = now
Stamp ==
    /\ producer = "stamp"
    /\ published_index_ < NumOrders
    /\ publish_ts' = IF measure_latency
                     THEN [publish_ts EXCEPT ![StampedOrder(published_index_)] = TRUE]
                     ELSE publish_ts
    /\ producer' = "publish"
    /\ UNCHANGED <<journalVars, producer_done, threadVars, fixedVars>>

\* The slot of sequence i holds an order some thread has not finished with.
Laps(i) == i >= Capacity /\ \E t \in Consumers : local_seq[t] <= i - Capacity

Publish ==
    /\ producer = "publish"
    /\ BeginCopy(published_index_)
    /\ lapped' = (lapped \/ Laps(published_index_))
    /\ producer' = "copy"
    /\ UNCHANGED <<producer_done, publish_ts, threadVars, measure_latency>>

FinishCopy ==
    /\ producer = "copy"
    /\ EndCopy(published_index_)
    /\ producer' = "store"
    /\ UNCHANGED <<producer_done, publish_ts, threadVars, fixedVars>>

StorePublished ==
    /\ producer = "store"
    /\ StoreIndex(published_index_)
    /\ producer' = "stamp"
    /\ UNCHANGED <<producer_done, publish_ts, threadVars, fixedVars>>

\* The producer joins without raising the flag.
DoneFlag_Forgotten == FALSE

DoneFlag == TRUE

\* The loop is over.
SetDone ==
    /\ producer = "stamp"
    /\ published_index_ >= NumOrders
    /\ producer_done' = DoneFlag
    /\ producer' = "join"
    /\ UNCHANGED <<journalVars, publish_ts, threadVars, fixedVars>>

Join ==
    /\ producer = "join"
    /\ \A t \in Consumers : reader[t] = "gone"
    /\ producer' = "returned"
    /\ UNCHANGED <<journalVars, producer_done, publish_ts, threadVars, fixedVars>>

-----------------------------------------------------------------------------
(* A book-builder thread.                                                  *)

Goto(t, step) ==
    /\ reader' = [reader EXCEPT ![t] = step]
    /\ UNCHANGED <<producerVars, fixedVars>>

Poll(t) ==
    /\ reader[t] = "poll"
    /\ published' = [published EXCEPT ![t] = published_index_]
    /\ Goto(t, IF local_seq[t] >= published_index_ THEN "check" ELSE "drain")
    /\ UNCHANGED <<journalVars, local_seq, workVars>>

\* Nothing new: is the producer done?
CheckDone(t) ==
    /\ reader[t] = "check"
    /\ Goto(t, IF producer_done THEN "recheck" ELSE "poll")
    /\ UNCHANGED <<journalVars, local_seq, published, workVars>>

\* The thread trusts the index it read before it saw producer_done.
IndexNow_FromPoll(t) == published[t]

\* get_published_index(), called once more
IndexNow(t) == published_index_

\* The producer is done: the index may have moved since the poll. A thread that
\* leaves reports the length of applied[t] as its message count.
Recheck(t) ==
    /\ reader[t] = "recheck"
    /\ Goto(t, IF local_seq[t] >= IndexNow(t) THEN "gone" ELSE "poll")
    /\ UNCHANGED <<journalVars, local_seq, published, workVars>>

\* A torn ticker_key may hash to any shard; a whole one to that of its order.
MayBeMine(t, content) == content = Torn \/ content \in Own(t)

MayBeForeign(t, content) == content = Torn \/ content \notin Own(t)

\* get_shard(order.ticker_key) == t, read in place.
TakeOrder(t) ==
    /\ reader[t] = "drain"
    /\ local_seq[t] < published[t]
    /\ MayBeMine(t, Payload(local_seq[t]))
    /\ first_read' = [first_read EXCEPT ![t] = Payload(local_seq[t])]
    /\ Goto(t, "apply")
    /\ UNCHANGED <<journalVars, local_seq, published, applied, latency>>

SkipOrder(t) ==
    /\ reader[t] = "drain"
    /\ local_seq[t] < published[t]
    /\ MayBeForeign(t, Payload(local_seq[t]))
    /\ local_seq' = [local_seq EXCEPT ![t] = @ + 1]
    /\ Goto(t, "drain")
    /\ UNCHANGED <<journalVars, published, workVars>>

\* order is a reference into the ring: apply() reads the slot again. If it has
\* changed since the shard test, fields may come from either content.
WhatApplyReads(t) ==
    LET now == Payload(local_seq[t])
    IN  IF now = first_read[t] THEN {now} ELSE {now, first_read[t], Torn}

\* Thread 0 times every SampleEvery-th sequence, if it is of its shard.
Sampled(t) == measure_latency /\ t = Sampler /\ local_seq[t] % SampleEvery = 0

Apply(t) ==
    /\ reader[t] = "apply"
    /\ \E content \in WhatApplyReads(t) :
           applied' = [applied EXCEPT ![t] = Append(@, content)]
    /\ \/ Sampled(t) /\ latency' = latency \union {local_seq[t]}
       \/ latency' = latency       \* not a sample, or the clock has not advanced
    /\ local_seq' = [local_seq EXCEPT ![t] = @ + 1]
    /\ first_read' = [first_read EXCEPT ![t] = Blank]  \* out of scope
    /\ Goto(t, "drain")
    /\ UNCHANGED <<journalVars, published>>

EndOfBatch(t) ==
    /\ reader[t] = "drain"
    /\ local_seq[t] >= published[t]
    /\ Goto(t, "report")
    /\ UNCHANGED <<journalVars, local_seq, published, workVars>>

\* report_consumer_progress(local_seq); see BroadcastJournal.
NextReportStep(t) == IF local_seq[t] > min_consumer_seq_ THEN "exchange" ELSE "poll"

LoadMin(t) ==
    /\ reader[t] = "report"
    /\ ReportLoad(t)
    /\ Goto(t, NextReportStep(t))
    /\ UNCHANGED <<local_seq, published, workVars>>

Exchange(t) ==
    /\ reader[t] = "exchange"
    /\ ReportExchange(t, local_seq[t])
    /\ Goto(t, "poll")
    /\ UNCHANGED <<local_seq, published, workVars>>

Retry(t) ==
    /\ reader[t] = "exchange"
    /\ ReportRetry(t)
    /\ Goto(t, NextReportStep(t))
    /\ UNCHANGED <<local_seq, published, workVars>>

-----------------------------------------------------------------------------
ProducerStep ==
    Stamp \/ Publish \/ FinishCopy \/ StorePublished \/ SetDone \/ Join

ThreadStep(t) ==
    \/ Poll(t) \/ CheckDone(t) \/ Recheck(t)
    \/ TakeOrder(t) \/ SkipOrder(t) \/ Apply(t) \/ EndOfBatch(t)
    \/ LoadMin(t) \/ Exchange(t) \/ Retry(t)

\* run() has returned; nothing more happens.
Returned == producer = "returned" /\ UNCHANGED vars

Next == ProducerStep \/ (\E t \in Consumers : ThreadStep(t)) \/ Returned

Spec == Init /\ [][Next]_vars

\* Each thread is pinned to a core of its own; none is stopped for good.
Fairness == WF_vars(ProducerStep) /\ \A t \in Consumers : WF_vars(ThreadStep(t))

FairSpec == Spec /\ Fairness

-----------------------------------------------------------------------------
(* Properties.                                                             *)

Contents == Nat \union {Blank, Torn}

TypeOK ==
    /\ JournalTypeOK
    /\ {measure_latency, producer_done, lapped} \subseteq BOOLEAN
    /\ producer \in {"stamp", "publish", "copy", "store", "join", "returned"}
    /\ publish_ts \in [Orders -> BOOLEAN]
    /\ reader \in [Consumers -> {"poll", "check", "recheck", "drain", "apply",
                                 "report", "exchange", "gone"}]
    /\ local_seq \in [Consumers -> Nat]
    /\ published \in [Consumers -> Nat]
    /\ first_read \in [Consumers -> Contents]
    /\ applied \in [Consumers -> Seq(Contents)]
    /\ latency \subseteq Nat

(* As long as no slot is overwritten that a thread still needs, the        *)
(* pipeline is a sharded delivery: every thread applies exactly the orders *)
(* of its shard, once each, in order, and leaves only when they are all    *)
(* applied.                                                                *)
Delivery == INSTANCE ShardedDelivery WITH
                Threads <- Consumers,
                sent <- published_index_,
                closed <- producer_done,
                handed <- applied,
                left <- {t \in Consumers : reader[t] = "gone"}

DeliversUntilLapped ==
    /\ Delivery!Init
    /\ [][~lapped' => Delivery!Next \/ UNCHANGED Delivery!deliveryVars]_vars

(* The exit test reads the index, the flag and the index again, while the  *)
(* producer moves both. However these interleave, a thread that has left   *)
(* has walked over the whole input.                                        *)
LeavesAtTheEnd ==
    \A t \in Consumers : reader[t] = "gone" => local_seq[t] = NumOrders

(* publish_ts is a plain array shared without a lock of its own: a thread  *)
(* that is about to apply an order, and so perhaps to read its publish     *)
(* time, only does so after the producer has written that time.            *)
StampedBeforeApplied ==
    \A t \in Consumers :
        measure_latency /\ reader[t] = "apply" => publish_ts[local_seq[t]]

(* A lapped thread reads newer orders, or mixtures, in place of the ones it*)
(* has missed; it never applies an order older than its cursor, nor a slot *)
(* nobody has written.                                                     *)
NeverOlderThanCursor ==
    [][\A t \in Consumers :
          applied'[t] # applied[t] =>
              LET content == applied'[t][Len(applied'[t])]
              IN  content = Torn \/ (content # Blank /\ content >= local_seq[t])]_vars

(* The whole program ends: no thread waits for an order that will not come,*)
(* and the join does not wait for a thread that spins.                     *)
Termination == <>(producer = "returned")

(* README.md, "Book-builder threads own disjoint symbol sets": no whole    *)
(* order of another shard reaches a thread's books. A slot overwritten     *)
(* between the shard test and apply() breaks it.                           *)
OwnSymbolsOnly ==
    \A t \in Consumers :
        \A k \in DOMAIN applied[t] : applied[t][k] \in Own(t) \union {Torn}

=============================================================================
