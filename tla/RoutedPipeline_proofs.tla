------------------------ MODULE RoutedPipeline_proofs ------------------------
(***************************************************************************)
(* The routed pipeline for every number of threads and of orders, every    *)
(* sharding, every queue capacity and every batch size: on its way from    *)
(* the producer to the books no order is lost, repeated or overtaken, and  *)
(* step by step the pipeline is a sharded delivery.                        *)
(***************************************************************************)
EXTENDS RoutedPipeline, RingsAndSequences

USE DEF flushVars, producerVars, threadVars, vars

\* What the place the producer is at says of its counters and of the flag, and
\* what the place a thread is at says of the order it holds and of the flag.
Control ==
    /\ producer = "route" => i < NumOrders
    /\ producer \in {"final", "join", "returned"} => i = NumOrders
    /\ producer \in {"flush", "final", "join", "returned"} => pos <= Len(batches[shard])
    /\ producer \in {"join", "returned"} => shard + 1 = NumThreads /\ Flushed
    /\ producer_done <=> producer \in {"join", "returned"}
    /\ \A t \in Threads :
          /\ reader[t] \in {"apply", "sample"} => order[t] \in Orders
          /\ reader[t] \in {"recheck", "gone"} => producer_done

\* A thread's line of orders, from the applied ones to those in the batch.
LineOK(t) ==
    /\ Line(t) \in Seq(Orders)
    /\ Range(Line(t)) = {s \in Own(t) : s < i}
    /\ Ascending(Line(t))

Lines == \A t \in Threads : LineOK(t)

Inv == TypeOK /\ Control /\ Lines

-----------------------------------------------------------------------------
(* Types and control.                                                      *)

LEMMA TypeInit == Init => TypeOK
<1> SUFFICES ASSUME Init PROVE TypeOK
  OBVIOUS
<1>1. 0 \in Threads /\ 0 \in 0 .. NumOrders
  BY SizesAssumption DEF Threads
<1>2. <<>> \in Seq(Orders)
  BY EmptySeq
<1> QED
  BY <1>1, <1>2 DEF Init, TypeOK

\* The place a sample is read from exists.
LEMMA SampledPlaceExists ==
    ASSUME TypeOK, Control, NEW t \in Threads, reader[t] = "sample"
    PROVE  SampledPlace(t) \in Orders
<1>1. NumOrders \in Nat /\ NumThreads \in Nat /\ NumOrders # 0
  BY SizesAssumption DEF Control, Orders
<1>2. Len(applied[t]) \in Nat
  BY LenProperties DEF TypeOK
<1>3. Len(applied[t]) * NumThreads \in Nat
  BY <1>1, <1>2
<1> QED
  BY <1>1, <1>3 DEF SampledPlace, Orders

LEMMA TypeStep == TypeOK /\ Control /\ [Next]_vars => TypeOK'
<1> SUFFICES ASSUME TypeOK, Control, [Next]_vars PROVE TypeOK'
  OBVIOUS
<1>0. NumOrders \in Nat /\ NumThreads \in Nat \ {0} /\ <<>> \in Seq(Orders)
  BY SizesAssumption, EmptySeq
<1> USE DEF TypeOK, ProducerGoto, Goto
<1>1. CASE Stamp
  BY <1>1 DEF Stamp, Orders
<1>2. CASE Route
  <2>1. i \in Orders /\ i + 1 \in 0 .. NumOrders
    BY <1>0, <1>2 DEF Route, Control, Orders
  <2>2. ShardOf[i] \in Threads
    BY <2>1, ShardOfAssumption
  <2>3. Append(batches[ShardOf[i]], i) \in Seq(Orders)
    BY <2>1, <2>2, AppendProperties
  <2> QED
    BY <1>2, <2>1, <2>2, <2>3 DEF Route
<1>3. CASE PushNext
  <2>1. pos + 1 \in 1 .. Len(batches[shard])
    BY <1>3, LenProperties DEF PushNext
  <2>2. batches[shard][pos + 1] \in Orders
    BY <2>1, ElementOfSeq
  <2>3. Append(queues[shard], batches[shard][pos + 1]) \in Seq(Orders)
    BY <2>2, AppendProperties
  <2>4. queues' \in [Threads -> Seq(Orders)]
    BY <1>3, <2>3 DEF PushNext
  <2> QED
    BY <1>3, <2>4 DEF PushNext
<1>4. CASE EndFlush
  BY <1>0, <1>4 DEF EndFlush, Cleared
<1>5. CASE FlushRemaining
  BY <1>0, <1>5 DEF FlushRemaining, Threads
<1>6. CASE NextShard
  BY <1>0, <1>6 DEF NextShard, Threads
<1>7. CASE SetDone
  BY <1>7 DEF SetDone, DoneFlag
<1>8. CASE Join
  BY <1>8 DEF Join
<1>9. ASSUME NEW t \in Threads, Pop(t) PROVE TypeOK'
  <2>1. Head(queues[t]) \in Orders /\ Tail(queues[t]) \in Seq(Orders)
    BY <1>9, HeadTailProperties DEF Pop
  <2> QED
    BY <1>9, <2>1 DEF Pop
<1>10. ASSUME NEW t \in Threads, Apply(t) PROVE TypeOK'
  <2>1. Append(applied[t], order[t]) \in Seq(Orders)
    BY <1>10, AppendProperties DEF Apply, Control
  <2> QED
    BY <1>10, <2>1 DEF Apply
<1>11. ASSUME NEW t \in Threads, Sample(t) PROVE TypeOK'
  BY <1>11, SampledPlaceExists DEF Sample
<1>12. ASSUME NEW t \in Threads, PopNothing(t) \/ CheckDone(t) \/ Recheck(t) PROVE TypeOK'
  BY <1>12 DEF PopNothing, CheckDone, Recheck
<1>13. CASE UNCHANGED vars
  BY <1>13
<1> QED
  BY <1>1, <1>2, <1>3, <1>4, <1>5, <1>6, <1>7, <1>8, <1>9, <1>10, <1>11, <1>12, <1>13
     DEF Next, ProducerStep, ThreadStep, Returned

LEMMA ControlStep == TypeOK /\ Control /\ [Next]_vars => Control'
<1> SUFFICES ASSUME TypeOK, Control, [Next]_vars PROVE Control'
  OBVIOUS
<1>0. /\ NumOrders \in Nat /\ NumThreads \in Nat \ {0} /\ pos \in Nat
      /\ i \in 0 .. NumOrders
      /\ shard \in Threads
      /\ \A t \in Threads : Len(batches[t]) \in Nat
      /\ reader \in [Threads -> {"pop", "apply", "sample", "check", "recheck", "gone"}]
      /\ order \in [Threads -> Orders \union {0}]
  BY SizesAssumption, LenProperties DEF TypeOK
<1> USE <1>0 DEF Control, ProducerGoto, Goto
<1>1. CASE Stamp
  BY <1>1 DEF Stamp
<1>2. CASE Route
  <2>1. /\ i' = i + 1 /\ pos' = 0 /\ producer' \in {"flush", "stamp"}
        /\ UNCHANGED <<producer_done, reader, order>>
        /\ producer = "route" /\ i < NumOrders
        /\ shard' = ShardOf[i]
        /\ batches' = [batches EXCEPT ![shard'] = Append(batches[shard'], i)]
    BY <1>2 DEF Route
  <2>2. i \in Orders
    BY <2>1 DEF Orders
  <2>3. shard' \in Threads
    BY <2>1, <2>2, ShardOfAssumption
  <2>4. batches'[shard'] \in Seq(Orders)
    BY <2>1, <2>2, <2>3, AppendProperties DEF TypeOK
  <2>5. Len(batches'[shard']) \in Nat
    BY <2>4, LenProperties
  <2> QED
    BY <2>1, <2>5
<1>3. CASE PushNext
  BY <1>3 DEF PushNext
<1>4. CASE EndFlush
  BY <1>4 DEF EndFlush
<1>5. CASE FlushRemaining
  BY <1>5 DEF FlushRemaining, Threads
<1>6. CASE NextShard
  BY <1>6 DEF NextShard, Threads
<1>7. CASE SetDone
  BY <1>7 DEF SetDone, DoneFlag, Flushed
<1>8. CASE Join
  BY <1>8 DEF Join, Flushed
<1>9. ASSUME NEW t \in Threads, Pop(t) PROVE Control'
  <2>1. Head(queues[t]) \in Orders
    BY <1>9, HeadTailProperties DEF Pop, TypeOK
  <2> QED
    BY <1>9, <2>1 DEF Pop, Flushed
<1>10. ASSUME NEW t \in Threads, Apply(t) \/ Sample(t) PROVE Control'
  BY <1>10 DEF Apply, Sample, Flushed
<1>11. ASSUME NEW t \in Threads, PopNothing(t) \/ CheckDone(t) \/ Recheck(t) PROVE Control'
  BY <1>11 DEF PopNothing, CheckDone, Recheck, Flushed
<1>12. CASE UNCHANGED vars
  BY <1>12 DEF Flushed
<1> QED
  BY <1>1, <1>2, <1>3, <1>4, <1>5, <1>6, <1>7, <1>8, <1>9, <1>10, <1>11, <1>12
     DEF Next, ProducerStep, ThreadStep, Returned

-----------------------------------------------------------------------------
(* The lines. Route appends an order to the line of its shard; every other *)
(* step moves one order within a line, or none.                            *)

\* What a thread has popped and not applied yet.
Held(t) == IF reader[t] = "apply" THEN <<order[t]>> ELSE <<>>

LEMMA LineIs == \A t \in Threads : Line(t) = ((applied[t] \o Held(t)) \o queues[t]) \o Unpushed(t)
  BY DEF Line, Held

\* What is left of a batch: of the one being pushed the rest, of one that the
\* last flush has passed nothing, of another one all.
UnpushedCases ==
    \A t \in Threads :
        /\ producer \in {"flush", "final", "join", "returned"} /\ shard = t =>
              Unpushed(t) = SubSeq(batches[t], pos + 1, Len(batches[t]))
        /\ producer \in {"final", "join", "returned"} /\ shard # t /\ t < shard =>
              Unpushed(t) = <<>>
        /\ producer \in {"stamp", "route"} => Unpushed(t) = batches[t]
        /\ producer = "flush" /\ shard # t => Unpushed(t) = batches[t]
        /\ shard # t /\ ~(t < shard) => Unpushed(t) = batches[t]

LEMMA UnpushedIs == UnpushedCases
<1> SUFFICES ASSUME NEW t \in Threads
             PROVE  /\ producer \in {"flush", "final", "join", "returned"} /\ shard = t =>
                          Unpushed(t) = SubSeq(batches[t], pos + 1, Len(batches[t]))
                    /\ producer \in {"final", "join", "returned"} /\ shard # t /\ t < shard =>
                          Unpushed(t) = <<>>
                    /\ producer \in {"stamp", "route"} => Unpushed(t) = batches[t]
                    /\ producer = "flush" /\ shard # t => Unpushed(t) = batches[t]
                    /\ shard # t /\ ~(t < shard) => Unpushed(t) = batches[t]
  BY DEF UnpushedCases
<1>1. CASE producer \in {"flush", "final", "join", "returned"} /\ shard = t
  <2>1. ~(t < shard)
    BY <1>1, SizesAssumption DEF Threads
  <2>2. Unpushed(t) = SubSeq(batches[t], pos + 1, Len(batches[t]))
    BY <1>1, <2>1 DEF Unpushed
  <2> QED
    BY <1>1, <2>1, <2>2
<1>2. CASE producer \in {"final", "join", "returned"} /\ shard # t /\ t < shard
  <2>1. Unpushed(t) = <<>>
    BY <1>2 DEF Unpushed
  <2> QED
    BY <1>2, <2>1
<1>3. CASE \/ producer \in {"stamp", "route"}
           \/ producer \notin {"flush", "final", "join", "returned"}
           \/ shard # t /\ (producer = "flush" \/ ~(t < shard))
  <2>1. Unpushed(t) = batches[t]
    BY <1>3 DEF Unpushed
  <2> QED
    BY <1>3, <2>1
<1> QED
  BY <1>1, <1>2, <1>3

\* The parts of a line are sequences of orders.
LEMMA PartsAreSequences ==
    ASSUME TypeOK, Control, NEW t \in Threads
    PROVE  /\ applied[t] \in Seq(Orders)
           /\ Held(t) \in Seq(Orders)
           /\ queues[t] \in Seq(Orders)
           /\ batches[t] \in Seq(Orders)
           /\ Unpushed(t) \in Seq(Orders)
           /\ applied[t] \o Held(t) \in Seq(Orders)
           /\ (applied[t] \o Held(t)) \o queues[t] \in Seq(Orders)
<1>1. applied[t] \in Seq(Orders) /\ queues[t] \in Seq(Orders) /\ batches[t] \in Seq(Orders)
  BY DEF TypeOK
<1>2. Held(t) \in Seq(Orders)
  <2>1. CASE reader[t] = "apply"
    <3>1. order[t] \in Orders
      BY <2>1 DEF Control
    <3> QED
      BY <2>1, <3>1 DEF Held
  <2>2. CASE reader[t] # "apply"
    BY <2>2, EmptySeq DEF Held
  <2> QED
    BY <2>1, <2>2
<1>3. Unpushed(t) \in Seq(Orders)
  <2>1. SubSeq(batches[t], pos + 1, Len(batches[t])) \in Seq(Orders)
    <3>1. pos + 1 \in Int /\ Len(batches[t]) \in Int /\ pos \in Nat
      BY <1>1, LenProperties DEF TypeOK
    <3>2. \A k \in pos + 1 .. Len(batches[t]) : batches[t][k] \in Orders
      BY <1>1, <3>1, ElementOfSeq
    <3> QED
      BY <3>1, <3>2, SubSeqProperties
  <2>2. <<>> \in Seq(Orders)
    BY EmptySeq
  <2> QED
    BY <1>1, <2>1, <2>2 DEF Unpushed
<1>4. applied[t] \o Held(t) \in Seq(Orders)
  BY <1>1, <1>2, ConcatProperties
<1>5. (applied[t] \o Held(t)) \o queues[t] \in Seq(Orders)
  BY <1>1, <1>4, ConcatProperties
<1> QED
  BY <1>1, <1>2, <1>3, <1>4, <1>5

LEMMA ThreadKeepsLines ==
    ASSUME TypeOK, Control, NEW t \in Threads, ThreadStep(t), NEW u \in Threads
    PROVE  Line(u)' = Line(u)
<1>1. Unpushed(u)' = Unpushed(u)
  BY DEF ThreadStep, Pop, PopNothing, Apply, Sample, CheckDone, Recheck, Goto, Unpushed
<1>2. CASE u # t
  <2>1. /\ applied'[u] = applied[u] /\ reader'[u] = reader[u]
        /\ order'[u] = order[u] /\ queues'[u] = queues[u]
    BY <1>2 DEF ThreadStep, Pop, PopNothing, Apply, Sample, CheckDone, Recheck, Goto, TypeOK
  <2> QED
    BY <1>1, <2>1 DEF Line
<1>3. CASE u = t /\ Pop(t)
  <2>1. /\ reader[t] = "pop" /\ reader'[t] = "apply" /\ queues[t] # <<>>
        /\ applied'[t] = applied[t] /\ order'[t] = Head(queues[t])
        /\ queues'[t] = Tail(queues[t])
    BY <1>3 DEF Pop, Goto, TypeOK
  <2>2. /\ Line(t) = ((applied[t] \o <<>>) \o queues[t]) \o Unpushed(t)
        /\ Line(t)' = ((applied[t] \o <<Head(queues[t])>>) \o Tail(queues[t])) \o Unpushed(t)
    BY <1>1, <1>3, <2>1 DEF Line
  <2>3. applied[t] \o <<>> = applied[t]
    BY PartsAreSequences, ConcatEmptySeq
  <2>4. (applied[t] \o <<Head(queues[t])>>) \o Tail(queues[t]) = applied[t] \o queues[t]
    BY <2>1, PartsAreSequences, MoveHead
  <2> QED
    BY <1>3, <2>2, <2>3, <2>4
<1>4. CASE u = t /\ Apply(t)
  <2>1. /\ reader[t] = "apply" /\ reader'[t] # "apply"
        /\ applied'[t] = Append(applied[t], order[t])
        /\ queues'[t] = queues[t] /\ order[t] \in Orders
    BY <1>4 DEF Apply, Goto, TypeOK, Control
  <2>2. /\ Line(t) = ((applied[t] \o <<order[t]>>) \o queues[t]) \o Unpushed(t)
        /\ Line(t)' = ((Append(applied[t], order[t]) \o <<>>) \o queues[t]) \o Unpushed(t)
    BY <1>1, <1>4, <2>1 DEF Line
  <2>3. Append(applied[t], order[t]) = applied[t] \o <<order[t]>>
    BY <2>1, PartsAreSequences, AppendIsConcat
  <2>4. Append(applied[t], order[t]) \in Seq(Orders)
    BY <2>1, PartsAreSequences, AppendProperties
  <2>5. Append(applied[t], order[t]) \o <<>> = Append(applied[t], order[t])
    BY <2>4, ConcatEmptySeq
  <2> QED
    BY <1>4, <2>2, <2>3, <2>5
<1>5. CASE u = t /\ ~Pop(t) /\ ~Apply(t)
  <2>1. /\ reader[t] # "apply" /\ reader'[t] # "apply"
        /\ applied' = applied /\ queues' = queues
    BY <1>5 DEF ThreadStep, PopNothing, Sample, CheckDone, Recheck, Goto, TypeOK
  <2> QED
    BY <1>1, <1>5, <2>1 DEF Line
<1> QED
  BY <1>2, <1>3, <1>4, <1>5

\* The producer's steps change a line by what they do to the queue and to what
\* is left of the batch.
LEMMA LineChanges ==
    ASSUME NEW t \in Threads, UNCHANGED threadVars
    PROVE  Line(t)' = ((applied[t] \o Held(t)) \o queues'[t]) \o Unpushed(t)'
  BY DEF Line, Held

\* A push moves an order from the batch to the queue.
LEMMA PushKeepsLine ==
    ASSUME TypeOK, Control, PushNext, NEW t \in Threads
    PROVE  Line(t)' = Line(t)
<1>1. /\ producer \in {"flush", "final"} /\ pos < Len(batches[shard])
      /\ queues' = [queues EXCEPT ![shard] = Append(@, batches[shard][pos + 1])]
      /\ pos' = pos + 1
      /\ UNCHANGED <<producer, shard, batches, threadVars>>
  BY DEF PushNext, ProducerGoto
<1>2. shard \in Threads /\ pos \in Nat /\ Len(batches[shard]) \in Nat
  BY LenProperties DEF TypeOK
<1>3. CASE t = shard
  <2> DEFINE next == batches[t][pos + 1]
             rest == SubSeq(batches[t], pos + 2, Len(batches[t]))
             front == applied[t] \o Held(t)
  <2>1. pos + 1 \in 1 .. Len(batches[t]) /\ Len(batches[t]) \in pos + 1 .. Len(batches[t])
    BY <1>1, <1>2, <1>3
  <2>2. Unpushed(t) = <<next>> \o rest
    <3>1. (pos + 1) + 1 = pos + 2
      BY <1>2
    <3>2. SubSeq(batches[t], pos + 1, Len(batches[t])) =
              <<batches[t][pos + 1]>> \o SubSeq(batches[t], (pos + 1) + 1, Len(batches[t]))
      BY <2>1, PartsAreSequences, SubSeqRecursiveFirst
    <3>3. Unpushed(t) = SubSeq(batches[t], pos + 1, Len(batches[t]))
      BY <1>1, <1>3, UnpushedIs DEF UnpushedCases
    <3> QED
      BY <3>1, <3>2, <3>3
  <2>3. Unpushed(t)' = rest
    <3>1. (pos + 1) + 1 = pos + 2
      BY <1>2
    <3>2. UnpushedCases'
      BY UnpushedIs, PTL
    <3>3. Unpushed(t)' = SubSeq(batches[t], (pos + 1) + 1, Len(batches[t]))
      BY <1>1, <1>3, <3>2 DEF UnpushedCases
    <3> QED
      BY <3>1, <3>3
  <2>4. queues'[t] = Append(queues[t], next)
    BY <1>1, <1>2, <1>3 DEF TypeOK
  <2>5. next \in Orders
    BY <2>1, PartsAreSequences, ElementOfSeq
  <2>6. rest \in Seq(Orders)
    <3>1. \A k \in pos + 2 .. Len(batches[t]) : k \in 1 .. Len(batches[t])
      BY <1>2, <1>3
    <3>2. \A k \in pos + 2 .. Len(batches[t]) : batches[t][k] \in Orders
      BY <3>1, PartsAreSequences, ElementOfSeq
    <3>3. pos + 2 \in Int /\ Len(batches[t]) \in Int
      BY <1>2, <1>3
    <3> QED
      BY <3>2, <3>3, SubSeqProperties
  <2>7. front \in Seq(Orders) /\ queues[t] \in Seq(Orders) /\ front \o queues[t] \in Seq(Orders)
    BY PartsAreSequences
  <2> HIDE DEF next, rest, front
  <2>8. (front \o queues[t]) \o (<<next>> \o rest) = Append(front \o queues[t], next) \o rest
    <3> DEFINE whole == front \o queues[t]
    <3>1. whole \in Seq(Orders)
      BY <2>7
    <3> HIDE DEF whole
    <3>2. whole \o (<<next>> \o rest) = Append(whole, next) \o rest
      BY <2>5, <2>6, <3>1, MoveBetween
    <3> QED
      BY <3>2 DEF whole
  <2>9. front \o Append(queues[t], next) = Append(front \o queues[t], next)
    BY <2>5, <2>7, AppendLast
  <2>10. Line(t)' = (front \o Append(queues[t], next)) \o rest
    BY <1>1, <2>3, <2>4, LineChanges DEF front
  <2>11. Line(t) = (front \o queues[t]) \o (<<next>> \o rest)
    BY <2>2, LineIs DEF front
  <2> QED
    BY <2>8, <2>9, <2>10, <2>11
<1>4. CASE t # shard
  <2>1. Unpushed(t)' = Unpushed(t)
    BY <1>1, <1>4 DEF Unpushed
  <2>2. queues'[t] = queues[t]
    BY <1>1, <1>4 DEF TypeOK
  <2> QED
    BY <1>1, <2>1, <2>2, LineChanges, LineIs
<1> QED
  BY <1>3, <1>4

\* A batch that has been pushed as far as its end has nothing left.
LEMMA NothingLeft ==
    ASSUME TypeOK, NEW t \in Threads, pos = Len(batches[t])
    PROVE  SubSeq(batches[t], pos + 1, Len(batches[t])) = <<>>
<1>1. pos + 1 \in Int /\ Len(batches[t]) \in Int /\ Len(batches[t]) < pos + 1
  BY LenProperties DEF TypeOK
<1> QED
  BY <1>1, SubSeqEmpty

\* Between two pushes the producer only moves from batch to batch.
LEMMA MovingOnKeepsLines ==
    ASSUME TypeOK, Control, NEW t \in Threads,
           Stamp \/ EndFlush \/ FlushRemaining \/ NextShard \/ SetDone \/ Join
    PROVE  Line(t)' = Line(t)
<1>0. UnpushedCases /\ UnpushedCases'
  BY UnpushedIs, PTL
<1>1. UNCHANGED <<queues, threadVars>>
  BY DEF Stamp, EndFlush, FlushRemaining, NextShard, SetDone, Join, ProducerGoto
<1>2. /\ shard \in Threads /\ t \in Nat /\ shard \in Nat
      /\ batches \in [Threads -> Seq(Orders)]
      /\ SubSeq(batches[t], 1, Len(batches[t])) = batches[t]
  BY SizesAssumption, SubSeqFull DEF TypeOK, Threads
<1>3. Unpushed(t)' = Unpushed(t)
  <2>1. CASE Stamp
    BY <1>0, <2>1 DEF UnpushedCases, Stamp, ProducerGoto
  <2>2. CASE EndFlush
    <3>1. /\ producer = "flush" /\ producer' = "stamp" /\ pos = Len(batches[shard])
          /\ batches' = [batches EXCEPT ![shard] = <<>>]
      BY <2>2 DEF EndFlush, Flushed, Cleared, ProducerGoto
    <3>2. Unpushed(t)' = batches'[t]
      BY <1>0, <3>1 DEF UnpushedCases
    <3>3. CASE t = shard
      <4>1. Unpushed(t) = <<>>
        BY <1>0, <3>1, <3>3, NothingLeft DEF UnpushedCases
      <4> QED
        BY <1>2, <3>1, <3>2, <3>3, <4>1
    <3>4. CASE t # shard
      <4>1. Unpushed(t) = batches[t]
        BY <1>0, <3>1, <3>4 DEF UnpushedCases
      <4> QED
        BY <1>2, <3>1, <3>2, <3>4, <4>1
    <3> QED
      BY <3>3, <3>4
  <2>3. CASE FlushRemaining
    <3>1. /\ producer = "stamp" /\ producer' = "final" /\ shard' = 0 /\ pos' = 0
          /\ batches' = batches
      BY <2>3 DEF FlushRemaining, ProducerGoto
    <3>2. Unpushed(t) = batches[t]
      BY <1>0, <3>1 DEF UnpushedCases
    <3>3. CASE t = 0
      <4>1. Unpushed(t)' = SubSeq(batches[t], 0 + 1, Len(batches[t]))
        BY <1>0, <3>1, <3>3 DEF UnpushedCases
      <4> QED
        BY <1>2, <3>2, <4>1
    <3>4. CASE t # 0
      <4>1. ~(t < shard') /\ shard' # t
        BY <1>2, <3>1, <3>4
      <4>2. Unpushed(t)' = batches[t]
        BY <1>0, <3>1, <4>1 DEF UnpushedCases
      <4> QED
        BY <3>2, <4>2
    <3> QED
      BY <3>3, <3>4
  <2>4. CASE NextShard
    <3>1. /\ producer = "final" /\ producer' = "final" /\ pos = Len(batches[shard])
          /\ shard' = shard + 1 /\ pos' = 0 /\ batches' = batches
      BY <2>4 DEF NextShard, Flushed, ProducerGoto
    <3>2. CASE t < shard
      <4>1. t < shard' /\ shard' # t /\ shard # t
        BY <1>2, <3>1, <3>2
      <4> QED
        BY <1>0, <3>1, <3>2, <4>1 DEF UnpushedCases
    <3>3. CASE t = shard
      <4>1. t < shard' /\ shard' # t
        BY <1>2, <3>1, <3>3
      <4>2. Unpushed(t) = <<>>
        BY <1>0, <3>1, <3>3, NothingLeft DEF UnpushedCases
      <4> QED
        BY <1>0, <3>1, <4>1, <4>2 DEF UnpushedCases
    <3>4. CASE t = shard + 1
      <4>1. ~(t < shard) /\ shard # t /\ shard' = t
        BY <1>2, <3>1, <3>4
      <4>2. Unpushed(t)' = SubSeq(batches[t], 0 + 1, Len(batches[t]))
        BY <1>0, <3>1, <4>1 DEF UnpushedCases
      <4>3. Unpushed(t) = batches[t]
        BY <1>0, <4>1 DEF UnpushedCases
      <4> QED
        BY <1>2, <4>2, <4>3
    <3>5. CASE t > shard + 1
      <4>1. ~(t < shard) /\ shard # t /\ ~(t < shard') /\ shard' # t
        BY <1>2, <3>1, <3>5
      <4> QED
        BY <1>0, <3>1, <4>1 DEF UnpushedCases
    <3> QED
      BY <1>2, <3>2, <3>3, <3>4, <3>5
  <2>5. CASE SetDone \/ Join
    <3>1. /\ producer \in {"final", "join"} /\ producer' \in {"join", "returned"}
          /\ UNCHANGED <<shard, pos, batches>>
      BY <2>5 DEF SetDone, Join, ProducerGoto
    <3>2. CASE t = shard
      BY <1>0, <3>1, <3>2 DEF UnpushedCases
    <3>3. CASE t # shard
      BY <1>0, <3>1, <3>3 DEF UnpushedCases
    <3> QED
      BY <3>2, <3>3
  <2> QED
    BY <2>1, <2>2, <2>3, <2>4, <2>5
<1> QED
  BY <1>1, <1>3, LineChanges, LineIs

\* Routing an order puts it at the end of the line of its shard.
LEMMA RouteAppends ==
    ASSUME TypeOK, Control, Route, NEW t \in Threads
    PROVE  /\ i \in Orders /\ i' = i + 1
           /\ Line(t)' = IF t = ShardOf[i] THEN Append(Line(t), i) ELSE Line(t)
<1>0. UnpushedCases /\ UnpushedCases'
  BY UnpushedIs, PTL
<1>1. /\ producer = "route" /\ producer' \in {"flush", "stamp"}
      /\ shard' = ShardOf[i] /\ pos' = 0 /\ i' = i + 1
      /\ batches' = [batches EXCEPT ![ShardOf[i]] = Append(batches[ShardOf[i]], i)]
      /\ UNCHANGED <<queues, threadVars>>
  BY DEF Route, ProducerGoto
<1>2. i \in Orders
  BY <1>1, SizesAssumption DEF Control, TypeOK, Orders
<1>3. Unpushed(t) = batches[t] /\ batches[t] \in Seq(Orders)
  BY <1>0, <1>1 DEF UnpushedCases, TypeOK
<1>4. CASE t = ShardOf[i]
  <2>1. batches'[t] = Append(batches[t], i) /\ batches'[t] \in Seq(Orders)
    BY <1>1, <1>2, <1>3, <1>4, AppendProperties DEF TypeOK
  <2>2. Unpushed(t)' = Append(batches[t], i)
    <3>1. CASE producer' = "stamp"
      BY <1>0, <2>1, <3>1 DEF UnpushedCases
    <3>2. CASE producer' = "flush"
      <4>1. Unpushed(t)' = SubSeq(batches'[t], 0 + 1, Len(batches'[t]))
        BY <1>0, <1>1, <1>4, <3>2 DEF UnpushedCases
      <4>2. SubSeq(batches'[t], 1, Len(batches'[t])) = batches'[t]
        BY <2>1, SubSeqFull
      <4> QED
        BY <2>1, <4>1, <4>2
    <3> QED
      BY <1>1, <3>1, <3>2
  <2> DEFINE front == (applied[t] \o Held(t)) \o queues[t]
  <2>3. front \in Seq(Orders)
    BY PartsAreSequences
  <2>4. Line(t)' = front \o Append(batches[t], i) /\ Line(t) = front \o batches[t]
    BY <1>1, <1>3, <2>2, LineChanges, LineIs
  <2> HIDE DEF front
  <2>5. front \o Append(batches[t], i) = Append(front \o batches[t], i)
    BY <1>2, <1>3, <2>3, AppendLast
  <2> QED
    BY <1>1, <1>2, <1>4, <2>4, <2>5
<1>5. CASE t # ShardOf[i]
  <2>1. batches'[t] = batches[t]
    BY <1>1, <1>5 DEF TypeOK
  <2>2. Unpushed(t)' = batches[t]
    BY <1>0, <1>1, <1>5, <2>1 DEF UnpushedCases
  <2>3. Line(t)' = Line(t)
    BY <1>1, <1>3, <2>2, LineChanges, LineIs
  <2> QED
    BY <1>1, <1>2, <1>5, <2>3
<1> QED
  BY <1>4, <1>5

LEMMA LinesStep == Inv /\ [Next]_vars => Lines'
<1> SUFFICES ASSUME Inv, [Next]_vars, NEW t \in Threads PROVE LineOK(t)'
  BY DEF Lines
<1>1. /\ Line(t) \in Seq(Orders)
      /\ Range(Line(t)) = {s \in Own(t) : s < i}
      /\ Ascending(Line(t))
      /\ TypeOK /\ Control
  BY DEF Inv, Lines, LineOK
<1>0. ASSUME Line(t)' \in Seq(Orders), Ascending(Line(t)'),
             Range(Line(t)') = {s \in Own(t) : s < i'}
      PROVE  LineOK(t)'
  BY <1>0 DEF LineOK, Own, Range, Ascending
<1>2. CASE Route
  <2>1. /\ i \in Orders /\ i' = i + 1 /\ i \in Int
        /\ Line(t)' = IF t = ShardOf[i] THEN Append(Line(t), i) ELSE Line(t)
    BY <1>1, <1>2, RouteAppends DEF Orders
  <2>2. \A s \in Own(t) : s \in Int
    BY DEF Own, Orders
  <2>0. \A s \in Own(t) : s < i' <=> s < i \/ s = i
    BY <2>1, <2>2
  <2>3. CASE t = ShardOf[i]
    <3>1. i \in Own(t)
      BY <2>1, <2>3 DEF Own
    <3>2. Line(t)' = Append(Line(t), i)
      BY <2>1, <2>3
    <3>3. Line(t)' \in Seq(Orders)
      BY <1>1, <2>1, <3>2, AppendProperties
    <3>4. Range(Line(t)') = Range(Line(t)) \union {i}
      BY <1>1, <2>1, <3>2, RangeAppend
    <3>5. Range(Line(t)') = {s \in Own(t) : s < i'}
      BY <1>1, <2>0, <3>1, <3>4
    <3>6. Orders \in SUBSET Int
      BY DEF Orders
    <3>7. Ascending(Line(t)')
      BY <1>1, <2>1, <3>2, <3>6, AscendingAppend
    <3> QED
      BY <1>0, <2>1, <3>3, <3>5, <3>7
  <2>4. CASE t # ShardOf[i]
    <3>1. {s \in Own(t) : s < i'} = {s \in Own(t) : s < i}
      <4>1. i \notin Own(t)
        BY <2>4 DEF Own
      <4> QED
        BY <2>0, <4>1
    <3> QED
      BY <1>0, <1>1, <2>1, <2>4, <3>1
  <2> QED
    BY <2>3, <2>4
<1>3. ASSUME Line(t)' = Line(t), i' = i PROVE LineOK(t)'
  BY <1>0, <1>1, <1>3
<1>4. CASE PushNext
  BY <1>1, <1>3, <1>4, PushKeepsLine DEF PushNext
<1>5. CASE Stamp \/ EndFlush \/ FlushRemaining \/ NextShard \/ SetDone \/ Join
  <2>1. i' = i
    BY <1>5 DEF Stamp, EndFlush, FlushRemaining, NextShard, SetDone, Join
  <2> QED
    BY <1>1, <1>3, <1>5, <2>1, MovingOnKeepsLines
<1>6. ASSUME NEW u \in Threads, ThreadStep(u) PROVE LineOK(t)'
  <2>1. i' = i
    BY <1>6 DEF ThreadStep, Pop, PopNothing, Apply, Sample, CheckDone, Recheck, Goto
  <2> QED
    BY <1>1, <1>3, <1>6, <2>1, ThreadKeepsLines
<1>7. CASE UNCHANGED vars
  <2>1. Line(t)' = Line(t)
    BY <1>7 DEF Line, Unpushed
  <2> QED
    BY <1>3, <1>7, <2>1
<1> QED
  BY <1>2, <1>4, <1>5, <1>6, <1>7 DEF Next, ProducerStep, Returned

-----------------------------------------------------------------------------
LEMMA InvInit == Init => Inv
<1> SUFFICES ASSUME Init PROVE Inv
  OBVIOUS
<1>1. TypeOK
  BY TypeInit
<1>2. Control
  BY DEF Init, Control
<1>3. ASSUME NEW t \in Threads PROVE LineOK(t)
  <2>1. Unpushed(t) = <<>> /\ Held(t) = <<>> /\ queues[t] = <<>> /\ applied[t] = <<>>
    BY <1>3, UnpushedIs DEF Init, UnpushedCases, Held
  <2>2. <<>> \in Seq(Orders) /\ <<>> \o <<>> = <<>>
    BY EmptySeq, ConcatEmptySeq
  <2>3. Line(t) = <<>>
    BY <2>1, <2>2, LineIs
  <2>4. {s \in Own(t) : s < i} = {}
    BY DEF Init, Own, Orders
  <2>5. Range(Line(t)) = {} /\ Line(t) \in Seq(Orders)
    BY <2>2, <2>3, RangeEmpty
  <2>6. Ascending(Line(t))
    BY <2>3, <2>5 DEF Ascending, Range
  <2> QED
    BY <2>4, <2>5, <2>6 DEF LineOK
<1> QED
  BY <1>1, <1>2, <1>3 DEF Inv, Lines

LEMMA InvStep == Inv /\ [Next]_vars => Inv'
  BY TypeStep, ControlStep, LinesStep DEF Inv

(* The inductive invariant: types, what each place of the producer and of  *)
(* the threads means for counters and flag, and the lines of the orders.   *)
THEOREM RoutedInvariance == Spec => []Inv
  BY InvInit, InvStep, PTL DEF Spec

(* Every variable of the routed pipeline keeps its type, the places that   *)
(* latency samples are read from included.                                 *)
THEOREM RoutedTypeCorrect == Spec => []TypeOK
<1>1. Inv => TypeOK
  BY DEF Inv
<1> QED
  BY <1>1, RoutedInvariance, PTL

(* Between the batches, the queues and the threads every order routed so   *)
(* far is in the line of its shard, exactly once, and nothing overtakes.   *)
THEOREM LinesAreWhole == Spec => []NothingLostOrReordered
<1>1. Inv => NothingLostOrReordered
  BY DEF Inv, Lines, LineOK, Ascending, NothingLostOrReordered
<1> QED
  BY <1>1, RoutedInvariance, PTL

-----------------------------------------------------------------------------
(* The sharded delivery, step by step: Route sends, SetDone closes the     *)
(* stream, Apply delivers and the Recheck that finds nothing leaves.       *)

LEMMA DeliveryInit == Init => Delivery!Init
  BY DEF Init, Delivery!Init

LEMMA OwnIsOwn ==
    ASSUME NEW t, NEW f
    PROVE  /\ Delivery!Own(t) = Own(t) /\ Delivery!Orders = Orders
           /\ Delivery!Range(f) = Range(f)
  BY DEF Delivery!Own, Own, Delivery!Orders, Orders, Delivery!Range, Range

LEMMA ProducerDelivers ==
    Inv /\ ProducerStep => Delivery!Next \/ UNCHANGED Delivery!deliveryVars
<1> SUFFICES ASSUME Inv, ProducerStep
             PROVE  Delivery!Next \/ UNCHANGED Delivery!deliveryVars
  OBVIOUS
<1>1. CASE Route
  <2>1. /\ ~producer_done /\ i < NumOrders /\ i' = i + 1
        /\ UNCHANGED <<producer_done, applied, reader>>
    BY <1>1 DEF Route, ProducerGoto, Inv, Control
  <2>2. Delivery!Send
    BY <2>1 DEF Delivery!Send
  <2> QED
    BY <2>2 DEF Delivery!Next
<1>2. CASE SetDone
  <2>1. /\ ~producer_done /\ producer_done' = TRUE /\ i = NumOrders
        /\ UNCHANGED <<i, applied, reader>>
    BY <1>2 DEF SetDone, DoneFlag, ProducerGoto, Inv, Control
  <2>2. Delivery!Close
    BY <2>1 DEF Delivery!Close
  <2> QED
    BY <2>2 DEF Delivery!Next
<1>3. CASE Stamp \/ PushNext \/ EndFlush \/ FlushRemaining \/ NextShard \/ Join
  BY <1>3 DEF Stamp, PushNext, EndFlush, FlushRemaining, NextShard, Join, ProducerGoto,
              Delivery!deliveryVars
<1> QED
  BY <1>1, <1>2, <1>3 DEF ProducerStep

LEMMA ApplyDelivers ==
    ASSUME Inv, NEW t \in Threads, Apply(t)
    PROVE  Delivery!Deliver(t)
<1> DEFINE s == order[t]
           rest == queues[t] \o Unpushed(t)
<1>1. /\ reader[t] = "apply" /\ s \in Orders
      /\ applied' = [applied EXCEPT ![t] = Append(@, s)]
      /\ UNCHANGED <<i, producer_done>>
      /\ {u \in Threads : reader[u] = "gone"}' = {u \in Threads : reader[u] = "gone"}
  BY DEF Apply, Goto, Inv, TypeOK, Control
<1>2. /\ applied[t] \in Seq(Orders) /\ queues[t] \in Seq(Orders)
      /\ Unpushed(t) \in Seq(Orders) /\ rest \in Seq(Orders)
      /\ Append(applied[t], s) \in Seq(Orders)
  BY <1>1, PartsAreSequences, ConcatProperties, AppendProperties DEF Inv
<1>3. Line(t) = Append(applied[t], s) \o rest
  <2>1. Held(t) = <<s>>
    BY <1>1 DEF Held
  <2>2. applied[t] \o <<s>> = Append(applied[t], s)
    BY <1>1, <1>2, AppendIsConcat
  <2>3. Line(t) = (Append(applied[t], s) \o queues[t]) \o Unpushed(t)
    BY <2>1, <2>2, LineIs
  <2> DEFINE front == Append(applied[t], s)
  <2>4. front \in Seq(Orders) /\ Line(t) = (front \o queues[t]) \o Unpushed(t)
    BY <1>2, <2>3
  <2> HIDE DEF front
  <2>5. Line(t) = front \o (queues[t] \o Unpushed(t))
    <3> DEFINE queue == queues[t]
               unpushed == Unpushed(t)
    <3>1. front \in Seq(Orders) /\ queue \in Seq(Orders) /\ unpushed \in Seq(Orders)
      BY <1>2, <2>4
    <3> HIDE DEF queue, unpushed
    <3>2. (front \o queue) \o unpushed = front \o (queue \o unpushed)
      BY <3>1, ConcatAssociative
    <3> QED
      BY <2>4, <3>2 DEF queue, unpushed
  <2> QED
    BY <2>5 DEF front
<1>4. Orders \in SUBSET Int
  BY DEF Orders
<1>5. Range(Line(t)) = {r \in Own(t) : r < i} /\ Ascending(Line(t))
  BY DEF Inv, Lines, LineOK
<1>6. /\ s \in Range(Line(t)) /\ s \notin Range(applied[t])
      /\ \A r \in Range(Line(t)) : r < s => r \in Range(applied[t])
  <2>1. Ascending(Append(applied[t], s) \o rest)
    BY <1>3, <1>5
  <2> HIDE DEF s, rest
  <2>2. /\ s \in Range(Append(applied[t], s) \o rest) /\ s \notin Range(applied[t])
        /\ \A r \in Range(Append(applied[t], s) \o rest) : r < s => r \in Range(applied[t])
    BY <1>1, <1>2, <1>4, <2>1, PrecedingIsSmaller
  <2> QED
    BY <1>3, <2>2
<1>7. s \in Own(t) /\ s < i
  BY <1>5, <1>6
<1>8. \A r \in Own(t) : r < s => r \in Range(applied[t])
  <2>1. \A r \in Own(t) : r < s => r < i
    BY <1>7 DEF Inv, TypeOK, Own, Orders
  <2> QED
    BY <1>5, <1>6, <2>1
<1>9. Delivery!IsNext(t, s)
  BY <1>6, <1>7, <1>8, OwnIsOwn DEF Delivery!IsNext
<1> QED
  BY <1>1, <1>7, <1>9, OwnIsOwn DEF Delivery!Deliver

LEMMA LeavingLeaves ==
    ASSUME Inv, NEW t \in Threads, Recheck(t), reader'[t] = "gone"
    PROVE  Delivery!Leave(t)
<1>1. /\ reader[t] = "recheck" /\ producer_done /\ Len(queues[t]) = 0
      /\ reader' = [reader EXCEPT ![t] = "gone"]
      /\ UNCHANGED <<i, producer_done, applied>>
  <2>1. /\ reader[t] = "recheck"
        /\ reader' = [reader EXCEPT ![t] = IF Len(queues[t]) = 0 THEN "gone" ELSE "pop"]
        /\ UNCHANGED <<i, producer_done, applied>>
    BY DEF Recheck, Available, Goto
  <2>2. Len(queues[t]) = 0
    BY <2>1 DEF Inv, TypeOK
  <2> QED
    BY <2>1, <2>2 DEF Inv, Control
<1>2. {u \in Threads : reader[u] = "gone"}' = {u \in Threads : reader[u] = "gone"} \union {t}
  BY <1>1 DEF Inv, TypeOK
<1>3. /\ producer \in {"join", "returned"} /\ i = NumOrders
      /\ shard + 1 = NumThreads /\ pos = Len(batches[shard])
  BY <1>1 DEF Inv, Control, Flushed
<1>4. Unpushed(t) = <<>>
  <2>1. CASE t = shard
    BY <1>3, <2>1, UnpushedIs, NothingLeft DEF UnpushedCases, Inv
  <2>2. CASE t # shard
    <3>1. t < shard
      BY <1>3, <2>2, SizesAssumption DEF Inv, TypeOK, Threads
    <3> QED
      BY <1>3, <2>2, <3>1, UnpushedIs DEF UnpushedCases
  <2> QED
    BY <2>1, <2>2
<1>5. queues[t] = <<>>
  BY <1>1, EmptySeq DEF Inv, TypeOK
<1>6. Line(t) = applied[t]
  <2>1. Held(t) = <<>>
    BY <1>1 DEF Held
  <2>2. applied[t] \o <<>> = applied[t]
    BY PartsAreSequences, ConcatEmptySeq DEF Inv
  <2> QED
    BY <1>4, <1>5, <2>1, <2>2, LineIs
<1>7. Own(t) \subseteq Range(applied[t])
  <2>1. Range(applied[t]) = {s \in Own(t) : s < NumOrders}
    BY <1>3, <1>6 DEF Inv, Lines, LineOK
  <2> QED
    BY <2>1, SizesAssumption DEF Own, Orders
<1> QED
  BY <1>1, <1>2, <1>7, OwnIsOwn DEF Delivery!Leave

LEMMA ThreadDelivers ==
    ASSUME Inv, NEW t \in Threads, ThreadStep(t)
    PROVE  Delivery!Next \/ UNCHANGED Delivery!deliveryVars
<1>1. CASE Apply(t)
  BY <1>1, ApplyDelivers DEF Delivery!Next
<1>2. CASE Recheck(t) /\ reader'[t] = "gone"
  BY <1>2, LeavingLeaves DEF Delivery!Next
<1>3. CASE ~Apply(t) /\ ~(Recheck(t) /\ reader'[t] = "gone")
  <2>1. UNCHANGED <<i, producer_done, applied>>
    BY <1>3 DEF ThreadStep, Pop, PopNothing, Sample, CheckDone, Recheck, Goto
  <2>2. /\ reader[t] # "gone" /\ reader'[t] # "gone"
        /\ \A u \in Threads \ {t} : reader'[u] = reader[u]
    BY <1>3 DEF ThreadStep, Pop, PopNothing, Sample, CheckDone, Recheck, Goto, Inv, TypeOK
  <2>3. {u \in Threads : reader[u] = "gone"}' = {u \in Threads : reader[u] = "gone"}
    BY <2>2
  <2> QED
    BY <2>1, <2>3 DEF Delivery!deliveryVars
<1> QED
  BY <1>1, <1>2, <1>3

(* Every thread is handed exactly the orders of its shard, once each and   *)
(* in order, and leaves only when all are applied, whatever the length of  *)
(* the input: the routed pipeline implements the sharded delivery.         *)
THEOREM ImplementsDelivery == Spec => DeliversOwnOrders
<1>1. ASSUME Inv, [Next]_vars PROVE [Delivery!Next]_(Delivery!deliveryVars)
  <2>1. CASE UNCHANGED vars
    BY <2>1 DEF Delivery!deliveryVars
  <2> QED
    BY <1>1, <2>1, ProducerDelivers, ThreadDelivers DEF Next, Returned
<1> QED
  BY <1>1, DeliveryInit, RoutedInvariance, PTL DEF Spec, DeliversOwnOrders, Delivery!Spec

-----------------------------------------------------------------------------
(* The queue between the producer and a thread. The pipeline above takes   *)
(* push() and try_pop() to be one step; that is justified here: access by  *)
(* access, for every capacity, set of items and number of pushes, the two  *)
(* threads of a queue never touch one slot together, and each access is a  *)
(* push, a pop or a stutter of BoundedFifo.                                *)

CONSTANTS Items, NoItem, Torn, MaxPushes

VARIABLES slots_, head_, tail_, pusher, call, pushing, consumer, first_read, popping, popped

Queue == INSTANCE SpscQueue WITH producer <- pusher

USE DEF Queue!queueVars, Queue!producerVars, Queue!consumerVars, Queue!vars

\* A queue has a slot.
LEMMA CapacityIsPositive == Capacity \in Nat \ {0}
  BY SizesAssumption

\* The positions stay at most Capacity apart, strictly so while a push that saw
\* room is under way, and apart while a pop that saw an item is.
QueuePositions ==
    /\ tail_ <= head_
    /\ head_ <= tail_ + Capacity
    /\ pusher \in {"copy", "copying", "store"} => head_ < tail_ + Capacity
    /\ consumer \in {"copy", "copying", "store"} => tail_ < head_
    /\ pusher # "idle" => pushing \in Items

\* Every position between tail_ and head_ holds an item, the one a pop under way
\* has begun to copy; the producer's copy is whole when it stores head_.
QueueCopies ==
    /\ \A n \in tail_ .. head_ - 1 : slots_[Queue!Mask(n)] \in Items
    /\ pusher = "store" => slots_[Queue!Mask(head_)] = pushing
    /\ consumer = "copying" => first_read = slots_[Queue!Mask(tail_)]
    /\ consumer = "store" => popping = slots_[Queue!Mask(tail_)]

QueueInv == Queue!TypeOK /\ QueuePositions /\ QueueCopies

-----------------------------------------------------------------------------
(* Type correctness and the positions.                                     *)

LEMMA QueueTypeInit == Queue!Init => Queue!TypeOK
  BY CapacityIsPositive DEF Queue!Init, Queue!TypeOK, Queue!Contents

LEMMA QueueTypeStep == Queue!TypeOK /\ [Queue!Next]_(Queue!vars) => Queue!TypeOK'
<1> SUFFICES ASSUME Queue!TypeOK, [Queue!Next]_(Queue!vars) PROVE Queue!TypeOK'
  OBVIOUS
<1> USE DEF Queue!TypeOK, Queue!Contents
<1>1. ASSUME NEW method \in {"try_push", "push"}, NEW item \in Items, Queue!Call(method, item)
      PROVE  Queue!TypeOK'
  BY <1>1 DEF Queue!Call
<1>2. CASE Queue!PushStep
  BY <1>2 DEF Queue!PushStep, Queue!SeeRoom, Queue!SeeFull, Queue!BeginCopyIn,
      Queue!EndCopyIn, Queue!StoreHead
<1>3. CASE Queue!TryPop
  BY <1>3 DEF Queue!TryPop
<1>4. CASE Queue!BeginCopyOut
  <2>1. Queue!Mask(tail_) \in Queue!SlotIds
    BY CapacityIsPositive, ModInRing DEF Queue!Mask, Queue!SlotIds
  <2> QED
    BY <1>4, <2>1 DEF Queue!BeginCopyOut
<1>5. CASE Queue!EndCopyOut
  BY <1>5 DEF Queue!EndCopyOut
<1>6. CASE Queue!StoreTail
  BY <1>6 DEF Queue!StoreTail
<1>7. CASE UNCHANGED Queue!vars
  BY <1>7
<1> QED
  BY <1>1, <1>2, <1>3, <1>4, <1>5, <1>6, <1>7 DEF Queue!Next, Queue!PopStep, Queue!Drained

(* Every variable of the queue and of its two threads keeps its type.      *)
THEOREM QueueTypeCorrect == Queue!Spec => []Queue!TypeOK
  BY QueueTypeInit, QueueTypeStep, PTL DEF Queue!Spec

LEMMA QueuePositionsStep == Queue!TypeOK /\ QueuePositions /\ [Queue!Next]_(Queue!vars)
    => QueuePositions'
<1> SUFFICES ASSUME Queue!TypeOK, QueuePositions, [Queue!Next]_(Queue!vars)
    PROVE QueuePositions'
  OBVIOUS
<1> USE CapacityIsPositive DEF Queue!TypeOK, QueuePositions
<1>1. ASSUME NEW method \in {"try_push", "push"}, NEW item \in Items, Queue!Call(method, item)
      PROVE  QueuePositions'
  BY <1>1 DEF Queue!Call
<1>2. CASE Queue!SeeRoom
  BY <1>2 DEF Queue!SeeRoom, Queue!Full
<1>3. CASE Queue!SeeFull
  BY <1>3 DEF Queue!SeeFull
<1>4. CASE Queue!BeginCopyIn
  BY <1>4 DEF Queue!BeginCopyIn
<1>5. CASE Queue!EndCopyIn
  BY <1>5 DEF Queue!EndCopyIn
<1>6. CASE Queue!StoreHead
  BY <1>6 DEF Queue!StoreHead
<1>7. CASE Queue!TryPop
  BY <1>7 DEF Queue!TryPop, Queue!HasItem
<1>8. CASE Queue!BeginCopyOut
  BY <1>8 DEF Queue!BeginCopyOut
<1>9. CASE Queue!EndCopyOut
  BY <1>9 DEF Queue!EndCopyOut
<1>10. CASE Queue!StoreTail
  BY <1>10 DEF Queue!StoreTail
<1>11. CASE UNCHANGED Queue!vars
  BY <1>11
<1> QED
  BY <1>1, <1>2, <1>3, <1>4, <1>5, <1>6, <1>7, <1>8, <1>9, <1>10, <1>11
     DEF Queue!Next, Queue!PushStep, Queue!PopStep, Queue!Drained

-----------------------------------------------------------------------------
(* The slots.                                                              *)

\* What is queued is not in the slot the producer copies into.
LEMMA QueuedElsewhere ==
    ASSUME Queue!TypeOK, QueuePositions, pusher \in {"copy", "copying", "store"},
           NEW n \in tail_ .. head_ - 1
    PROVE  Queue!Mask(n) # Queue!Mask(head_) /\ Queue!Mask(n) \in Queue!SlotIds
<1>1. n \in Nat /\ n < head_ /\ head_ < n + Capacity
  BY CapacityIsPositive DEF Queue!TypeOK, QueuePositions
<1> QED
  BY <1>1, CapacityIsPositive, ModDistinct, ModInRing
      DEF Queue!Mask, Queue!SlotIds, Queue!TypeOK

LEMMA MaskInSlots == Queue!TypeOK
    => Queue!Mask(head_) \in Queue!SlotIds /\ Queue!Mask(tail_) \in Queue!SlotIds
  BY CapacityIsPositive, ModInRing DEF Queue!Mask, Queue!SlotIds, Queue!TypeOK

LEMMA QueueCopiesStep == QueueInv /\ [Queue!Next]_(Queue!vars) => QueueCopies'
<1> SUFFICES ASSUME QueueInv, [Queue!Next]_(Queue!vars) PROVE QueueCopies'
  OBVIOUS
<1> USE DEF QueueInv, QueueCopies
<1>0. /\ head_ \in Nat /\ tail_ \in Nat
      /\ Queue!Mask(head_) \in Queue!SlotIds /\ Queue!Mask(tail_) \in Queue!SlotIds
      /\ slots_ \in [Queue!SlotIds -> Queue!Contents]
  BY MaskInSlots DEF Queue!TypeOK
<1>1. CASE \/ \E method \in {"try_push", "push"}, item \in Items : Queue!Call(method, item)
           \/ Queue!SeeRoom \/ Queue!SeeFull
  BY <1>1 DEF Queue!Call, Queue!SeeRoom, Queue!SeeFull, Queue!Mask
<1>2. CASE Queue!BeginCopyIn \/ Queue!EndCopyIn
  <2>1. UNCHANGED <<head_, tail_, first_read, popping, pushing, consumer>>
    BY <1>2 DEF Queue!BeginCopyIn, Queue!EndCopyIn
  <2>2. ASSUME NEW n \in tail_ .. head_ - 1
      PROVE slots_'[Queue!Mask(n)] = slots_[Queue!Mask(n)]
    <3>1. Queue!Mask(n) # Queue!Mask(head_) /\ Queue!Mask(n) \in Queue!SlotIds
      BY <1>2, QueuedElsewhere DEF Queue!BeginCopyIn, Queue!EndCopyIn
    <3> QED
      BY <1>0, <1>2, <3>1 DEF Queue!BeginCopyIn, Queue!EndCopyIn
  <2>3. consumer \in {"copying", "store"}
      => slots_'[Queue!Mask(tail_)] = slots_[Queue!Mask(tail_)]
    BY <1>0, <2>2 DEF QueuePositions
  <2>4. pusher' = "store" => slots_'[Queue!Mask(head_)] = pushing
    BY <1>0, <1>2 DEF Queue!BeginCopyIn, Queue!EndCopyIn
  <2>5. (\A n \in tail_ .. head_ - 1 : slots_[Queue!Mask(n)] \in Items)'
    BY <2>1, <2>2 DEF Queue!Mask
  <2> QED
    BY <2>1, <2>3, <2>4, <2>5 DEF Queue!Mask
<1>3. CASE Queue!StoreHead
  <2>1. slots_[Queue!Mask(head_)] \in Items
    BY <1>3 DEF Queue!StoreHead, QueuePositions
  <2>2. head_' = head_ + 1 /\ UNCHANGED <<slots_, tail_, first_read, popping, consumer>>
    BY <1>3 DEF Queue!StoreHead
  <2>3. ASSUME NEW n \in tail_ .. head_ PROVE slots_[Queue!Mask(n)] \in Items
    BY <1>0, <2>1
  <2>4. (\A n \in tail_ .. head_ - 1 : slots_[Queue!Mask(n)] \in Items)'
    BY <1>0, <2>2, <2>3 DEF Queue!Mask
  <2> QED
    BY <1>3, <2>2, <2>4 DEF Queue!StoreHead, Queue!Mask
<1>4. CASE Queue!TryPop \/ Queue!BeginCopyOut \/ Queue!EndCopyOut
  BY <1>4 DEF Queue!TryPop, Queue!BeginCopyOut, Queue!EndCopyOut, Queue!Mask
<1>5. CASE Queue!StoreTail
  <2>1. tail_' = tail_ + 1 /\ consumer' = "idle"
      /\ UNCHANGED <<slots_, head_, pusher, pushing>>
    BY <1>5 DEF Queue!StoreTail
  <2>2. (\A n \in tail_ .. head_ - 1 : slots_[Queue!Mask(n)] \in Items)'
    BY <1>0, <2>1 DEF Queue!Mask
  <2> QED
    BY <2>1, <2>2 DEF Queue!Mask
<1>6. CASE UNCHANGED Queue!vars
  BY <1>6 DEF Queue!Mask
<1> QED
  BY <1>1, <1>2, <1>3, <1>4, <1>5, <1>6
      DEF Queue!Next, Queue!PushStep, Queue!PopStep, Queue!Drained

LEMMA QueueInit == Queue!Init => QueueInv
<1> SUFFICES ASSUME Queue!Init PROVE QueueInv
  OBVIOUS
<1>1. QueuePositions /\ QueueCopies
  BY CapacityIsPositive DEF Queue!Init, QueuePositions, QueueCopies
<1> QED
  BY <1>1, QueueTypeInit DEF QueueInv

LEMMA QueueStep == QueueInv /\ [Queue!Next]_(Queue!vars) => QueueInv'
  BY QueueTypeStep, QueuePositionsStep, QueueCopiesStep DEF QueueInv

(* The inductive invariant: where the positions may be, and what the slots *)
(* between them hold.                                                      *)
THEOREM QueueInvariance == Queue!Spec => []QueueInv
  BY QueueInit, QueueStep, PTL DEF Queue!Spec

(* The slots are plain memory, and the two threads never copy into and out *)
(* of the same one at the same time.                                       *)
THEOREM SlotsNotShared == Queue!Spec => []Queue!NoSlotShared
<1>1. QueueInv => Queue!NoSlotShared
  <2> SUFFICES ASSUME QueueInv, pusher \in {"copy", "copying"}, consumer \in {"copy",
      "copying"}
               PROVE  Queue!Mask(head_) # Queue!Mask(tail_)
    BY DEF Queue!NoSlotShared
  <2>1. tail_ \in tail_ .. head_ - 1
    BY DEF QueueInv, Queue!TypeOK, QueuePositions
  <2> QED
    BY <2>1, QueuedElsewhere DEF QueueInv
<1> QED
  BY <1>1, QueueInvariance, PTL

-----------------------------------------------------------------------------
(* The refinement: the queue of items between the two positions is a       *)
(* bounded first-in first-out queue. A push takes effect when head_ is     *)
(* stored and a pop when tail_ is; every other step leaves the queue as it *)
(* was, above all the two that copy into a slot.                           *)

\* What is queued is a sequence of items as long as the positions are apart.
QueuedShape ==
    /\ Queue!Queued \in Seq(Items)
    /\ Len(Queue!Queued) = head_ - tail_
    /\ \A k \in 1 .. head_ - tail_ : Queue!Queued[k] = slots_[Queue!Mask(tail_ + k - 1)]

LEMMA QueuedIsSequence == QueueInv => QueuedShape
<1> SUFFICES ASSUME QueueInv PROVE QueuedShape
  OBVIOUS
<1>1. head_ \in Nat /\ tail_ \in Nat /\ head_ - tail_ \in Nat
  BY DEF QueueInv, Queue!TypeOK, QueuePositions
<1>2. ASSUME NEW k \in 1 .. head_ - tail_ PROVE slots_[Queue!Mask(tail_ + k - 1)] \in Items
  <2>1. tail_ + k - 1 \in tail_ .. head_ - 1
    BY <1>1
  <2> QED
    BY <2>1 DEF QueueInv, QueueCopies
<1>3. Queue!Queued \in [1 .. head_ - tail_ -> Items]
  BY <1>2 DEF Queue!Queued
<1>4. Queue!Queued \in Seq(Items)
  BY <1>1, <1>3, SeqDef
<1>5. Len(Queue!Queued) = head_ - tail_
  BY <1>1, <1>3, <1>4, LenProperties
<1> QED
  BY <1>4, <1>5 DEF Queue!Queued, QueuedShape

\* Nothing queued changes unless a position moves.
LEMMA QueuedUnchanged ==
    ASSUME QueueInv, UNCHANGED <<head_, tail_>>,
           \A n \in tail_ .. head_ - 1 : slots_'[Queue!Mask(n)] = slots_[Queue!Mask(n)]
    PROVE  Queue!Queued' = Queue!Queued
<1>1. head_ \in Nat /\ tail_ \in Nat
  BY DEF QueueInv, Queue!TypeOK
<1>2. \A k \in 1 .. head_ - tail_ : tail_ + k - 1 \in tail_ .. head_ - 1
  BY <1>1
<1>3. \A k \in 1 .. head_ - tail_ :
        slots_'[Queue!Mask(tail_ + k - 1)] = slots_[Queue!Mask(tail_ + k - 1)]
  BY <1>2
<1> QED
  BY <1>3 DEF Queue!Queued, Queue!Mask

\* StoreHead appends the item being pushed.
LEMMA StoreHeadPushes == QueueInv /\ QueueInv' /\ Queue!StoreHead => Queue!Fifo!Push(pushing)
<1> SUFFICES ASSUME QueueInv, QueueInv', Queue!StoreHead PROVE Queue!Fifo!Push(pushing)
  OBVIOUS
<1>1. /\ head_' = head_ + 1
      /\ UNCHANGED <<slots_, tail_, popped>>
      /\ slots_[Queue!Mask(head_)] = pushing
      /\ pushing \in Items
      /\ head_ < tail_ + Capacity
  BY DEF Queue!StoreHead, QueueInv, QueueCopies, QueuePositions
<1>2. /\ head_ \in Nat /\ tail_ \in Nat /\ Capacity \in Nat /\ tail_ <= head_
  BY CapacityIsPositive DEF QueueInv, Queue!TypeOK, QueuePositions
<1> DEFINE size == head_ - tail_
<1>3. /\ Queue!Queued \in Seq(Items) /\ Len(Queue!Queued) = size
      /\ \A k \in 1 .. size : Queue!Queued[k] = slots_[Queue!Mask(tail_ + k - 1)]
  BY QueuedIsSequence DEF QueuedShape
<1>4. /\ Queue!Queued' \in Seq(Items) /\ Len(Queue!Queued') = size + 1
      /\ \A k \in 1 .. size + 1 : Queue!Queued'[k] = slots_[Queue!Mask(tail_ + k - 1)]
  <2>1. /\ Queue!Queued' \in Seq(Items) /\ Len(Queue!Queued') = head_' - tail_'
        /\ \A k \in 1 .. head_' - tail_' : Queue!Queued'[k] = slots_'[Queue!Mask(tail_' + k - 1)]
    <3> QueuedShape'
      BY QueuedIsSequence, PTL
    <3> QED
      BY DEF QueuedShape, Queue!Mask
  <2>2. head_' - tail_' = size + 1
    BY <1>1, <1>2
  <2> QED
    BY <1>1, <2>1, <2>2
<1>5. Queue!Queued' = Append(Queue!Queued, pushing)
  <2>1. /\ Append(Queue!Queued, pushing) \in Seq(Items)
        /\ Len(Append(Queue!Queued, pushing)) = size + 1
        /\ \A k \in 1 .. size : Append(Queue!Queued, pushing)[k] = Queue!Queued[k]
        /\ Append(Queue!Queued, pushing)[size + 1] = pushing
    BY <1>1, <1>3, AppendProperties
  <2>2. tail_ + (size + 1) - 1 = head_
    BY <1>2
  <2>3. Queue!Queued'[size + 1] = pushing
    BY <1>1, <1>2, <1>4, <2>2, SMTT(30)
  <2>4. \A k \in 1 .. size + 1 : Queue!Queued'[k] = Append(Queue!Queued, pushing)[k]
    BY <1>2, <1>3, <1>4, <2>1, <2>3
  <2> QED
    BY <1>4, <2>1, <2>4, SeqEqual
<1>6. Len(Queue!Queued) < Capacity
  BY <1>1, <1>2, <1>3
<1> QED
  BY <1>1, <1>5, <1>6 DEF Queue!Fifo!Push

\* StoreTail takes the oldest item off and returns it.
LEMMA StoreTailPops == QueueInv /\ QueueInv' /\ Queue!StoreTail => Queue!Fifo!Pop
<1> SUFFICES ASSUME QueueInv, QueueInv', Queue!StoreTail PROVE Queue!Fifo!Pop
  OBVIOUS
<1>1. /\ tail_' = tail_ + 1
      /\ popped' = popping
      /\ UNCHANGED <<slots_, head_>>
      /\ popping = slots_[Queue!Mask(tail_)]
      /\ tail_ < head_
  BY DEF Queue!StoreTail, QueueInv, QueueCopies, QueuePositions
<1>2. head_ \in Nat /\ tail_ \in Nat
  BY DEF QueueInv, Queue!TypeOK
<1> DEFINE size == head_ - tail_
<1>3. /\ Queue!Queued \in Seq(Items) /\ Len(Queue!Queued) = size
      /\ \A k \in 1 .. size : Queue!Queued[k] = slots_[Queue!Mask(tail_ + k - 1)]
  BY QueuedIsSequence DEF QueuedShape
<1>4. /\ Queue!Queued' \in Seq(Items) /\ Len(Queue!Queued') = size - 1
      /\ \A k \in 1 .. size - 1 : Queue!Queued'[k] = slots_[Queue!Mask(tail_ + k)]
  <2>1. /\ Queue!Queued' \in Seq(Items) /\ Len(Queue!Queued') = head_' - tail_'
        /\ \A k \in 1 .. head_' - tail_' : Queue!Queued'[k] = slots_'[Queue!Mask(tail_' + k - 1)]
    <3> QueuedShape'
      BY QueuedIsSequence, PTL
    <3> QED
      BY DEF QueuedShape, Queue!Mask
  <2>2. head_' - tail_' = size - 1
    BY <1>1, <1>2
  <2>3. \A k \in 1 .. size - 1 : tail_' + k - 1 = tail_ + k
    BY <1>1, <1>2
  <2> QED
    BY <1>1, <2>1, <2>2, <2>3
<1>5. Queue!Queued # <<>>
  BY <1>1, <1>2, <1>3, EmptySeq
<1>6. popped' = Head(Queue!Queued)
  <2>1. Head(Queue!Queued) = Queue!Queued[1]
    BY <1>3, <1>5, HeadTailProperties
  <2>2. Queue!Queued[1] = slots_[Queue!Mask(tail_ + 1 - 1)] /\ tail_ + 1 - 1 = tail_
    BY <1>1, <1>2, <1>3
  <2> QED
    BY <1>1, <2>1, <2>2
<1>7. Queue!Queued' = Tail(Queue!Queued)
  <2>1. /\ Tail(Queue!Queued) \in Seq(Items)
        /\ Len(Tail(Queue!Queued)) = size - 1
        /\ \A k \in 1 .. size - 1 : Tail(Queue!Queued)[k] = Queue!Queued[k + 1]
    BY <1>3, <1>5, HeadTailProperties
  <2>2. \A k \in 1 .. size - 1 : Queue!Queued[k + 1] = slots_[Queue!Mask(tail_ + k)]
    <3>1. \A k \in 1 .. size - 1 : k + 1 \in 1 .. size /\ tail_ + (k + 1) - 1 = tail_ + k
      BY <1>2
    <3> QED
      BY <1>3, <3>1
  <2>3. \A k \in 1 .. size - 1 : Queue!Queued'[k] = Tail(Queue!Queued)[k]
    BY <1>4, <2>1, <2>2
  <2> QED
    BY <1>4, <2>1, <2>3, SeqEqual
<1> QED
  BY <1>5, <1>6, <1>7 DEF Queue!Fifo!Pop

LEMMA FifoInit == Queue!Init => Queue!Fifo!Init
<1> SUFFICES ASSUME Queue!Init PROVE Queue!Fifo!Init
  OBVIOUS
<1>1. Len(Queue!Queued) = 0 /\ Queue!Queued \in Seq(Items)
  BY QueueInit, QueuedIsSequence DEF Queue!Init, QueuedShape
<1> QED
  BY <1>1, EmptySeq DEF Queue!Init, Queue!Fifo!Init

\* What each step does to the queue.
LEMMA FifoMoves ==
    ASSUME QueueInv, QueueInv', [Queue!Next]_(Queue!vars)
    PROVE  \/ pushing \in Items /\ Queue!Fifo!Push(pushing)
           \/ Queue!Fifo!Pop
           \/ UNCHANGED Queue!Fifo!fifoVars
<1>1. CASE Queue!StoreHead
  <2>1. pushing \in Items
    BY <1>1 DEF Queue!StoreHead, QueueInv, QueuePositions
  <2> QED
    BY <1>1, <2>1, StoreHeadPushes
<1>2. CASE Queue!StoreTail
  BY <1>2, StoreTailPops
<1>3. CASE Queue!BeginCopyIn \/ Queue!EndCopyIn
  <2>1. ASSUME NEW n \in tail_ .. head_ - 1
      PROVE slots_'[Queue!Mask(n)] = slots_[Queue!Mask(n)]
    <3>1. Queue!Mask(n) # Queue!Mask(head_) /\ Queue!Mask(n) \in Queue!SlotIds
      BY <1>3, QueuedElsewhere DEF Queue!BeginCopyIn, Queue!EndCopyIn, QueueInv
    <3> QED
      BY <1>3, <3>1 DEF Queue!BeginCopyIn, Queue!EndCopyIn, QueueInv, Queue!TypeOK
  <2>2. UNCHANGED <<head_, tail_, popped>>
    BY <1>3 DEF Queue!BeginCopyIn, Queue!EndCopyIn
  <2> QED
    BY <2>1, <2>2, QueuedUnchanged DEF Queue!Fifo!fifoVars
<1>4. CASE \/ \E method \in {"try_push", "push"}, item \in Items : Queue!Call(method, item)
           \/ Queue!SeeRoom \/ Queue!SeeFull \/ Queue!TryPop \/ Queue!BeginCopyOut \/ Queue!EndCopyOut
           \/ UNCHANGED Queue!vars
  <2>1. UNCHANGED <<slots_, head_, tail_, popped>>
    BY <1>4 DEF Queue!Call, Queue!SeeRoom, Queue!SeeFull, Queue!TryPop, Queue!BeginCopyOut,
        Queue!EndCopyOut
  <2> QED
    BY <2>1, QueuedUnchanged DEF Queue!Fifo!fifoVars
<1> QED
  BY <1>1, <1>2, <1>3, <1>4 DEF Queue!Next, Queue!PushStep, Queue!PopStep, Queue!Drained

LEMMA FifoStep == QueueInv /\ QueueInv' /\ [Queue!Next]_(Queue!vars)
    => [Queue!Fifo!Next]_(Queue!Fifo!fifoVars)
  BY FifoMoves DEF Queue!Fifo!Next

\* A push puts the argument of the call at the end of the queue.
LEMMA FifoArgument ==
    ASSUME QueueInv, QueueInv', [Queue!Next]_(Queue!vars),
           NEW item \in Items, Queue!Fifo!Push(item)
    PROVE  item = pushing
<1> DEFINE size == Len(Queue!Queued)
<1>1. Queue!Queued \in Seq(Items) /\ size \in Nat
  BY QueuedIsSequence, LenProperties DEF QueuedShape
<1>2. /\ Queue!Queued' = Append(Queue!Queued, item)
      /\ Len(Queue!Queued') = size + 1 /\ Queue!Queued'[size + 1] = item
  BY <1>1, AppendProperties DEF Queue!Fifo!Push
<1>3. CASE pushing \in Items /\ Queue!Fifo!Push(pushing)
  <2>1. Queue!Queued' = Append(Queue!Queued, pushing)
    BY <1>3 DEF Queue!Fifo!Push
  <2>2. Queue!Queued'[size + 1] = pushing
    BY <1>1, <1>3, <2>1, AppendProperties
  <2> QED
    BY <1>2, <2>2
<1>4. CASE Queue!Fifo!Pop
  <2>1. Queue!Queued # <<>> /\ Queue!Queued' = Tail(Queue!Queued)
    BY <1>4 DEF Queue!Fifo!Pop
  <2>2. Len(Queue!Queued') = size - 1
    BY <1>1, <2>1, HeadTailProperties
  <2> QED
    BY <1>1, <1>2, <2>2
<1>5. CASE UNCHANGED Queue!Fifo!fifoVars
  <2>1. Queue!Queued' = Queue!Queued
    BY <1>5 DEF Queue!Fifo!fifoVars
  <2> QED
    BY <1>1, <1>2, <2>1
<1> QED
  BY <1>3, <1>4, <1>5, FifoMoves

(* However the two threads' accesses interleave, the ring is a bounded     *)
(* first-in first-out queue: nothing pushed is lost, popped twice, mixed   *)
(* with another item or overtaken, and a call pushes what it was given.    *)
THEOREM ImplementsFifo == Queue!Spec => Queue!IsBoundedFifo
<1>1. QueueInv /\ QueueInv' /\ [Queue!Next]_(Queue!vars)
          => [\A item \in Items : Queue!Fifo!Push(item) => item = pushing]_(Queue!vars)
  BY FifoArgument
<1> QED
  BY <1>1, FifoInit, FifoStep, QueueInvariance, PTL
     DEF Queue!Spec, Queue!IsBoundedFifo, Queue!Fifo!Spec

=============================================================================
