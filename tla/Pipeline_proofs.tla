--------------------------- MODULE Pipeline_proofs ---------------------------
(***************************************************************************)
(* The broadcast pipeline for every number of threads and of orders, every *)
(* sharding, every ring size and every sampling rate: how its threads      *)
(* leave, what they read, and that it is a sharded delivery for as long as *)
(* no thread is lapped.                                                    *)
(***************************************************************************)
EXTENDS Pipeline, RingsAndSequences

USE DEF journalVars, producerVars, workVars, threadVars, fixedVars, vars

\* How many sequences have had their copy into the ring started.
Begun == IF producer \in {"copy", "store"} THEN published_index_ + 1 ELSE published_index_

\* A cursor follows its last poll, a poll the index, and the index the input.
Bounds ==
    /\ published_index_ <= NumOrders
    /\ producer \in {"publish", "copy", "store"} => published_index_ < NumOrders
    /\ \A t \in Consumers :
          /\ local_seq[t] <= published[t] /\ published[t] <= published_index_
          /\ reader[t] = "apply" => local_seq[t] < published[t]

\* The flag is up exactly when the producer is past its loop, so that a thread
\* that has seen it and then loads the index loads its last value.
Done ==
    /\ producer_done <=> producer \in {"join", "returned"}
    /\ producer_done => published_index_ = NumOrders
    /\ \A t \in Consumers :
          /\ reader[t] = "recheck" => producer_done
          /\ reader[t] = "gone" => producer_done /\ local_seq[t] = NumOrders

\* What is published, or about to be, is stamped.
Stamped ==
    measure_latency =>
        /\ \A s \in Orders : s < published_index_ => publish_ts[s]
        /\ producer \in {"publish", "copy", "store"} => publish_ts[published_index_]

\* A content that may stand in the slot of sequence s once s has reached it.
NotOlder(content, s) == content = Torn \/ (content \in Nat /\ s <= content)

\* The slot of a sequence never goes back to an older one.
Newer ==
    /\ \A s \in Nat : s < Begun => NotOlder(Payload(s), s)
    /\ \A t \in Consumers : reader[t] = "apply" => NotOlder(first_read[t], local_seq[t])

\* As long as no thread is lapped the ring holds all that the threads still need,
\* and each of them has applied the orders of its shard below its cursor.
Exact ==
    ~lapped =>
        /\ producer = "store" => Payload(published_index_) = published_index_
        /\ \A t \in Consumers :
              /\ Begun <= local_seq[t] + Capacity
              /\ \A s \in local_seq[t] .. published_index_ - 1 : Payload(s) = s
              /\ reader[t] = "apply" => first_read[t] = local_seq[t] /\ local_seq[t] \in Own(t)
              /\ Range(applied[t]) = {s \in Own(t) : s < local_seq[t]}

Inv == TypeOK /\ Bounds /\ Done /\ Stamped /\ Newer /\ Exact

-----------------------------------------------------------------------------
(* Type correctness.                                                       *)

LEMMA TypeInit == Init => TypeOK
<1> SUFFICES ASSUME Init PROVE TypeOK
  OBVIOUS
<1>1. JournalTypeOK
  BY DEF Init, JournalInit, JournalTypeOK
<1>2. applied \in [Consumers -> Seq(Contents)]
  BY EmptySeq DEF Init
<1>3. first_read \in [Consumers -> Contents]
  BY DEF Init, Contents
<1> QED
  BY <1>1, <1>2, <1>3 DEF Init, TypeOK

\* Applying appends something a slot may hold.
LEMMA ApplyReads ==
    ASSUME TypeOK, NEW t \in Consumers, NEW content \in WhatApplyReads(t)
    PROVE  content \in Contents
<1>1. SlotOf(local_seq[t]) \in SlotIds
  BY CapacityAssumption, ModInRing DEF SlotOf, SlotIds, TypeOK
<1>2. Payload(local_seq[t]) \in Contents /\ first_read[t] \in Contents
  BY <1>1 DEF Payload, TypeOK, JournalTypeOK, Contents
<1> QED
  BY <1>2 DEF WhatApplyReads, Contents

LEMMA TypeStep == TypeOK /\ Bounds /\ [Next]_vars => TypeOK'
<1> SUFFICES ASSUME TypeOK, Bounds, [Next]_vars PROVE TypeOK'
  OBVIOUS
<1> USE DEF TypeOK, JournalTypeOK, Goto
<1>1. CASE Stamp
  BY <1>1, NumOrdersAssumption DEF Stamp, StampedOrder, Orders
<1>2. CASE Publish
  BY <1>2 DEF Publish, BeginCopy
<1>3. CASE FinishCopy
  BY <1>3 DEF FinishCopy, EndCopy
<1>4. CASE StorePublished
  BY <1>4 DEF StorePublished, StoreIndex
<1>5. CASE SetDone
  BY <1>5 DEF SetDone, DoneFlag
<1>6. CASE Join
  BY <1>6 DEF Join
<1>7. ASSUME NEW t \in Consumers, Poll(t) \/ CheckDone(t) \/ Recheck(t) PROVE TypeOK'
  BY <1>7, ZenonT(40) DEF Poll, CheckDone, Recheck, IndexNow
<1>8. ASSUME NEW t \in Consumers, TakeOrder(t) PROVE TypeOK'
  <2>1. SlotOf(local_seq[t]) \in SlotIds
    BY CapacityAssumption, ModInRing DEF SlotOf, SlotIds
  <2>2. Payload(local_seq[t]) \in Contents
    BY <2>1 DEF Payload, Contents
  <2> QED
    BY <1>8, <2>2 DEF TakeOrder
<1>9. ASSUME NEW t \in Consumers, SkipOrder(t) PROVE TypeOK'
  BY <1>9 DEF SkipOrder
<1>10. ASSUME NEW t \in Consumers, Apply(t) PROVE TypeOK'
  <2>1. PICK content \in WhatApplyReads(t) :
            applied' = [applied EXCEPT ![t] = Append(@, content)]
    BY <1>10 DEF Apply
  <2>2. applied[t] \in Seq(Contents) /\ content \in Contents
    BY ApplyReads
  <2>3. applied' \in [Consumers -> Seq(Contents)]
    BY <2>1, <2>2, AppendProperties
  <2>4. latency' \subseteq Nat
    <3>1. latency' = latency \/ latency' = latency \union {local_seq[t]}
      BY <1>10 DEF Apply
    <3>2. local_seq[t] \in Nat
      OBVIOUS
    <3> QED
      BY <3>1, <3>2
  <2>5. first_read' \in [Consumers -> Contents]
    BY <1>10 DEF Apply, Contents
  <2> QED
    BY <1>10, <2>3, <2>4, <2>5 DEF Apply
<1>11. ASSUME NEW t \in Consumers, EndOfBatch(t) PROVE TypeOK'
  BY <1>11 DEF EndOfBatch
<1>12. ASSUME NEW t \in Consumers, LoadMin(t) \/ Retry(t) PROVE TypeOK'
  BY <1>12, ZenonT(40) DEF LoadMin, Retry, ReportLoad, ReportRetry, NextReportStep
<1>13. ASSUME NEW t \in Consumers, Exchange(t) PROVE TypeOK'
  BY <1>13 DEF Exchange, ReportExchange
<1>14. CASE UNCHANGED vars
  BY <1>14
<1> QED
  BY <1>1, <1>2, <1>3, <1>4, <1>5, <1>6, <1>7, <1>8, <1>9, <1>10, <1>11, <1>12,
     <1>13, <1>14 DEF Next, ProducerStep, ThreadStep, Returned

-----------------------------------------------------------------------------
(* The inductive invariant, part by part.                                  *)

LEMMA BoundsStep == TypeOK /\ Bounds /\ [Next]_vars => Bounds'
<1> SUFFICES ASSUME TypeOK, Bounds, [Next]_vars PROVE Bounds'
  OBVIOUS
<1> USE NumOrdersAssumption DEF TypeOK, JournalTypeOK, Bounds, Goto
<1>1. CASE Stamp \/ Join \/ SetDone
  BY <1>1 DEF Stamp, Join, SetDone
<1>2. CASE Publish
  BY <1>2 DEF Publish, BeginCopy
<1>3. CASE FinishCopy
  BY <1>3 DEF FinishCopy, EndCopy
<1>4. CASE StorePublished
  BY <1>4 DEF StorePublished, StoreIndex
<1>5. ASSUME NEW t \in Consumers, Poll(t) PROVE Bounds'
  BY <1>5 DEF Poll
<1>6. ASSUME NEW t \in Consumers, CheckDone(t) \/ Recheck(t) PROVE Bounds'
  BY <1>6 DEF CheckDone, Recheck
<1>7. ASSUME NEW t \in Consumers, TakeOrder(t) PROVE Bounds'
  BY <1>7 DEF TakeOrder
<1>8. ASSUME NEW t \in Consumers, SkipOrder(t) PROVE Bounds'
  BY <1>8 DEF SkipOrder
<1>9. ASSUME NEW t \in Consumers, Apply(t) PROVE Bounds'
  BY <1>9 DEF Apply
<1>10. ASSUME NEW t \in Consumers, EndOfBatch(t) PROVE Bounds'
  BY <1>10 DEF EndOfBatch
<1>11. ASSUME NEW t \in Consumers, LoadMin(t) \/ Exchange(t) \/ Retry(t) PROVE Bounds'
  BY <1>11 DEF LoadMin, Exchange, Retry, ReportLoad, ReportExchange, ReportRetry,
              NextReportStep
<1>12. CASE UNCHANGED vars
  BY <1>12
<1> QED
  BY <1>1, <1>2, <1>3, <1>4, <1>5, <1>6, <1>7, <1>8, <1>9, <1>10, <1>11, <1>12
     DEF Next, ProducerStep, ThreadStep, Returned

LEMMA DoneStep == TypeOK /\ Bounds /\ Done /\ [Next]_vars => Done'
<1> SUFFICES ASSUME TypeOK, Bounds, Done, [Next]_vars PROVE Done'
  OBVIOUS
<1> USE NumOrdersAssumption DEF TypeOK, JournalTypeOK, Bounds, Done, Goto
<1>1. CASE Stamp \/ Join
  BY <1>1 DEF Stamp, Join
<1>2. CASE SetDone
  BY <1>2 DEF SetDone, DoneFlag
<1>3. CASE Publish \/ FinishCopy
  BY <1>3 DEF Publish, BeginCopy, FinishCopy, EndCopy
<1>4. CASE StorePublished
  BY <1>4 DEF StorePublished, StoreIndex
<1>5. ASSUME NEW t \in Consumers, Poll(t) \/ CheckDone(t) PROVE Done'
  BY <1>5 DEF Poll, CheckDone
<1>6. ASSUME NEW t \in Consumers, Recheck(t) PROVE Done'
  BY <1>6 DEF Recheck, IndexNow
<1>7. ASSUME NEW t \in Consumers, TakeOrder(t) \/ SkipOrder(t) \/ Apply(t) PROVE Done'
  BY <1>7, SMTT(30) DEF TakeOrder, SkipOrder, Apply
<1>8. ASSUME NEW t \in Consumers, EndOfBatch(t) PROVE Done'
  BY <1>8 DEF EndOfBatch
<1>9. ASSUME NEW t \in Consumers, LoadMin(t) \/ Exchange(t) \/ Retry(t) PROVE Done'
  <2>1. CASE LoadMin(t)
    BY <2>1 DEF LoadMin, ReportLoad, NextReportStep
  <2>2. CASE Exchange(t)
    BY <2>2 DEF Exchange, ReportExchange
  <2>3. CASE Retry(t)
    BY <2>3 DEF Retry, ReportRetry, NextReportStep
  <2> QED
    BY <1>9, <2>1, <2>2, <2>3
<1>10. CASE UNCHANGED vars
  BY <1>10
<1> QED
  BY <1>1, <1>2, <1>3, <1>4, <1>5, <1>6, <1>7, <1>8, <1>9, <1>10
     DEF Next, ProducerStep, ThreadStep, Returned

LEMMA StampedStep == TypeOK /\ Bounds /\ Stamped /\ [Next]_vars => Stamped'
<1> SUFFICES ASSUME TypeOK, Bounds, Stamped, [Next]_vars PROVE Stamped'
  OBVIOUS
<1> USE NumOrdersAssumption DEF TypeOK, JournalTypeOK, Bounds, Stamped
<1>1. CASE Stamp
  BY <1>1 DEF Stamp, StampedOrder, Orders
<1>2. CASE Publish \/ FinishCopy
  BY <1>2 DEF Publish, BeginCopy, FinishCopy, EndCopy
<1>3. CASE StorePublished
  BY <1>3 DEF StorePublished, StoreIndex, Orders
<1>4. CASE SetDone \/ Join
  BY <1>4 DEF SetDone, Join
<1>5. ASSUME NEW t \in Consumers, ThreadStep(t) PROVE Stamped'
  <2>1. UNCHANGED <<measure_latency, publish_ts, published_index_, producer>>
    BY <1>5 DEF ThreadStep, Poll, CheckDone, Recheck, TakeOrder, SkipOrder, Apply,
                EndOfBatch, LoadMin, Exchange, Retry, ReportLoad, ReportExchange,
                ReportRetry, Goto
  <2> QED
    BY <2>1
<1>6. CASE UNCHANGED vars
  BY <1>6
<1> QED
  BY <1>1, <1>2, <1>3, <1>4, <1>5, <1>6 DEF Next, ProducerStep, Returned

\* What a thread finds in the slot of its cursor.
LEMMA SlotIsNotOlder ==
    ASSUME TypeOK, Bounds, Newer, NEW t \in Consumers,
           local_seq[t] < published[t]
    PROVE  NotOlder(Payload(local_seq[t]), local_seq[t])
<1>1. local_seq[t] \in Nat /\ local_seq[t] < Begun
  BY DEF TypeOK, JournalTypeOK, Bounds, Begun
<1> QED
  BY <1>1 DEF Newer

LEMMA NewerStep == TypeOK /\ Bounds /\ Newer /\ [Next]_vars => Newer'
<1> SUFFICES ASSUME TypeOK, Bounds, Newer, [Next]_vars PROVE Newer'
  OBVIOUS
<1>0. /\ published_index_ \in Nat
      /\ \A s \in Nat : SlotOf(s) \in SlotIds
      /\ DOMAIN journal_ = SlotIds
  BY CapacityAssumption, ModInRing DEF SlotOf, SlotIds, TypeOK, JournalTypeOK
<1>1. CASE ProducerStep
  <2>1. /\ UNCHANGED <<first_read, local_seq, reader>>
        /\ (\A s \in Nat : s < Begun => NotOlder(Payload(s), s))'
    <3>1. CASE Stamp \/ SetDone \/ Join
      BY <3>1 DEF Stamp, SetDone, Join, Newer, Begun, Payload
    <3>2. CASE Publish
      <4>1. ASSUME NEW s \in Nat, s < published_index_ + 1
            PROVE  NotOlder(journal_'[SlotOf(s)], s)
        <5>1. CASE SlotOf(s) = SlotOf(published_index_)
          BY <1>0, <3>2, <5>1 DEF Publish, BeginCopy, NotOlder
        <5>2. CASE SlotOf(s) # SlotOf(published_index_)
          <6>1. s < Begun
            BY <1>0, <3>2, <4>1, <5>2 DEF Publish, Begun
          <6>2. NotOlder(journal_[SlotOf(s)], s)
            BY <6>1 DEF Newer, Payload
          <6>3. journal_'[SlotOf(s)] = journal_[SlotOf(s)]
            BY <1>0, <3>2, <5>2 DEF Publish, BeginCopy
          <6> QED
            BY <6>2, <6>3
        <5> QED
          BY <5>1, <5>2
      <4>2. Begun' = published_index_ + 1
        BY <3>2 DEF Publish, BeginCopy, Begun
      <4> QED
        BY <3>2, <4>1, <4>2 DEF Publish, BeginCopy, Payload, SlotOf
    <3>3. CASE FinishCopy
      <4>1. ASSUME NEW s \in Nat, s < published_index_ + 1
            PROVE  NotOlder(journal_'[SlotOf(s)], s)
        <5>1. CASE SlotOf(s) = SlotOf(published_index_)
          BY <1>0, <3>3, <4>1, <5>1 DEF FinishCopy, EndCopy, NotOlder
        <5>2. CASE SlotOf(s) # SlotOf(published_index_)
          <6>1. s < Begun
            BY <3>3, <4>1 DEF FinishCopy, Begun
          <6>2. NotOlder(journal_[SlotOf(s)], s)
            BY <6>1 DEF Newer, Payload
          <6>3. journal_'[SlotOf(s)] = journal_[SlotOf(s)]
            BY <1>0, <3>3, <5>2 DEF FinishCopy, EndCopy
          <6> QED
            BY <6>2, <6>3
        <5> QED
          BY <5>1, <5>2
      <4>2. Begun' = published_index_ + 1
        BY <3>3 DEF FinishCopy, EndCopy, Begun
      <4> QED
        BY <3>3, <4>1, <4>2 DEF FinishCopy, EndCopy, Payload, SlotOf
    <3>4. CASE StorePublished
      BY <3>4 DEF StorePublished, StoreIndex, Newer, Begun, Payload
    <3> QED
      BY <1>1, <3>1, <3>2, <3>3, <3>4
         DEF ProducerStep, Stamp, Publish, FinishCopy, StorePublished, SetDone, Join
  <2> QED
    BY <2>1 DEF Newer
<1>2. ASSUME NEW t \in Consumers, ThreadStep(t) PROVE Newer'
  <2>1. /\ UNCHANGED <<journal_, published_index_, producer>>
        /\ \A u \in Consumers \ {t} :
              /\ local_seq'[u] = local_seq[u] /\ first_read'[u] = first_read[u]
              /\ reader'[u] = reader[u]
    BY <1>2 DEF TypeOK, ThreadStep, Poll, CheckDone, Recheck, TakeOrder, SkipOrder, Apply,
                EndOfBatch, LoadMin, Exchange, Retry, ReportLoad, ReportExchange,
                ReportRetry, Goto
  <2>2. ASSUME reader'[t] = "apply" PROVE NotOlder(first_read'[t], local_seq'[t])
    <3>1. TakeOrder(t)
      BY <1>2, <2>2 DEF TypeOK, ThreadStep, Poll, CheckDone, Recheck, SkipOrder, Apply,
                EndOfBatch, LoadMin, Exchange, Retry, NextReportStep, Goto
    <3>2. /\ local_seq'[t] = local_seq[t] /\ first_read'[t] = Payload(local_seq[t])
          /\ local_seq[t] < published[t]
      BY <3>1 DEF TakeOrder, TypeOK
    <3> QED
      BY <3>2, SlotIsNotOlder
  <2>3. \A u \in Consumers : reader'[u] = "apply" => NotOlder(first_read'[u], local_seq'[u])
    BY <2>1, <2>2 DEF Newer
  <2>4. \A s \in Nat : s < Begun' => NotOlder(Payload(s)', s)
    BY <2>1 DEF Newer, Begun, Payload
  <2> QED
    BY <2>3, <2>4 DEF Newer, NotOlder
<1>3. CASE UNCHANGED vars
  BY <1>3 DEF Newer, Begun, Payload, NotOlder
<1> QED
  BY <1>1, <1>2, <1>3 DEF Next, Returned

-----------------------------------------------------------------------------
(* As long as nobody is lapped.                                            *)

\* A slot that is written lies outside what a thread still needs.
LEMMA UnreadElsewhere ==
    ASSUME TypeOK, NEW t \in Consumers, NEW s \in local_seq[t] .. published_index_ - 1,
           published_index_ + 1 <= local_seq[t] + Capacity
    PROVE  SlotOf(s) # SlotOf(published_index_) /\ SlotOf(s) \in SlotIds
<1>1. /\ s \in Nat /\ published_index_ \in Nat
      /\ s < published_index_ /\ published_index_ < s + Capacity
  BY CapacityAssumption DEF TypeOK, JournalTypeOK
<1> QED
  BY <1>1, CapacityAssumption, ModDistinct, ModInRing DEF SlotOf, SlotIds

\* Once a thread is lapped it stays so.
LEMMA NotLapped ==
    ASSUME TypeOK, ProducerStep, ~lapped'
    PROVE  ~lapped /\ (Publish => ~Laps(published_index_))
<1>1. CASE Publish
  <2>1. lapped' = (lapped \/ Laps(published_index_))
    BY <1>1 DEF Publish
  <2>2. ~(lapped \/ Laps(published_index_))
    BY <2>1, Zenon
  <2> QED
    BY <2>2
<1>2. CASE ~Publish
  BY <1>2 DEF ProducerStep, Stamp, FinishCopy, StorePublished, SetDone, Join
<1> QED
  BY <1>1, <1>2

LEMMA ExactProducerStep == TypeOK /\ Bounds /\ Exact /\ ProducerStep => Exact'
<1> SUFFICES ASSUME TypeOK, Bounds, Exact, ProducerStep, ~lapped' PROVE Exact'
  BY DEF Exact
<1>0. /\ ~lapped
      /\ UNCHANGED <<reader, local_seq, first_read, applied>>
  BY NotLapped DEF ProducerStep, Stamp, Publish, FinishCopy, StorePublished, SetDone, Join
<1>1. /\ published_index_ \in Nat /\ SlotOf(published_index_) \in SlotIds
      /\ \A t \in Consumers : local_seq[t] \in Nat
      /\ Capacity \in Nat
  BY CapacityAssumption, ModInRing DEF SlotOf, SlotIds, TypeOK, JournalTypeOK
<1>2. ASSUME NEW t \in Consumers
      PROVE  /\ Begun <= local_seq[t] + Capacity
             /\ \A s \in local_seq[t] .. published_index_ - 1 : journal_[SlotOf(s)] = s
  BY <1>0 DEF Exact, Payload
<1> SUFFICES /\ producer' = "store" => journal_'[SlotOf(published_index_')] = published_index_'
             /\ \A t \in Consumers :
                  /\ Begun' <= local_seq[t] + Capacity
                  /\ \A s \in local_seq[t] .. published_index_' - 1 :
                        journal_'[SlotOf(s)] = s
  BY <1>0 DEF Exact, Payload, SlotOf, Own, Orders
<1>3. CASE Stamp \/ SetDone \/ Join
  BY <1>2, <1>3 DEF Stamp, SetDone, Join, Begun
<1>4. CASE Publish
  <2>1. ASSUME NEW t \in Consumers PROVE published_index_ + 1 <= local_seq[t] + Capacity
    BY <1>1, <1>4, NotLapped DEF Laps
  <2>2. ASSUME NEW t \in Consumers, NEW s \in local_seq[t] .. published_index_ - 1
        PROVE  journal_'[SlotOf(s)] = s
    <3>1. SlotOf(s) # SlotOf(published_index_) /\ SlotOf(s) \in SlotIds
      BY <2>1, UnreadElsewhere
    <3> QED
      BY <1>2, <1>4, <3>1 DEF Publish, BeginCopy, TypeOK, JournalTypeOK
  <2> QED
    BY <1>4, <2>1, <2>2 DEF Publish, BeginCopy, Begun
<1>5. CASE FinishCopy
  <2>1. ASSUME NEW t \in Consumers PROVE published_index_ + 1 <= local_seq[t] + Capacity
    BY <1>2, <1>5 DEF FinishCopy, Begun
  <2>2. ASSUME NEW t \in Consumers, NEW s \in local_seq[t] .. published_index_ - 1
        PROVE  journal_'[SlotOf(s)] = s
    <3>1. SlotOf(s) # SlotOf(published_index_) /\ SlotOf(s) \in SlotIds
      BY <2>1, UnreadElsewhere
    <3> QED
      BY <1>2, <1>5, <3>1 DEF FinishCopy, EndCopy, TypeOK, JournalTypeOK
  <2>3. journal_'[SlotOf(published_index_)] = published_index_
    BY <1>1, <1>5 DEF FinishCopy, EndCopy, TypeOK, JournalTypeOK
  <2> QED
    BY <1>5, <2>1, <2>2, <2>3 DEF FinishCopy, EndCopy, Begun
<1>6. CASE StorePublished
  <2>1. journal_[SlotOf(published_index_)] = published_index_
    BY <1>0, <1>6 DEF StorePublished, Exact, Payload
  <2>2. published_index_' = published_index_ + 1 /\ journal_' = journal_
        /\ producer' = "stamp" /\ producer = "store"
    BY <1>6 DEF StorePublished, StoreIndex
  <2>3. ASSUME NEW t \in Consumers, NEW s \in local_seq[t] .. published_index_' - 1
        PROVE  journal_'[SlotOf(s)] = s
    BY <1>1, <1>2, <2>1, <2>2
  <2>4. Begun' = Begun
    BY <2>2 DEF Begun
  <2> QED
    BY <1>2, <2>2, <2>3, <2>4
<1> QED
  BY <1>3, <1>4, <1>5, <1>6 DEF ProducerStep

\* What a thread that has not been lapped reads, in the ring and once more.
LEMMA ReadsItsOwn ==
    ASSUME TypeOK, Bounds, Exact, ~lapped, NEW t \in Consumers, local_seq[t] < published[t]
    PROVE  /\ Payload(local_seq[t]) = local_seq[t]
           /\ local_seq[t] \in Nat /\ local_seq[t] # Torn
           /\ MayBeMine(t, Payload(local_seq[t])) => local_seq[t] \in Own(t)
           /\ MayBeForeign(t, Payload(local_seq[t])) => local_seq[t] \notin Own(t)
           /\ reader[t] = "apply" => WhatApplyReads(t) = {local_seq[t]}
<1>1. local_seq[t] \in Nat /\ local_seq[t] # Torn
  BY MarkerAssumption DEF TypeOK
<1>2. local_seq[t] \in local_seq[t] .. published_index_ - 1
  BY <1>1 DEF TypeOK, JournalTypeOK, Bounds
<1>3. Payload(local_seq[t]) = local_seq[t]
  BY <1>2 DEF Exact
<1>4. reader[t] = "apply" => first_read[t] = local_seq[t]
  BY DEF Exact
<1> QED
  BY <1>1, <1>3, <1>4 DEF MayBeMine, MayBeForeign, WhatApplyReads

LEMMA ExactThreadStep ==
    ASSUME TypeOK, Bounds, Exact, NEW t \in Consumers, ThreadStep(t)
    PROVE  Exact'
<1> SUFFICES ASSUME ~lapped' PROVE Exact'
  BY DEF Exact
<1>0. /\ ~lapped
      /\ UNCHANGED <<journal_, published_index_, producer>>
      /\ \A u \in Consumers \ {t} :
            /\ local_seq'[u] = local_seq[u] /\ first_read'[u] = first_read[u]
            /\ reader'[u] = reader[u] /\ applied'[u] = applied[u]
  BY DEF TypeOK, ThreadStep, Poll, CheckDone, Recheck, TakeOrder, SkipOrder, Apply,
         EndOfBatch, LoadMin, Exchange, Retry, ReportLoad, ReportExchange,
         ReportRetry, Goto
<1>1. /\ \A u \in Consumers : local_seq[u] \in Nat
      /\ published_index_ \in Nat /\ Capacity \in Nat /\ Begun \in Nat
  BY CapacityAssumption DEF TypeOK, JournalTypeOK, Begun
<1>2. /\ producer = "store" => Payload(published_index_) = published_index_
      /\ \A u \in Consumers :
            /\ Begun <= local_seq[u] + Capacity
            /\ \A s \in local_seq[u] .. published_index_ - 1 : Payload(s) = s
            /\ reader[u] = "apply" => first_read[u] = local_seq[u] /\ local_seq[u] \in Own(u)
            /\ Range(applied[u]) = {s \in Own(u) : s < local_seq[u]}
  BY <1>0 DEF Exact
<1> SUFFICES /\ local_seq'[t] \in {local_seq[t], local_seq[t] + 1}
             /\ reader'[t] = "apply" =>
                    first_read'[t] = local_seq'[t] /\ local_seq'[t] \in Own(t)
             /\ Range(applied'[t]) = {s \in Own(t) : s < local_seq'[t]}
  <2>1. Begun' = Begun
    BY <1>0 DEF Begun
  <2>2. ASSUME NEW u \in Consumers
        PROVE  /\ Begun <= local_seq'[u] + Capacity
               /\ \A s \in local_seq'[u] .. published_index_ - 1 : Payload(s) = s
    BY <1>0, <1>1, <1>2
  <2>3. ASSUME NEW u \in Consumers
        PROVE  /\ reader'[u] = "apply" => first_read'[u] = local_seq'[u] /\ local_seq'[u] \in Own(u)
               /\ Range(applied'[u]) = {s \in Own(u) : s < local_seq'[u]}
    BY <1>0, <1>2
  <2> QED
    BY <1>0, <1>2, <2>1, <2>2, <2>3 DEF Exact, Payload
<1>3. CASE TakeOrder(t)
  <2>1. /\ local_seq' = local_seq /\ applied' = applied
        /\ first_read'[t] = Payload(local_seq[t])
        /\ local_seq[t] < published[t] /\ MayBeMine(t, Payload(local_seq[t]))
    BY <1>3 DEF TakeOrder, TypeOK
  <2> QED
    BY <1>0, <1>2, <2>1, ReadsItsOwn
<1>4. CASE SkipOrder(t)
  <2>1. /\ local_seq'[t] = local_seq[t] + 1 /\ applied' = applied /\ reader'[t] = "drain"
        /\ local_seq[t] < published[t] /\ MayBeForeign(t, Payload(local_seq[t]))
    BY <1>4 DEF SkipOrder, TypeOK, Goto
  <2>2. local_seq[t] \notin Own(t)
    BY <1>0, <2>1, ReadsItsOwn
  <2>3. \A s \in Own(t) : s \in Int
    BY NumOrdersAssumption DEF Own, Orders
  <2>4. {s \in Own(t) : s < local_seq[t] + 1} = {s \in Own(t) : s < local_seq[t]}
    BY <1>1, <2>2, <2>3
  <2> QED
    BY <1>2, <2>1, <2>4
<1>5. CASE Apply(t)
  <2>1. reader[t] = "apply" /\ local_seq[t] < published[t]
    BY <1>5 DEF Apply, Bounds
  <2>2. /\ local_seq'[t] = local_seq[t] + 1 /\ reader'[t] = "drain"
        /\ \E content \in WhatApplyReads(t) :
               applied' = [applied EXCEPT ![t] = Append(@, content)]
    BY <1>5 DEF Apply, TypeOK, Goto
  <2>3. applied'[t] = Append(applied[t], local_seq[t])
    BY <1>0, <2>1, <2>2, ReadsItsOwn DEF TypeOK
  <2>4. applied[t] \in Seq(Contents) /\ local_seq[t] \in Contents
    BY DEF TypeOK, Contents
  <2>5. Range(applied'[t]) = Range(applied[t]) \union {local_seq[t]}
    BY <2>3, <2>4, RangeAppend
  <2>6. \A s \in Own(t) : s \in Int
    BY NumOrdersAssumption DEF Own, Orders
  <2>7. local_seq[t] \in Own(t)
    BY <1>2, <2>1
  <2>8. {s \in Own(t) : s < local_seq[t] + 1} = {s \in Own(t) : s < local_seq[t]} \union {local_seq[t]}
    BY <1>1, <2>6, <2>7
  <2> QED
    BY <1>2, <2>2, <2>5, <2>8
<1>6. CASE \/ Poll(t) \/ CheckDone(t) \/ Recheck(t) \/ EndOfBatch(t)
           \/ LoadMin(t) \/ Exchange(t) \/ Retry(t)
  <2>1. local_seq' = local_seq /\ applied' = applied /\ reader'[t] # "apply"
    BY <1>6 DEF TypeOK, Poll, CheckDone, Recheck, EndOfBatch, LoadMin, Exchange, Retry,
                NextReportStep, Goto
  <2> QED
    BY <1>2, <2>1
<1> QED
  BY <1>3, <1>4, <1>5, <1>6 DEF ThreadStep

LEMMA ExactStep == TypeOK /\ Bounds /\ Exact /\ [Next]_vars => Exact'
<1> SUFFICES ASSUME TypeOK, Bounds, Exact, [Next]_vars PROVE Exact'
  OBVIOUS
<1>1. CASE UNCHANGED vars
  BY <1>1 DEF Exact, Begun, Payload
<1> QED
  BY <1>1, ExactProducerStep, ExactThreadStep DEF Next, Returned

-----------------------------------------------------------------------------
LEMMA InvInit == Init => Inv
<1> SUFFICES ASSUME Init PROVE Inv
  OBVIOUS
<1>1. TypeOK
  BY TypeInit
<1>2. Bounds /\ Stamped
  BY NumOrdersAssumption DEF Init, JournalInit, Bounds, Stamped, Orders
<1>3. Done
  BY DEF Init, Done
<1>4. Newer
  BY DEF Init, JournalInit, Newer, Begun
<1>5. \A t \in Consumers : \A s \in Own(t) : ~(s < 0)
  BY NumOrdersAssumption DEF Own, Orders
<1>6. \A t \in Consumers : Range(applied[t]) = {}
  BY RangeEmpty DEF Init
<1>7. Exact
  BY <1>5, <1>6, CapacityAssumption DEF Init, JournalInit, Exact, Begun
<1> QED
  BY <1>1, <1>2, <1>3, <1>4, <1>7 DEF Inv

LEMMA InvStep == Inv /\ [Next]_vars => Inv'
  BY TypeStep, BoundsStep, DoneStep, StampedStep, NewerStep, ExactStep DEF Inv

(* The inductive invariant: types, the order of the cursors and the index, *)
(* what the done flag means, which publish times are written, and what the *)
(* slots hold, before and after a thread has been lapped.                  *)
THEOREM PipelineInvariance == Spec => []Inv
  BY InvInit, InvStep, PTL DEF Spec

-----------------------------------------------------------------------------
(* What follows from it.                                                   *)

(* Every variable of the journal, of the producer and of the threads keeps *)
(* its type.                                                               *)
THEOREM PipelineTypeCorrect == Spec => []TypeOK
<1>1. Inv => TypeOK
  BY DEF Inv
<1> QED
  BY <1>1, PipelineInvariance, PTL

(* However a thread's loads of the index, of the flag and again of the     *)
(* index interleave with the producer's stores, a thread that has left has *)
(* walked over the whole input.                                            *)
THEOREM ThreadsLeaveAtTheEnd == Spec => []LeavesAtTheEnd
<1>1. Inv => LeavesAtTheEnd
  BY DEF Inv, Done, LeavesAtTheEnd
<1> QED
  BY <1>1, PipelineInvariance, PTL

(* A thread that may read a publish time only does so after the producer   *)
(* has written it: publish_ts needs no lock of its own.                    *)
THEOREM TimesReadAreWritten == Spec => []StampedBeforeApplied
<1>1. Inv => StampedBeforeApplied
  <2> SUFFICES ASSUME Inv, NEW t \in Consumers, measure_latency, reader[t] = "apply"
               PROVE  publish_ts[local_seq[t]]
    BY DEF StampedBeforeApplied
  <2>1. local_seq[t] \in Orders /\ local_seq[t] < published_index_
    BY NumOrdersAssumption DEF Inv, TypeOK, JournalTypeOK, Bounds, Orders
  <2> QED
    BY <2>1 DEF Inv, Stamped
<1> QED
  BY <1>1, PipelineInvariance, PTL

\* What an application appends.
LEMMA Applies ==
    ASSUME Inv, NEW t \in Consumers, Apply(t)
    PROVE  /\ local_seq[t] < published[t]
           /\ \A u \in Consumers \ {t} : applied'[u] = applied[u]
           /\ \E content \in WhatApplyReads(t) :
                 /\ content \in Contents
                 /\ applied' = [applied EXCEPT ![t] = Append(@, content)]
                 /\ applied'[t] = Append(applied[t], content)
                 /\ applied'[t][Len(applied'[t])] = content
<1>1. local_seq[t] < published[t]
  BY DEF Inv, Bounds, Apply
<1>2. PICK content \in WhatApplyReads(t) : applied' = [applied EXCEPT ![t] = Append(@, content)]
  BY DEF Apply
<1>3. content \in Contents /\ applied[t] \in Seq(Contents)
  BY ApplyReads DEF Inv, TypeOK
<1>4. /\ applied'[t] = Append(applied[t], content)
      /\ \A u \in Consumers \ {t} : applied'[u] = applied[u]
  BY <1>2 DEF Inv, TypeOK
<1>5. applied'[t][Len(applied'[t])] = content
  BY <1>3, <1>4, AppendProperties
<1> QED
  BY <1>1, <1>2, <1>3, <1>4, <1>5

\* Nobody but Apply touches what is applied.
LEMMA OnlyApplyApplies ==
    ASSUME [Next]_vars, \A t \in Consumers : ~Apply(t)
    PROVE  applied' = applied
  BY DEF Next, ProducerStep, Stamp, Publish, FinishCopy, StorePublished, SetDone, Join,
         ThreadStep, Poll, CheckDone, Recheck, TakeOrder, SkipOrder, EndOfBatch, LoadMin,
         Exchange, Retry, Returned

(* Even a thread that is lapped never applies an order older than its      *)
(* cursor, nor a slot nobody has written: a newer order, or a mixture.     *)
THEOREM NothingOlderApplied == Spec => NeverOlderThanCursor
<1>1. ASSUME Inv, [Next]_vars, NEW t \in Consumers, applied'[t] # applied[t]
      PROVE  LET content == applied'[t][Len(applied'[t])]
             IN  content = Torn \/ (content # Blank /\ content >= local_seq[t])
  <2>1. Apply(t)
    <3>1. PICK u \in Consumers : Apply(u)
      BY <1>1, OnlyApplyApplies
    <3>2. u = t
      BY <1>1, <3>1, Applies
    <3> QED
      BY <3>1, <3>2
  <2>2. /\ NotOlder(Payload(local_seq[t]), local_seq[t])
        /\ NotOlder(first_read[t], local_seq[t])
    BY <1>1, <2>1, Applies, SlotIsNotOlder DEF Inv, Newer, Apply
  <2>3. PICK content \in WhatApplyReads(t) : applied'[t][Len(applied'[t])] = content
    BY <1>1, <2>1, Applies
  <2>4. NotOlder(content, local_seq[t])
    BY <2>2, <2>3 DEF WhatApplyReads, NotOlder
  <2>5. local_seq[t] \in Nat
    BY <1>1 DEF Inv, TypeOK
  <2> QED
    BY <2>3, <2>4, <2>5, MarkerAssumption DEF NotOlder
<1>2. Inv /\ [Next]_vars =>
        [\A t \in Consumers :
            applied'[t] # applied[t] =>
                LET content == applied'[t][Len(applied'[t])]
                IN  content = Torn \/ (content # Blank /\ content >= local_seq[t])]_vars
  BY <1>1
<1> QED
  BY <1>2, PipelineInvariance, PTL DEF Spec, NeverOlderThanCursor

-----------------------------------------------------------------------------
(* The sharded delivery, step by step: StorePublished sends, SetDone closes*)
(* the stream, Apply delivers and the Recheck that finds nothing leaves.   *)

LEMMA DeliveryInit == Init => Delivery!Init
  BY DEF Init, JournalInit, Delivery!Init

LEMMA ProducerDelivers ==
    Inv /\ ProducerStep => Delivery!Next \/ UNCHANGED Delivery!deliveryVars
<1> SUFFICES ASSUME Inv, ProducerStep
             PROVE  Delivery!Next \/ UNCHANGED Delivery!deliveryVars
  OBVIOUS
<1>1. CASE StorePublished
  <2>1. /\ ~producer_done /\ published_index_ < NumOrders
        /\ published_index_' = published_index_ + 1
        /\ UNCHANGED <<producer_done, applied, reader>>
    BY <1>1 DEF StorePublished, StoreIndex, Inv, Bounds, Done
  <2>2. Delivery!Send
    BY <2>1 DEF Delivery!Send
  <2> QED
    BY <2>2 DEF Delivery!Next
<1>2. CASE SetDone
  <2>1. /\ ~producer_done /\ producer_done' = TRUE
        /\ published_index_ = NumOrders
        /\ UNCHANGED <<published_index_, applied, reader>>
    BY <1>2, NumOrdersAssumption
       DEF SetDone, DoneFlag, Inv, Bounds, Done, TypeOK, JournalTypeOK
  <2>2. Delivery!Close
    BY <2>1 DEF Delivery!Close
  <2> QED
    BY <2>2 DEF Delivery!Next
<1>3. CASE Stamp \/ Publish \/ FinishCopy \/ Join
  BY <1>3 DEF Stamp, Publish, FinishCopy, Join, BeginCopy, EndCopy, Delivery!deliveryVars
<1> QED
  BY <1>1, <1>2, <1>3 DEF ProducerStep

LEMMA ApplyDelivers ==
    ASSUME Inv, ~lapped, NEW t \in Consumers, Apply(t)
    PROVE  Delivery!Deliver(t)
<1> DEFINE s == local_seq[t]
<1>1. /\ s < published[t] /\ reader[t] = "apply"
      /\ UNCHANGED <<published_index_, producer_done>>
      /\ {u \in Consumers : reader[u] = "gone"}' = {u \in Consumers : reader[u] = "gone"}
  BY Applies DEF Apply, Goto, Inv, TypeOK
<1>2. WhatApplyReads(t) = {s} /\ s \in Nat
  BY <1>1, ReadsItsOwn DEF Inv
<1>3. applied' = [applied EXCEPT ![t] = Append(@, s)]
  BY <1>2 DEF Apply
<1>4. s \in Own(t) /\ Range(applied[t]) = {r \in Own(t) : r < s}
  BY <1>1 DEF Inv, Exact
<1>5. s < published_index_ /\ s \in Orders
  BY <1>1, <1>2, NumOrdersAssumption DEF Inv, Bounds, TypeOK, JournalTypeOK, Orders
<1>6. Delivery!IsNext(t, s)
  <2>1. Delivery!Own(t) = Own(t) /\ Delivery!Range(applied[t]) = Range(applied[t])
    BY DEF Delivery!Own, Own, Delivery!Orders, Orders, Delivery!Range, Range
  <2>2. s \notin Range(applied[t])
    BY <1>2, <1>4
  <2> QED
    BY <1>4, <2>1, <2>2 DEF Delivery!IsNext
<1> QED
  BY <1>1, <1>3, <1>5, <1>6 DEF Delivery!Deliver, Delivery!Orders, Orders

LEMMA LeavingLeaves ==
    ASSUME Inv, ~lapped, NEW t \in Consumers, Recheck(t), reader'[t] = "gone"
    PROVE  Delivery!Leave(t)
<1>1. /\ reader[t] = "recheck" /\ producer_done /\ local_seq[t] = NumOrders
      /\ reader' = [reader EXCEPT ![t] = "gone"]
      /\ UNCHANGED <<published_index_, producer_done, applied>>
  <2>1. /\ reader[t] = "recheck"
        /\ reader' = [reader EXCEPT ![t] = IF local_seq[t] >= published_index_
                                           THEN "gone" ELSE "poll"]
        /\ UNCHANGED <<published_index_, producer_done, applied>>
    BY DEF Recheck, IndexNow, Goto
  <2>2. local_seq[t] >= published_index_
    BY <2>1 DEF Inv, TypeOK
  <2>3. producer_done /\ published_index_ = NumOrders
    BY <2>1 DEF Inv, Done
  <2>4. local_seq[t] = NumOrders
    BY <2>2, <2>3, NumOrdersAssumption DEF Inv, Bounds, TypeOK, JournalTypeOK
  <2> QED
    BY <2>1, <2>2, <2>3, <2>4
<1>2. {u \in Consumers : reader[u] = "gone"}' = {u \in Consumers : reader[u] = "gone"} \union {t}
  BY <1>1 DEF Inv, TypeOK
<1>3. Own(t) \subseteq Range(applied[t])
  <2>1. Range(applied[t]) = {s \in Own(t) : s < NumOrders}
    BY <1>1 DEF Inv, Exact
  <2> QED
    BY <2>1, NumOrdersAssumption DEF Own, Orders
<1>4. Delivery!Own(t) \subseteq Delivery!Range(applied[t])
  BY <1>3 DEF Delivery!Own, Own, Delivery!Orders, Orders, Delivery!Range, Range
<1> QED
  BY <1>1, <1>2, <1>4 DEF Delivery!Leave

LEMMA ThreadDelivers ==
    ASSUME Inv, ~lapped, NEW t \in Consumers, ThreadStep(t)
    PROVE  Delivery!Next \/ UNCHANGED Delivery!deliveryVars
<1>1. CASE Apply(t)
  BY <1>1, ApplyDelivers DEF Delivery!Next
<1>2. CASE Recheck(t) /\ reader'[t] = "gone"
  BY <1>2, LeavingLeaves DEF Delivery!Next
<1>3. CASE ~Apply(t) /\ ~(Recheck(t) /\ reader'[t] = "gone")
  <2>1. UNCHANGED <<published_index_, producer_done, applied>>
    BY <1>3 DEF ThreadStep, Poll, CheckDone, Recheck, TakeOrder, SkipOrder, EndOfBatch,
                LoadMin, Exchange, Retry, ReportLoad, ReportExchange, ReportRetry, Goto
  <2>2. /\ reader[t] # "gone" /\ reader'[t] # "gone"
        /\ \A u \in Consumers \ {t} : reader'[u] = reader[u]
    BY <1>3 DEF ThreadStep, Poll, CheckDone, Recheck, TakeOrder, SkipOrder, EndOfBatch,
                LoadMin, Exchange, Retry, NextReportStep, Goto, Inv, TypeOK
  <2>3. {u \in Consumers : reader[u] = "gone"}' = {u \in Consumers : reader[u] = "gone"}
    BY <2>2
  <2> QED
    BY <2>1, <2>3 DEF Delivery!deliveryVars
<1> QED
  BY <1>1, <1>2, <1>3

(* As long as no slot is overwritten that a thread still needs, every      *)
(* thread applies exactly the orders of its shard, once each and in order, *)
(* and leaves only when they are all applied: each step of the pipeline is *)
(* a step of the sharded delivery, or changes nothing of it.               *)
THEOREM ImplementsDelivery == Spec => DeliversUntilLapped
<1>1. ASSUME Inv, [Next]_vars
      PROVE  [~lapped' => Delivery!Next \/ UNCHANGED Delivery!deliveryVars]_vars
  <2>1. ASSUME ProducerStep PROVE Delivery!Next \/ UNCHANGED Delivery!deliveryVars
    BY <1>1, <2>1, ProducerDelivers
  <2>2. ASSUME NEW t \in Consumers, ThreadStep(t), ~lapped'
        PROVE  Delivery!Next \/ UNCHANGED Delivery!deliveryVars
    <3>1. ~lapped
      BY <2>2 DEF ThreadStep, Poll, CheckDone, Recheck, TakeOrder, SkipOrder, Apply,
                  EndOfBatch, LoadMin, Exchange, Retry, Goto
    <3> QED
      BY <1>1, <2>2, <3>1, ThreadDelivers
  <2> QED
    BY <1>1, <2>1, <2>2 DEF Next, Returned
<1> QED
  BY <1>1, DeliveryInit, PipelineInvariance, PTL DEF Spec, DeliversUntilLapped

=============================================================================
