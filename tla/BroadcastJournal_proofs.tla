----------------------- MODULE BroadcastJournal_proofs -----------------------
(***************************************************************************)
(* The safety of the two programs on the broadcast journal that keep to it *)
(* alone, for every ring size, every set of consumers and every length of  *)
(* the input: the backpressure protocol, which never laps the fastest      *)
(* consumer and not the only one, and the readers of experiments 2 and 4,  *)
(* which publish() may lap: what they find in the slots, and that those of *)
(* experiment 4 leave with everything unless they were lapped.             *)
(***************************************************************************)
EXTENDS BackpressuredJournal, RingsAndSequences

USE DEF journalVars, vars

\* How many sequences have had their copy into the ring started.
Begun == IF producer = "try" THEN published_index_ ELSE published_index_ + 1

\* Room that was granted stays: the progress word is never behind by more
\* than the ring, and never ahead of what some consumer has read.
Bounds ==
    /\ min_consumer_seq_ <= published_index_
    /\ Begun <= min_consumer_seq_ + Capacity
    /\ \E c \in Consumers : min_consumer_seq_ <= local_seq[c]
    /\ \A c \in Consumers : local_seq[c] <= published[c] /\ published[c] <= published_index_
    /\ \A c \in Consumers : reader[c] = "exchange" => current_min[c] < local_seq[c]

\* A published sequence is in its slot until the copy of the sequence that is
\* Capacity further has begun.
Ring ==
    /\ \A s \in Nat : s < published_index_ /\ Begun <= s + Capacity => Payload(s) = s
    /\ producer = "store" => Payload(published_index_) = published_index_

Inv == TypeOK /\ Bounds /\ Ring

-----------------------------------------------------------------------------
(* Type correctness.                                                       *)

LEMMA TypeInit == Init => TypeOK
  BY CapacityAssumption DEF Init, JournalInit, TypeOK, JournalTypeOK

LEMMA TypeStep == TypeOK /\ [Next]_vars => TypeOK'
<1> SUFFICES ASSUME TypeOK, [Next]_vars PROVE TypeOK'
  OBVIOUS
<1> USE DEF TypeOK, JournalTypeOK
<1>1. CASE TryPublish
  BY <1>1 DEF TryPublish, BeginCopy
<1>2. CASE FinishCopy
  BY <1>2 DEF FinishCopy, EndCopy
<1>3. CASE StorePublished
  BY <1>3 DEF StorePublished, StoreIndex
<1>4. ASSUME NEW c \in Consumers, Poll(c) PROVE TypeOK'
  BY <1>4 DEF Poll
<1>5. ASSUME NEW c \in Consumers, Read(c) PROVE TypeOK'
  BY <1>5 DEF Read
<1>6. ASSUME NEW c \in Consumers, EndOfBatch(c) PROVE TypeOK'
  BY <1>6 DEF EndOfBatch
<1>7. ASSUME NEW c \in Consumers, LoadMin(c) PROVE TypeOK'
  BY <1>7 DEF LoadMin, ReportLoad, NextReportStep
<1>8. ASSUME NEW c \in Consumers, Exchange(c) PROVE TypeOK'
  BY <1>8 DEF Exchange, ReportExchange
<1>9. ASSUME NEW c \in Consumers, Retry(c) PROVE TypeOK'
  BY <1>9 DEF Retry, ReportRetry, NextReportStep
<1>10. CASE UNCHANGED vars
  BY <1>10
<1> QED
  BY <1>1, <1>2, <1>3, <1>4, <1>5, <1>6, <1>7, <1>8, <1>9, <1>10
     DEF Next, ProducerStep, ConsumerStep

(* Every variable of the journal, of the producer and of the consumers     *)
(* keeps its type.                                                         *)
THEOREM TypeCorrect == Spec => []TypeOK
  BY TypeInit, TypeStep, PTL DEF Spec

-----------------------------------------------------------------------------
(* The inductive invariant.                                                *)

LEMMA InvInit == Init => Inv
<1> SUFFICES ASSUME Init PROVE Inv
  OBVIOUS
<1>1. TypeOK
  BY TypeInit
<1>2. Bounds
  BY CapacityAssumption, ConsumersAssumption DEF Init, JournalInit, Bounds, Begun
<1>3. Ring
  BY DEF Init, JournalInit, Ring
<1> QED
  BY <1>1, <1>2, <1>3 DEF Inv

LEMMA BoundsStep == Inv /\ [Next]_vars => Bounds'
<1> SUFFICES ASSUME Inv, [Next]_vars PROVE Bounds'
  OBVIOUS
<1> USE CapacityAssumption DEF Inv, TypeOK, JournalTypeOK, Bounds, Begun
<1>1. CASE TryPublish
  BY <1>1 DEF TryPublish, BeginCopy, HasRoom
<1>2. CASE FinishCopy
  BY <1>2 DEF FinishCopy, EndCopy
<1>3. CASE StorePublished
  BY <1>3 DEF StorePublished, StoreIndex
<1>4. ASSUME NEW c \in Consumers, Poll(c) PROVE Bounds'
  BY <1>4 DEF Poll
<1>5. ASSUME NEW c \in Consumers, Read(c) PROVE Bounds'
  BY <1>5 DEF Read
<1>6. ASSUME NEW c \in Consumers, EndOfBatch(c) PROVE Bounds'
  BY <1>6 DEF EndOfBatch
<1>7. ASSUME NEW c \in Consumers, LoadMin(c) PROVE Bounds'
  BY <1>7 DEF LoadMin, ReportLoad, NextReportStep
<1>8. ASSUME NEW c \in Consumers, Exchange(c) PROVE Bounds'
  BY <1>8 DEF Exchange, ReportExchange
<1>9. ASSUME NEW c \in Consumers, Retry(c) PROVE Bounds'
  BY <1>9 DEF Retry, ReportRetry, NextReportStep
<1>10. CASE UNCHANGED vars
  BY <1>10
<1> QED
  BY <1>1, <1>2, <1>3, <1>4, <1>5, <1>6, <1>7, <1>8, <1>9, <1>10
     DEF Next, ProducerStep, ConsumerStep

LEMMA RingStep == Inv /\ [Next]_vars => Ring'
<1> SUFFICES ASSUME Inv, [Next]_vars PROVE Ring'
  OBVIOUS
<1>0. ASSUME NEW s \in Nat, s < published_index_, published_index_ + 1 <= s + Capacity
      PROVE  SlotOf(s) # SlotOf(published_index_) /\ SlotOf(s) \in SlotIds
  <2>1. published_index_ \in Nat /\ published_index_ < s + Capacity
    BY <1>0, CapacityAssumption DEF Inv, TypeOK, JournalTypeOK
  <2> QED
    BY <1>0, <2>1, CapacityAssumption, ModDistinct, ModInRing DEF SlotOf, SlotIds
<1> USE CapacityAssumption DEF Inv, TypeOK, JournalTypeOK, Ring, Begun, Payload
<1>1. CASE TryPublish
  <2> USE <1>1 DEF TryPublish, BeginCopy
  <2>1. ASSUME NEW s \in Nat, s < published_index_, published_index_ + 1 <= s + Capacity
        PROVE  journal_'[SlotOf(s)] = s
    <3>1. SlotOf(s) # SlotOf(published_index_) /\ SlotOf(s) \in SlotIds
      BY <1>0, <2>1
    <3>2. journal_[SlotOf(s)] = s
      BY <2>1
    <3> QED
      BY <3>1, <3>2
  <2> QED
    BY <2>1
<1>2. CASE FinishCopy
  <2> USE <1>2 DEF FinishCopy, EndCopy
  <2>1. ASSUME NEW s \in Nat, s < published_index_, published_index_ + 1 <= s + Capacity
        PROVE  journal_'[SlotOf(s)] = s
    <3>1. SlotOf(s) # SlotOf(published_index_) /\ SlotOf(s) \in SlotIds
      BY <1>0, <2>1
    <3>2. journal_[SlotOf(s)] = s
      BY <2>1
    <3> QED
      BY <3>1, <3>2
  <2>2. journal_'[SlotOf(published_index_)] = published_index_
    <3>1. SlotOf(published_index_) \in SlotIds
      BY ModInRing DEF SlotOf, SlotIds
    <3> QED
      BY <3>1
  <2> QED
    BY <2>1, <2>2
<1>3. CASE StorePublished
  BY <1>3 DEF StorePublished, StoreIndex
<1>4. ASSUME NEW c \in Consumers, ConsumerStep(c) PROVE Ring'
  <2>1. UNCHANGED <<journal_, published_index_, producer>>
    BY <1>4 DEF ConsumerStep, Poll, Read, EndOfBatch, LoadMin, Exchange, Retry,
                ReportLoad, ReportExchange, ReportRetry
  <2> QED
    BY <2>1
<1>5. CASE UNCHANGED vars
  BY <1>5
<1> QED
  BY <1>1, <1>2, <1>3, <1>4, <1>5 DEF Next, ProducerStep

LEMMA InvStep == Inv /\ [Next]_vars => Inv'
  BY TypeStep, BoundsStep, RingStep DEF Inv

THEOREM Invariance == Spec => []Inv
  BY InvInit, InvStep, PTL DEF Spec

-----------------------------------------------------------------------------
(* What follows from it.                                                   *)

(* A consumer that has read as far as the progress word has all of its     *)
(* unread messages in the ring.                                            *)
LEMMA CaughtUpIntact ==
    ASSUME Inv, NEW c \in Consumers, min_consumer_seq_ <= local_seq[c]
    PROVE  UnreadIntact(c)
<1> SUFFICES ASSUME NEW s \in local_seq[c] .. published_index_ - 1
             PROVE  Payload(s) = s
  BY DEF UnreadIntact
<1>1. s \in Nat /\ s < published_index_
  BY DEF Inv, TypeOK, JournalTypeOK
<1>2. Begun <= s + Capacity
  BY <1>1, CapacityAssumption DEF Inv, Bounds, Begun, TypeOK, JournalTypeOK
<1> QED
  BY <1>1, <1>2 DEF Inv, Ring

(* The progress word never passes the published index.                     *)
THEOREM ProgressNeverAhead == Spec => []ProgressNotAhead
<1>1. Inv => ProgressNotAhead
  BY DEF Inv, Bounds, ProgressNotAhead
<1> QED
  BY <1>1, Invariance, PTL

(* At every moment some consumer has all of its unread messages.           *)
THEOREM NeverLostForAll == Spec => []FastestNotLapped
<1>1. Inv => FastestNotLapped
  BY CaughtUpIntact DEF Inv, Bounds, FastestNotLapped
<1> QED
  BY <1>1, Invariance, PTL

(* With a single consumer, try_publish() keeps the promise of the comment  *)
(* on min_consumer_seq_: no unread message is overwritten.                 *)
THEOREM SingleConsumerNeverLapped ==
    ASSUME NEW c \in Consumers, Consumers = {c}
    PROVE  Spec => []SlowestNotLapped
<1>1. Inv => SlowestNotLapped
  BY CaughtUpIntact DEF Inv, Bounds, SlowestNotLapped
<1> QED
  BY <1>1, Invariance, PTL

(* Reports race on the exchange, and the progress word still only grows.   *)
THEOREM ProgressOnlyGrows == Spec => ProgressMonotone
<1>1. Inv /\ [Next]_vars => [min_consumer_seq_' >= min_consumer_seq_]_vars
  <2> SUFFICES ASSUME Inv, [Next]_vars
               PROVE  min_consumer_seq_' >= min_consumer_seq_
    OBVIOUS
  <2> USE DEF Inv, TypeOK, JournalTypeOK, Bounds
  <2>1. CASE ProducerStep
    BY <2>1 DEF ProducerStep, TryPublish, FinishCopy, StorePublished,
                BeginCopy, EndCopy, StoreIndex
  <2>2. ASSUME NEW c \in Consumers, Exchange(c)
        PROVE  min_consumer_seq_' >= min_consumer_seq_
    BY <2>2 DEF Exchange, ReportExchange
  <2>3. ASSUME NEW c \in Consumers,
               Poll(c) \/ Read(c) \/ EndOfBatch(c) \/ LoadMin(c) \/ Retry(c)
        PROVE  min_consumer_seq_' >= min_consumer_seq_
    BY <2>3 DEF Poll, Read, EndOfBatch, LoadMin, Retry, ReportLoad, ReportRetry
  <2>4. CASE UNCHANGED vars
    BY <2>4
  <2> QED
    BY <2>1, <2>2, <2>3, <2>4 DEF Next, ConsumerStep
<1> QED
  BY <1>1, Invariance, PTL DEF Spec, ProgressMonotone

-----------------------------------------------------------------------------
(* The readers of experiments 2 and 4, which report no progress: a second  *)
(* program on the same journal. Its invariant is its own.                  *)

CONSTANT NumOrders

VARIABLES rechecks, done, pub, seen, lapped

Readers == INSTANCE JournalReaders

USE DEF Readers!journalVars, Readers!readerVars, Readers!vars

ReadersTypeOK ==
    /\ Readers!JournalTypeOK
    /\ rechecks \in BOOLEAN /\ done \in BOOLEAN
    /\ producer \in {"publish", "copy", "store", "join", "joined"}
    /\ reader \in [Consumers -> {"poll", "check", "recheck", "drain", "gone"}]
    /\ local_seq \in [Consumers -> Nat]
    /\ pub \in [Consumers -> Nat]
    /\ seen \in [Consumers -> Seq(Nat \union {Blank, Torn})]

\* A reader follows its last poll, a poll the index, and the index the input.
ReadersBounds ==
    /\ published_index_ <= NumOrders
    /\ producer \in {"copy", "store"} => published_index_ < NumOrders
    /\ \A c \in Consumers : local_seq[c] <= pub[c] /\ pub[c] <= published_index_

\* The flag goes up after the last publish and stays up, so whoever has seen it
\* and then loads the index loads its last value.
ReadersDone ==
    /\ done => published_index_ = NumOrders /\ producer \in {"join", "joined"}
    /\ \A c \in Consumers :
          /\ reader[c] = "recheck" => done
          /\ rechecks /\ reader[c] = "gone" => done /\ local_seq[c] = NumOrders

\* How many sequences have had their copy into the ring started.
ReadersBegun ==
    IF producer \in {"copy", "store"} THEN published_index_ + 1 ELSE published_index_

NotOlder(content, s) == content = Torn \/ content \in s .. NumOrders - 1

\* The ring: the slot of a sequence never goes back to an older one, and holds
\* it until the copy of the sequence that is Capacity further has begun.
ReadersRing ==
    /\ \A s \in Nat : s < ReadersBegun => NotOlder(Readers!Payload(s), s)
    /\ \A s \in Nat :
          s < published_index_ /\ ReadersBegun <= s + Capacity => Readers!Payload(s) = s
    /\ producer = "store" => Readers!Payload(published_index_) = published_index_

\* What has been read, and that a reader which lost nothing so far has all it
\* has not read in the ring.
ReadersSeen ==
    \A c \in Consumers :
        /\ Len(seen[c]) = local_seq[c]
        /\ \A k \in 1 .. local_seq[c] : NotOlder(seen[c][k], k - 1)
        /\ c \notin lapped =>
              /\ ReadersBegun <= local_seq[c] + Capacity
              /\ \A k \in 1 .. local_seq[c] : seen[c][k] = k - 1

ReadersInv == ReadersTypeOK /\ ReadersBounds /\ ReadersDone /\ ReadersRing /\ ReadersSeen

\* Nothing is published or read, and nobody has gone.
LEMMA ReadersInit ==
    ASSUME NumOrders \in Nat, Readers!Init
    PROVE  ReadersInv
<1>1. ReadersTypeOK
  BY EmptySeq DEF Readers!Init, Readers!JournalInit, ReadersTypeOK, Readers!JournalTypeOK
<1>2. ReadersBounds
  BY DEF Readers!Init, Readers!JournalInit, ReadersBounds
<1>3. ReadersDone
  BY DEF Readers!Init, ReadersDone
<1>4. ReadersRing
  BY DEF Readers!Init, Readers!JournalInit, ReadersRing, ReadersBegun
<1>5. ReadersSeen
  <2>1. <<>> \in Seq(Nat) /\ Len(<<>>) = 0
    BY EmptySeq
  <2> QED
    BY <2>1, CapacityAssumption
       DEF Readers!Init, Readers!JournalInit, ReadersSeen, ReadersBegun
<1> QED
  BY <1>1, <1>2, <1>3, <1>4, <1>5 DEF ReadersInv

\* What a reader appends is something a slot may hold.
LEMMA ReadAppends ==
    ASSUME ReadersTypeOK, NEW c \in Consumers, Readers!Read(c)
    PROVE  /\ seen' \in [Consumers -> Seq(Nat \union {Blank, Torn})]
           /\ Len(seen'[c]) = Len(seen[c]) + 1 /\ Len(seen[c]) \in Nat
           /\ \A k \in 1 .. Len(seen[c]) : seen'[c][k] = seen[c][k]
           /\ seen'[c][Len(seen[c]) + 1] = Readers!Payload(local_seq[c])
           /\ \A d \in Consumers \ {c} : seen'[d] = seen[d]
<1> DEFINE content == Readers!Payload(local_seq[c])
<1>1. Readers!SlotOf(local_seq[c]) \in Readers!SlotIds
  BY CapacityAssumption, ModInRing DEF Readers!SlotOf, Readers!SlotIds, ReadersTypeOK
<1>2. content \in Nat \union {Blank, Torn}
  BY <1>1 DEF Readers!Payload, ReadersTypeOK, Readers!JournalTypeOK
<1>3. seen' = [seen EXCEPT ![c] = Append(@, content)]
  BY DEF Readers!Read
<1>4. seen[c] \in Seq(Nat \union {Blank, Torn})
  BY DEF ReadersTypeOK
<1> HIDE DEF content
<1> QED
  BY <1>2, <1>3, <1>4, AppendProperties DEF ReadersTypeOK, content

\* A step of the producer or of a reader, as far as threads and types go.
LEMMA ReadersControlStep ==
    ASSUME NumOrders \in Nat, ReadersTypeOK, ReadersBounds, ReadersDone,
           [Readers!Next]_Readers!vars
    PROVE  ReadersTypeOK' /\ ReadersBounds' /\ ReadersDone'
<1> USE DEF ReadersTypeOK, Readers!JournalTypeOK, ReadersBounds, ReadersDone,
            Readers!ProducerGoto, Readers!Goto
<1> DEFINE Goal == ReadersTypeOK' /\ ReadersBounds' /\ ReadersDone'
<1>1. CASE Readers!Publish
  BY <1>1 DEF Readers!Publish, Readers!BeginCopy
<1>2. CASE Readers!FinishCopy
  BY <1>2 DEF Readers!FinishCopy, Readers!EndCopy
<1>3. CASE Readers!StorePublished
  BY <1>3 DEF Readers!StorePublished, Readers!StoreIndex
<1>4. CASE Readers!SetDone
  BY <1>4 DEF Readers!SetDone
<1>5. CASE Readers!Join
  BY <1>5 DEF Readers!Join
<1>6. ASSUME NEW c \in Consumers, Readers!Poll(c) PROVE Goal
  BY <1>6 DEF Readers!Poll
<1>7. ASSUME NEW c \in Consumers, Readers!CheckDone(c) PROVE Goal
  <2>1. PICK step \in {"poll", "recheck", "gone"} :
            /\ Readers!Goto(c, step)
            /\ step = "recheck" => done
            /\ step = "gone" => ~rechecks
    BY <1>7 DEF Readers!CheckDone
  <2> QED
    BY <1>7, <2>1 DEF Readers!CheckDone
<1>8. ASSUME NEW c \in Consumers, Readers!Recheck(c) PROVE Goal
  BY <1>8 DEF Readers!Recheck, Readers!IndexNow
<1>9. ASSUME NEW c \in Consumers, Readers!Read(c) PROVE Goal
  <2>1. seen' \in [Consumers -> Seq(Nat \union {Blank, Torn})]
    BY <1>9, ReadAppends
  <2> QED
    BY <1>9, <2>1 DEF Readers!Read
<1>10. ASSUME NEW c \in Consumers, Readers!EndOfBatch(c) PROVE Goal
  BY <1>10 DEF Readers!EndOfBatch
<1>11. CASE UNCHANGED Readers!vars
  BY <1>11
<1> QED
  BY <1>1, <1>2, <1>3, <1>4, <1>5, <1>6, <1>7, <1>8, <1>9, <1>10, <1>11
     DEF Readers!Next, Readers!ProducerStep, Readers!ConsumerStep, Readers!Joined

\* A copy into the slot of the published index leaves every other slot alone.
LEMMA OtherSlotsKept ==
    ASSUME ReadersTypeOK, NEW s \in Nat,
           Readers!SlotOf(s) # Readers!SlotOf(published_index_),
           Readers!Publish \/ Readers!FinishCopy
    PROVE  Readers!Payload(s)' = Readers!Payload(s)
<1>1. Readers!SlotOf(s) \in Readers!SlotIds
  BY CapacityAssumption, ModInRing DEF Readers!SlotOf, Readers!SlotIds
<1> QED
  BY <1>1 DEF ReadersTypeOK, Readers!JournalTypeOK, Readers!Publish, Readers!BeginCopy,
              Readers!FinishCopy, Readers!EndCopy, Readers!Payload, Readers!SlotOf

\* What the slot of the published index holds during and after the copy.
LEMMA OwnSlotWritten ==
    ASSUME ReadersTypeOK
    PROVE  /\ Readers!Publish => Readers!Payload(published_index_)' = Torn
           /\ Readers!FinishCopy => Readers!Payload(published_index_)' = published_index_
<1>1. Readers!SlotOf(published_index_) \in Readers!SlotIds
  BY CapacityAssumption, ModInRing
     DEF Readers!SlotOf, Readers!SlotIds, ReadersTypeOK, Readers!JournalTypeOK
<1> QED
  BY <1>1 DEF ReadersTypeOK, Readers!JournalTypeOK, Readers!Publish, Readers!BeginCopy,
              Readers!FinishCopy, Readers!EndCopy, Readers!Payload, Readers!SlotOf

\* The slot of a sequence never goes back, and is kept for a whole turn.
LEMMA ReadersRingStep ==
    ASSUME NumOrders \in Nat, ReadersInv, [Readers!Next]_Readers!vars
    PROVE  ReadersRing'
<1> DEFINE p == published_index_
<1>0. p \in Nat
  BY DEF ReadersInv, ReadersTypeOK, Readers!JournalTypeOK
<1>1. ASSUME Readers!Publish \/ Readers!FinishCopy PROVE ReadersRing'
  <2>1. /\ ReadersBegun' = p + 1 /\ published_index_' = p
        /\ ReadersBegun \in {p, p + 1} /\ p < NumOrders
        /\ producer' = "store" => Readers!FinishCopy
    BY <1>1 DEF Readers!Publish, Readers!BeginCopy, Readers!FinishCopy, Readers!EndCopy,
                Readers!ProducerGoto, ReadersBegun, ReadersInv, ReadersBounds
  <2>2. ASSUME NEW s \in Nat, s < p + 1
        PROVE  NotOlder(Readers!Payload(s)', s)
    <3>1. CASE Readers!SlotOf(s) = Readers!SlotOf(p)
      <4>1. Readers!Payload(s)' = Readers!Payload(published_index_)'
        BY <2>1, <3>1 DEF Readers!Payload, Readers!SlotOf
      <4>2. Readers!Payload(s)' \in {Torn, p}
        BY <1>1, <4>1, OwnSlotWritten DEF ReadersInv
      <4> QED
        BY <1>0, <2>1, <2>2, <4>2 DEF NotOlder
    <3>2. CASE Readers!SlotOf(s) # Readers!SlotOf(p)
      <4>1. s < p
        BY <1>0, <2>2, <3>2
      <4>2. NotOlder(Readers!Payload(s), s)
        BY <1>0, <2>1, <4>1 DEF ReadersInv, ReadersRing
      <4> QED
        BY <1>1, <3>2, <4>2, OtherSlotsKept DEF ReadersInv
    <3> QED
      BY <3>1, <3>2
  <2>3. ASSUME NEW s \in Nat, s < p, p + 1 <= s + Capacity
        PROVE  Readers!Payload(s)' = s
    <3>1. Readers!SlotOf(s) # Readers!SlotOf(p)
      <4>1. p < s + Capacity
        BY <1>0, <2>3, CapacityAssumption
      <4> QED
        BY <1>0, <2>3, <4>1, CapacityAssumption, ModDistinct DEF Readers!SlotOf
    <3>2. Readers!Payload(s) = s
      BY <1>0, <2>1, <2>3, CapacityAssumption DEF ReadersInv, ReadersRing
    <3> QED
      BY <1>1, <3>1, <3>2, OtherSlotsKept DEF ReadersInv
  <2>4. producer' = "store" => Readers!Payload(p)' = p
    BY <2>1, OwnSlotWritten DEF ReadersInv
  <2>5. Readers!Payload(published_index_)' = Readers!Payload(p)'
    BY <2>1 DEF Readers!Payload, Readers!SlotOf
  <2> QED
    BY <2>1, <2>2, <2>3, <2>4, <2>5 DEF ReadersRing, NotOlder
<1>2. CASE Readers!StorePublished
  <2>1. /\ published_index_' = p + 1 /\ ReadersBegun' = p + 1 /\ ReadersBegun = p + 1
        /\ journal_' = journal_ /\ producer = "store" /\ producer' = "publish"
    BY <1>2 DEF Readers!StorePublished, Readers!StoreIndex, Readers!ProducerGoto, ReadersBegun
  <2>2. \A s \in Nat : Readers!Payload(s)' = Readers!Payload(s)
    BY <2>1 DEF Readers!Payload, Readers!SlotOf
  <2>3. ASSUME NEW s \in Nat, s < p + 1, p + 1 <= s + Capacity
        PROVE  Readers!Payload(s) = s
    <3>1. s = p \/ s < p
      BY <1>0, <2>3
    <3> QED
      BY <2>1, <2>3, <3>1 DEF ReadersInv, ReadersRing
  <2> QED
    BY <2>1, <2>2, <2>3 DEF ReadersInv, ReadersRing, NotOlder
<1>3. ASSUME \/ Readers!SetDone \/ Readers!Join \/ UNCHANGED Readers!vars
             \/ \E c \in Consumers : Readers!ConsumerStep(c)
      PROVE  ReadersRing'
  <2>1. /\ UNCHANGED <<journal_, published_index_, ReadersBegun>>
        /\ producer' = "store" => producer = "store"
    BY <1>3 DEF Readers!SetDone, Readers!Join, Readers!ConsumerStep, Readers!Poll,
                Readers!CheckDone, Readers!Recheck, Readers!Read, Readers!EndOfBatch,
                Readers!Goto, Readers!ProducerGoto, ReadersBegun
  <2> QED
    BY <2>1 DEF ReadersInv, ReadersRing, Readers!Payload, Readers!SlotOf, NotOlder
<1> QED
  BY <1>1, <1>2, <1>3 DEF Readers!Next, Readers!ProducerStep, Readers!Joined

\* What a reader appends to its history.
LEMMA ReadersSeenStep ==
    ASSUME NumOrders \in Nat, ReadersInv, [Readers!Next]_Readers!vars
    PROVE  ReadersSeen'
<1> DEFINE p == published_index_
<1>0. /\ p \in Nat /\ ReadersBegun \in {p, p + 1}
      /\ \A c \in Consumers : local_seq[c] \in Nat
  BY DEF ReadersInv, ReadersTypeOK, Readers!JournalTypeOK, ReadersBegun
<1>1. CASE Readers!Publish
  <2>1. /\ ReadersBegun' = p + 1 /\ UNCHANGED <<local_seq, seen>>
        /\ lapped' = lapped \union Readers!Laps(p)
    BY <1>1 DEF Readers!Publish, Readers!BeginCopy, Readers!ProducerGoto, ReadersBegun
  <2>2. ASSUME NEW c \in Consumers, c \notin lapped'
        PROVE  c \notin lapped /\ p + 1 <= local_seq[c] + Capacity
    <3>1. c \notin lapped /\ ~(p >= Capacity /\ local_seq[c] <= p - Capacity)
      BY <2>1, <2>2 DEF Readers!Laps
    <3> QED
      BY <1>0, <3>1, CapacityAssumption
  <2> QED
    BY <2>1, <2>2 DEF ReadersInv, ReadersSeen, NotOlder
<1>2. ASSUME NEW c \in Consumers, Readers!Read(c) PROVE ReadersSeen'
  <2>1. /\ local_seq' = [local_seq EXCEPT ![c] = @ + 1]
        /\ UNCHANGED <<lapped, published_index_, ReadersBegun>>
        /\ local_seq[c] < p
    BY <1>0, <1>2 DEF Readers!Read, Readers!Goto, ReadersBegun, ReadersInv, ReadersBounds,
                ReadersTypeOK, Readers!JournalTypeOK
  <2>2. /\ Len(seen'[c]) = local_seq[c] + 1
        /\ \A k \in 1 .. local_seq[c] : seen'[c][k] = seen[c][k]
        /\ seen'[c][local_seq[c] + 1] = Readers!Payload(local_seq[c])
        /\ \A d \in Consumers \ {c} : seen'[d] = seen[d]
    <3>1. Len(seen[c]) = local_seq[c]
      BY DEF ReadersInv, ReadersSeen
    <3> QED
      BY <1>2, <3>1, ReadAppends DEF ReadersInv
  <2>3. /\ local_seq'[c] = local_seq[c] + 1
        /\ \A d \in Consumers \ {c} : local_seq'[d] = local_seq[d]
    BY <2>1 DEF ReadersInv, ReadersTypeOK
  <2>4. ASSUME NEW k \in 1 .. local_seq[c] + 1 PROVE NotOlder(seen'[c][k], k - 1)
    <3>1. CASE k \in 1 .. local_seq[c]
      BY <2>2, <3>1 DEF ReadersInv, ReadersSeen
    <3>2. CASE k = local_seq[c] + 1
      <4>1. local_seq[c] < ReadersBegun /\ k - 1 = local_seq[c]
        BY <1>0, <2>1, <3>2
      <4>2. NotOlder(Readers!Payload(local_seq[c]), local_seq[c])
        BY <1>0, <4>1 DEF ReadersInv, ReadersRing
      <4> QED
        BY <2>2, <3>2, <4>1, <4>2
    <3> QED
      BY <1>0, <3>1, <3>2
  <2>5. ASSUME c \notin lapped, NEW k \in 1 .. local_seq[c] + 1
        PROVE  seen'[c][k] = k - 1
    <3>1. CASE k \in 1 .. local_seq[c]
      BY <2>2, <2>5, <3>1 DEF ReadersInv, ReadersSeen
    <3>2. CASE k = local_seq[c] + 1
      <4>1. k - 1 = local_seq[c]
        BY <1>0, <3>2
      <4>2. ReadersBegun <= local_seq[c] + Capacity
        BY <2>5 DEF ReadersInv, ReadersSeen
      <4>3. Readers!Payload(local_seq[c]) = local_seq[c]
        BY <1>0, <2>1, <4>2 DEF ReadersInv, ReadersRing
      <4> QED
        BY <2>2, <3>2, <4>1, <4>3
    <3> QED
      BY <1>0, <3>1, <3>2
  <2>6. c \notin lapped => ReadersBegun <= local_seq[c] + 1 + Capacity
    BY <1>0, CapacityAssumption DEF ReadersInv, ReadersSeen
  <2>7. /\ Len(seen'[c]) = local_seq'[c]
        /\ \A k \in 1 .. local_seq'[c] : NotOlder(seen'[c][k], k - 1)
        /\ c \notin lapped' =>
              /\ ReadersBegun' <= local_seq'[c] + Capacity
              /\ \A k \in 1 .. local_seq'[c] : seen'[c][k] = k - 1
    BY <2>1, <2>2, <2>3, <2>4, <2>5, <2>6
  <2>8. \A d \in Consumers \ {c} :
           /\ Len(seen'[d]) = local_seq'[d]
           /\ \A k \in 1 .. local_seq'[d] : NotOlder(seen'[d][k], k - 1)
           /\ d \notin lapped' =>
                 /\ ReadersBegun' <= local_seq'[d] + Capacity
                 /\ \A k \in 1 .. local_seq'[d] : seen'[d][k] = k - 1
    BY <2>1, <2>2, <2>3 DEF ReadersInv, ReadersSeen
  <2> QED
    BY <2>7, <2>8 DEF ReadersSeen, NotOlder
<1>3. CASE Readers!Next /\ ~Readers!Publish /\ ~(\E c \in Consumers : Readers!Read(c))
  <2>1. UNCHANGED <<local_seq, seen, lapped, ReadersBegun>>
    BY <1>3 DEF Readers!Next, Readers!ProducerStep, Readers!ConsumerStep, Readers!Joined,
                Readers!FinishCopy, Readers!EndCopy, Readers!StorePublished,
                Readers!StoreIndex, Readers!SetDone, Readers!Join, Readers!Poll,
                Readers!CheckDone, Readers!Recheck, Readers!EndOfBatch, Readers!Goto,
                Readers!ProducerGoto, ReadersBegun
  <2> QED
    BY <2>1 DEF ReadersInv, ReadersSeen, NotOlder
<1>4. CASE UNCHANGED Readers!vars
  <2>1. UNCHANGED <<local_seq, seen, lapped, ReadersBegun>>
    BY <1>4 DEF ReadersBegun
  <2> QED
    BY <2>1 DEF ReadersInv, ReadersSeen, NotOlder
<1> QED
  BY <1>1, <1>2, <1>3, <1>4

(* The inductive invariant: a reader follows its poll, the poll the index, *)
(* the done flag means that the index is final, and a reader that has lost *)
(* nothing has the rest of its messages in the ring.                       *)
THEOREM ReadersInvariance ==
    ASSUME NumOrders \in Nat
    PROVE  Readers!Spec => []ReadersInv
<1>1. Readers!Init => ReadersInv
  BY ReadersInit
<1>2. ReadersInv /\ [Readers!Next]_Readers!vars => ReadersInv'
  BY ReadersControlStep, ReadersRingStep, ReadersSeenStep DEF ReadersInv
<1> QED
  BY <1>1, <1>2, PTL DEF Readers!Spec

(* However its loads of the index and of the flag interleave with the      *)
(* producer, a reader of experiment 4 that has left has made a read for    *)
(* each message; and unless the producer overwrote a slot it had not read, *)
(* it found every message, once and in order.                              *)
THEOREM ReadersReadEverything ==
    ASSUME NumOrders \in Nat
    PROVE  Readers!Spec => []Readers!ReadsEverythingUntilLapped
<1>1. ReadersInv => Readers!ReadsEverythingUntilLapped
  BY DEF ReadersInv, ReadersDone, ReadersSeen, Readers!ReadsEverythingUntilLapped
<1> QED
  BY <1>1, ReadersInvariance, PTL

(* A lapped reader, of either program, finds newer messages in place of    *)
(* its own, or torn ones: never an older one and never an empty slot.      *)
THEOREM ReadersNeverGoBack ==
    ASSUME NumOrders \in Nat
    PROVE  Readers!Spec => []Readers!ReadsAreNotOlder
<1>1. ASSUME ReadersInv, NEW c \in Consumers, NEW k \in DOMAIN seen[c]
      PROVE  seen[c][k] = Torn \/ seen[c][k] \in k - 1 .. NumOrders - 1
  <2>1. k \in 1 .. local_seq[c]
    BY <1>1, LenProperties DEF ReadersInv, ReadersTypeOK, ReadersSeen
  <2> QED
    BY <1>1, <2>1 DEF ReadersInv, ReadersSeen, NotOlder
<1>2. ReadersInv => Readers!ReadsAreNotOlder
  BY <1>1 DEF Readers!ReadsAreNotOlder
<1> QED
  BY <1>2, ReadersInvariance, PTL

=============================================================================
