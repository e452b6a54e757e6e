-------------------------- MODULE BroadcastJournal --------------------------
(***************************************************************************)
(* class BroadcastJournal<Capacity> of include/broadcast_journal.h: a ring *)
(* of slots written by one producer and read in place by every consumer,   *)
(* an index that publishes them, and a progress word for backpressure.     *)
(*                                                                         *)
(* This module is the object: its shared words and the atomic steps its    *)
(* methods are made of. The modules that EXTEND it are the programs that   *)
(* call it (BackpressuredJournal, Pipeline, JournalReaders); they hold the *)
(* threads.                                                                *)
(*                                                                         *)
(* Payloads. Sequence number s carries the s-th order, so a slot is        *)
(* modelled by the sequence number whose payload it holds.                 *)
(*                                                                         *)
(* Memory order. Every shared word is accessed with release stores and     *)
(* acquire loads, or is only ever raised (min_consumer_seq_), so           *)
(* interleaving whole accesses loses nothing. The slots are plain memory:  *)
(* the copy into a slot is two steps, and a slot between them is Torn.     *)
(***************************************************************************)
EXTENDS Integers

CONSTANTS Capacity,     \* number of slots; the code wants a power of two
          Consumers,    \* the reading threads
          Blank,        \* content of a slot nobody has written yet
          Torn          \* content of a slot whose memcpy is under way

ASSUME CapacityAssumption == Capacity \in Nat \ {0}
ASSUME MarkerAssumption == Blank \notin Nat /\ Torn \notin Nat /\ Blank # Torn

VARIABLES
    journal_,           \* [slot index -> content]
    published_index_,   \* number of sequences the producer has published
    min_consumer_seq_,  \* the progress word the producer is throttled by
    current_min         \* per consumer: the local of report_consumer_progress

journalVars == <<journal_, published_index_, min_consumer_seq_, current_min>>

SlotIds == 0 .. Capacity - 1

\* sequence & Mask
SlotOf(sequence) == sequence % Capacity

JournalInit ==
    /\ journal_ = [k \in SlotIds |-> Blank]
    /\ published_index_ = 0
    /\ min_consumer_seq_ = 0
    /\ current_min = [c \in Consumers |-> 0]

JournalTypeOK ==
    /\ journal_ \in [SlotIds -> Nat \union {Blank, Torn}]
    /\ published_index_ \in Nat
    /\ min_consumer_seq_ \in Nat
    /\ current_min \in [Consumers -> Nat]

-----------------------------------------------------------------------------
(* Producer: publish() is BeginCopy, EndCopy, StoreIndex; try_publish() is *)
(* the same behind HasRoom.                                                *)

\* A bug the ring size invites: one slot too many is handed out.
HasRoom_OffByOne(sequence) ==
    /\ min_consumer_seq_ <= sequence
    /\ sequence - min_consumer_seq_ <= Capacity

\* The negation of "sequence - min_seq >= Capacity" on unsigned words: a
\* min_seq beyond sequence wraps the difference to a huge value, hence no room.
HasRoom(sequence) ==
    /\ min_consumer_seq_ <= sequence
    /\ sequence - min_consumer_seq_ < Capacity

\* The mask is dropped: the copy lands past the ring.
BeginCopy_NoMask(sequence) ==
    /\ journal_' = [k \in SlotIds \union {sequence} |->
                        IF k = sequence THEN Torn ELSE journal_[k]]
    /\ UNCHANGED <<published_index_, min_consumer_seq_, current_min>>

\* The memcpy has started.
BeginCopy(sequence) ==
    /\ journal_' = [journal_ EXCEPT ![SlotOf(sequence)] = Torn]
    /\ UNCHANGED <<published_index_, min_consumer_seq_, current_min>>

\* The memcpy has ended.
EndCopy(sequence) ==
    /\ journal_' = [journal_ EXCEPT ![SlotOf(sequence)] = sequence]
    /\ UNCHANGED <<published_index_, min_consumer_seq_, current_min>>

\* The index is stored one too far.
StoreIndex_TooFar(sequence) ==
    /\ published_index_' = sequence + 2
    /\ UNCHANGED <<journal_, min_consumer_seq_, current_min>>

\* published_index_.store(sequence + 1, release)
StoreIndex(sequence) ==
    /\ published_index_' = sequence + 1
    /\ UNCHANGED <<journal_, min_consumer_seq_, current_min>>

-----------------------------------------------------------------------------
(* Consumer: report_consumer_progress(consumer_seq) is ReportLoad and then,*)
(* while consumer_seq > current_min, compare_exchange_weak. A failed       *)
(* exchange reloads current_min; a spurious failure reloads the same value *)
(* and is a stuttering step.                                               *)

\* The slot after the right one.
Payload_NextSlot(sequence) == journal_[SlotOf(sequence + 1)]

\* What get_payload(sequence) refers to.
Payload(sequence) == journal_[SlotOf(sequence)]

ReportLoad(c) ==
    /\ current_min' = [current_min EXCEPT ![c] = min_consumer_seq_]
    /\ UNCHANGED <<journal_, published_index_, min_consumer_seq_>>

\* The next sequence wanted is reported one too far.
ReportExchange_TooFar(c, consumer_seq) ==
    /\ min_consumer_seq_ = current_min[c]
    /\ min_consumer_seq_' = consumer_seq + 1
    /\ UNCHANGED <<journal_, published_index_, current_min>>

\* A plain store where the code has a compare-and-exchange.
ReportExchange_BlindStore(c, consumer_seq) ==
    /\ min_consumer_seq_' = consumer_seq
    /\ UNCHANGED <<journal_, published_index_, current_min>>

\* The exchange succeeds: the word still holds what this consumer expected.
ReportExchange(c, consumer_seq) ==
    /\ min_consumer_seq_ = current_min[c]
    /\ min_consumer_seq_' = consumer_seq
    /\ UNCHANGED <<journal_, published_index_, current_min>>

\* The exchange fails because another consumer moved the word.
ReportRetry(c) ==
    /\ min_consumer_seq_ # current_min[c]
    /\ current_min' = [current_min EXCEPT ![c] = min_consumer_seq_]
    /\ UNCHANGED <<journal_, published_index_, min_consumer_seq_>>

=============================================================================
