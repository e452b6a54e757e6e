------------------------ MODULE BackpressuredJournal ------------------------
(***************************************************************************)
(* The journal driven by the protocol its comments prescribe: the producer *)
(* calls try_publish() and retries the same sequence when it returns false;*)
(* every consumer polls get_published_index(), reads each payload it has   *)
(* not read yet, and reports its progress after each batch. The consumer   *)
(* loop is the one of Pipeline::run (include/pipeline.h). The producer     *)
(* calls of try_publish() are the caller's: no program of the repository   *)
(* makes them.                                                             *)
(***************************************************************************)
EXTENDS BroadcastJournal

CONSTANT MaxSequence    \* bound: the producer stops after this many orders

ASSUME MaxSequenceAssumption == MaxSequence \in Nat
ASSUME ConsumersAssumption == Consumers # {}

VARIABLES
    producer,   \* "try": about to call try_publish; "copy": inside the
                \* memcpy; "store": copied, index not stored yet
    reader,     \* per consumer: "poll", "drain", "report" or "exchange"
    local_seq,  \* per consumer: next sequence to read
    published   \* per consumer: the index value its last poll returned

vars == <<journalVars, producer, reader, local_seq, published>>

Init ==
    /\ JournalInit
    /\ producer = "try"
    /\ reader = [c \in Consumers |-> "poll"]
    /\ local_seq = [c \in Consumers |-> 0]
    /\ published = [c \in Consumers |-> 0]

-----------------------------------------------------------------------------
(* The producer. Its next sequence is the number of sequences published.   *)
(* The load of min_consumer_seq_ and the start of the copy are one step:   *)
(* only consumers touch that word in between and they only raise it, so    *)
(* room that was seen is still there. A try_publish() that returns false   *)
(* changes nothing.                                                        *)

TryPublish ==
    /\ producer = "try"
    /\ published_index_ < MaxSequence
    /\ HasRoom(published_index_)
    /\ BeginCopy(published_index_)
    /\ producer' = "copy"
    /\ UNCHANGED <<reader, local_seq, published>>

FinishCopy ==
    /\ producer = "copy"
    /\ EndCopy(published_index_)
    /\ producer' = "store"
    /\ UNCHANGED <<reader, local_seq, published>>

StorePublished ==
    /\ producer = "store"
    /\ StoreIndex(published_index_)
    /\ producer' = "try"
    /\ UNCHANGED <<reader, local_seq, published>>

-----------------------------------------------------------------------------
(* The consumers.                                                          *)

\* get_published_index(); nothing new means another turn of the spin loop.
Poll(c) ==
    /\ reader[c] = "poll"
    /\ published' = [published EXCEPT ![c] = published_index_]
    /\ reader' = [reader EXCEPT ![c] =
                    IF local_seq[c] >= published_index_ THEN "poll" ELSE "drain"]
    /\ UNCHANGED <<journalVars, producer, local_seq>>

\* One payload of the batch is read in place and the cursor moves on.
Read(c) ==
    /\ reader[c] = "drain"
    /\ local_seq[c] < published[c]
    /\ local_seq' = [local_seq EXCEPT ![c] = @ + 1]
    /\ UNCHANGED <<journalVars, producer, reader, published>>

\* The consumer polls again without reporting.
EndOfBatch_NoReport(c) ==
    /\ reader[c] = "drain"
    /\ local_seq[c] >= published[c]
    /\ reader' = [reader EXCEPT ![c] = "poll"]
    /\ UNCHANGED <<journalVars, producer, local_seq, published>>

EndOfBatch(c) ==
    /\ reader[c] = "drain"
    /\ local_seq[c] >= published[c]
    /\ reader' = [reader EXCEPT ![c] = "report"]
    /\ UNCHANGED <<journalVars, producer, local_seq, published>>

\* The loop test "while (consumer_seq > current_min)", on the value just loaded.
NextReportStep(c) == IF local_seq[c] > min_consumer_seq_ THEN "exchange" ELSE "poll"

LoadMin(c) ==
    /\ reader[c] = "report"
    /\ ReportLoad(c)
    /\ reader' = [reader EXCEPT ![c] = NextReportStep(c)]
    /\ UNCHANGED <<producer, local_seq, published>>

Exchange(c) ==
    /\ reader[c] = "exchange"
    /\ ReportExchange(c, local_seq[c])
    /\ reader' = [reader EXCEPT ![c] = "poll"]
    /\ UNCHANGED <<producer, local_seq, published>>

Retry(c) ==
    /\ reader[c] = "exchange"
    /\ ReportRetry(c)
    /\ reader' = [reader EXCEPT ![c] = NextReportStep(c)]
    /\ UNCHANGED <<producer, local_seq, published>>

-----------------------------------------------------------------------------
ProducerStep == TryPublish \/ FinishCopy \/ StorePublished

ConsumerStep(c) ==
    \/ Poll(c) \/ Read(c) \/ EndOfBatch(c)
    \/ LoadMin(c) \/ Exchange(c) \/ Retry(c)

Next == ProducerStep \/ \E c \in Consumers : ConsumerStep(c)

Spec == Init /\ [][Next]_vars

\* Every thread runs on a core of its own and is never stopped for good.
Fairness == WF_vars(ProducerStep) /\ \A c \in Consumers : WF_vars(ConsumerStep(c))

FairSpec == Spec /\ Fairness

-----------------------------------------------------------------------------
(* Properties.                                                             *)

TypeOK ==
    /\ JournalTypeOK
    /\ producer \in {"try", "copy", "store"}
    /\ reader \in [Consumers -> {"poll", "drain", "report", "exchange"}]
    /\ local_seq \in [Consumers -> Nat]
    /\ published \in [Consumers -> Nat]

\* Consumer c's unread messages are all still in the ring, whole.
UnreadIntact(c) ==
    \A s \in local_seq[c] .. published_index_ - 1 : Payload(s) = s

(* The comment on min_consumer_seq_ (broadcast_journal.h: "Slowest         *)
(* consumer's sequence - producer must not lap this"): with try_publish()  *)
(* and progress reports, no message any consumer has still to read is ever *)
(* overwritten. True for one consumer, false for two, because              *)
(* report_consumer_progress() raises the word to the furthest report.      *)
SlowestNotLapped == \A c \in Consumers : UnreadIntact(c)

(* What the protocol does guarantee for any number of consumers: at every  *)
(* moment at least one consumer (the one furthest ahead) has all of its    *)
(* unread messages intact, so the ring never loses a message for everyone. *)
FastestNotLapped == \E c \in Consumers : UnreadIntact(c)

(* The progress word never passes the published index: if it did, the      *)
(* unsigned subtraction of try_publish() would wrap and the producer would *)
(* be refused for ever.                                                    *)
ProgressNotAhead == min_consumer_seq_ <= published_index_

(* Concurrent reports race on the compare-and-exchange; whoever wins, the  *)
(* progress word never moves back, so room once granted is never revoked.  *)
ProgressMonotone == [][min_consumer_seq_' >= min_consumer_seq_]_vars

(* The retry loops of the producer and of the consumers do not wait on     *)
(* each other: every order is published and every consumer gets to the end.*)
EverythingRead ==
    <>(published_index_ = MaxSequence /\ \A c \in Consumers : local_seq[c] = MaxSequence)

=============================================================================
