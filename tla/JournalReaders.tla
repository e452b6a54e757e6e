--------------------------- MODULE JournalReaders ---------------------------
(***************************************************************************)
(* The two programs of src/experiments.cpp that use the broadcast journal  *)
(* without books: every consumer reads every payload in place and nobody   *)
(* reports progress. They differ in how a consumer decides to leave when   *)
(* it has caught up and sees the done flag: experiment 4 (latency) reads   *)
(* the published index again, experiment 2 (broadcast scaling) does not.   *)
(* (Experiment 4 starts a single consumer; the readers do not affect each  *)
(* other, so several stand for several runs.)                              *)
(*                                                                         *)
(* The producer calls publish(), which waits for nobody, so a reader can   *)
(* be lapped as in Pipeline: get_payload() then refers to a newer order or *)
(* to one that is being copied. A consumer does nothing with the payload,  *)
(* so what it refers to is kept as the history seen. The per-message times *)
(* of experiment 4 are left out: they are written beside the cursor and    *)
(* read after the join.                                                    *)
(***************************************************************************)
EXTENDS BroadcastJournal, Sequences

CONSTANTS NumOrders     \* length of the input, a natural number

VARIABLES
    rechecks,   \* which program runs: TRUE experiment 4, FALSE experiment 2
    producer,   \* "publish", "copy", "store", "join" or "joined"
    done,
    reader,     \* per consumer: "poll", "check", "recheck", "drain", "gone"
    local_seq,  \* per consumer: next sequence to read; its count of reads when gone
    pub,        \* per consumer: the index value its last poll returned
    seen,       \* history, per consumer: what get_payload() referred to, in order
    lapped      \* history: the consumers that lost a slot they had not read

readerVars == <<reader, local_seq, pub, seen>>
vars == <<journalVars, rechecks, producer, done, readerVars, lapped>>

Orders == 0 .. NumOrders - 1

Init ==
    /\ JournalInit
    /\ rechecks \in BOOLEAN
    /\ producer = "publish"
    /\ done = FALSE
    /\ reader = [c \in Consumers |-> "poll"]
    /\ local_seq = [c \in Consumers |-> 0]
    /\ pub = [c \in Consumers |-> 0]
    /\ seen = [c \in Consumers |-> <<>>]
    /\ lapped = {}

-----------------------------------------------------------------------------
(* The producer; its loop counter is the number of orders published.       *)

ProducerGoto(step) == producer' = step /\ UNCHANGED <<rechecks, readerVars>>

\* Those that have not read what the slot of sequence i holds.
Laps(i) == {c \in Consumers : i >= Capacity /\ local_seq[c] <= i - Capacity}

Publish ==
    /\ producer = "publish"
    /\ published_index_ < NumOrders
    /\ BeginCopy(published_index_)
    /\ lapped' = lapped \union Laps(published_index_)
    /\ ProducerGoto("copy")
    /\ UNCHANGED done

FinishCopy ==
    /\ producer = "copy"
    /\ EndCopy(published_index_)
    /\ ProducerGoto("store")
    /\ UNCHANGED <<done, lapped>>

StorePublished ==
    /\ producer = "store"
    /\ StoreIndex(published_index_)
    /\ ProducerGoto("publish")
    /\ UNCHANGED <<done, lapped>>

SetDone ==
    /\ producer = "publish"
    /\ published_index_ >= NumOrders
    /\ done' = TRUE
    /\ ProducerGoto("join")
    /\ UNCHANGED <<journalVars, lapped>>

Join ==
    /\ producer = "join"
    /\ \A c \in Consumers : reader[c] = "gone"
    /\ ProducerGoto("joined")
    /\ UNCHANGED <<journalVars, done, lapped>>

-----------------------------------------------------------------------------
(* A consumer.                                                             *)

Goto(c, step) ==
    /\ reader' = [reader EXCEPT ![c] = step]
    /\ UNCHANGED <<journalVars, rechecks, producer, done, lapped>>

Poll(c) ==
    /\ reader[c] = "poll"
    /\ pub' = [pub EXCEPT ![c] = published_index_]
    /\ Goto(c, IF local_seq[c] >= published_index_ THEN "check" ELSE "drain")
    /\ UNCHANGED <<local_seq, seen>>

\* Experiment 2 leaves here; experiment 4 has one more load to make.
CheckDone(c) ==
    /\ reader[c] = "check"
    /\ \/ ~done /\ Goto(c, "poll")
       \/ done /\ rechecks /\ Goto(c, "recheck")
       \/ done /\ ~rechecks /\ Goto(c, "gone")
    /\ UNCHANGED <<local_seq, pub, seen>>

\* The consumer trusts the index it read before it saw the flag.
IndexNow_FromPoll(c) == pub[c]

\* get_published_index(), called once more
IndexNow(c) == published_index_

Recheck(c) ==
    /\ reader[c] = "recheck"
    /\ Goto(c, IF local_seq[c] >= IndexNow(c) THEN "gone" ELSE "poll")
    /\ UNCHANGED <<local_seq, pub, seen>>

\* get_payload(local_seq), in place and unchecked; then local_seq++
Read(c) ==
    /\ reader[c] = "drain"
    /\ local_seq[c] < pub[c]
    /\ seen' = [seen EXCEPT ![c] = Append(@, Payload(local_seq[c]))]
    /\ local_seq' = [local_seq EXCEPT ![c] = @ + 1]
    /\ Goto(c, "drain")
    /\ UNCHANGED pub

EndOfBatch(c) ==
    /\ reader[c] = "drain"
    /\ local_seq[c] >= pub[c]
    /\ Goto(c, "poll")
    /\ UNCHANGED <<local_seq, pub, seen>>

-----------------------------------------------------------------------------
ProducerStep == Publish \/ FinishCopy \/ StorePublished \/ SetDone \/ Join

ConsumerStep(c) ==
    Poll(c) \/ CheckDone(c) \/ Recheck(c) \/ Read(c) \/ EndOfBatch(c)

\* The experiment is over.
Joined == producer = "joined" /\ UNCHANGED vars

Next == ProducerStep \/ (\E c \in Consumers : ConsumerStep(c)) \/ Joined

Spec == Init /\ [][Next]_vars

-----------------------------------------------------------------------------
(* Properties.                                                             *)

(* A reader of experiment 4 leaves after as many reads as there are        *)
(* messages, however its loads of the index and of the flag interleave     *)
(* with the stores. Unless a slot it had not read was overwritten, what it *)
(* found in the slots is every message, once and in order.                 *)
ReadsEverythingUntilLapped ==
    \A c \in Consumers :
        rechecks /\ reader[c] = "gone" =>
            /\ Len(seen[c]) = NumOrders
            /\ c \notin lapped => \A k \in 1 .. NumOrders : seen[c][k] = k - 1

(* Whatever a reader of either program finds in place of a message is a    *)
(* newer one or one that is being copied; never an older one, nor a slot   *)
(* nobody has written. The index is stored after the payload it publishes. *)
ReadsAreNotOlder ==
    \A c \in Consumers : \A k \in DOMAIN seen[c] :
        seen[c][k] = Torn \/ seen[c][k] \in k - 1 .. NumOrders - 1

(* README.md, the scaling table: "Each consumer independently reads all"   *)
(* messages. It does not in experiment 2, even in a ring that holds them   *)
(* all: a consumer that polled before the last publish and loads the flag  *)
(* after it leaves with what its last poll showed.                         *)
EveryoneReadsEverything ==
    \A c \in Consumers :
        reader[c] = "gone" => \A s \in Orders : \E k \in DOMAIN seen[c] : seen[c][k] = s

=============================================================================
