----------------------------- MODULE MC_Journal -----------------------------
(***************************************************************************)
(* The two programs on the broadcast journal that keep to it alone: the    *)
(* backpressure protocol, and the readers of experiments 2 and 4. Each has *)
(* a journal of its own; program, chosen initially, says which one runs.   *)
(***************************************************************************)
EXTENDS BackpressuredJournal

CONSTANT NumOrders      \* bound: how many orders the readers are sent

VARIABLES
    program,            \* "protocol" or "readers"
    ring, index, minimum, minimum_read,     \* the journal of the readers
    rechecks, publisher, done, step, cursor, polled, seen, lapped

Readers == INSTANCE JournalReaders WITH
               journal_ <- ring, published_index_ <- index,
               min_consumer_seq_ <- minimum, current_min <- minimum_read,
               producer <- publisher, reader <- step,
               local_seq <- cursor, pub <- polled

readersVars ==
    <<ring, index, minimum, minimum_read,
      rechecks, publisher, done, step, cursor, polled, seen, lapped>>

MCInit == Init /\ Readers!Init /\ program \in {"protocol", "readers"}

MCNext ==
    \/ program = "protocol" /\ Next /\ UNCHANGED <<program, readersVars>>
    \/ program = "readers" /\ Readers!Next /\ UNCHANGED <<program, vars>>

\* The readers are checked for safety only, so nothing is assumed of them.
MCSpec ==
    /\ MCInit /\ [][MCNext]_<<program, vars, readersVars>>
    /\ program = "protocol" => Fairness

-----------------------------------------------------------------------------
(* With try_publish() and progress reports, the retry loops of producer    *)
(* and consumers do not wait on each other: everybody gets to the end.     *)
ProtocolGetsThrough == program = "protocol" => EverythingRead

(* A reader of experiment 4 (rechecks) leaves after as many reads as there *)
(* are messages, however its loads of the index and of the flag interleave *)
(* with the stores; and unless publish() overwrote a slot it had not read, *)
(* what it found in the slots is every message, once and in order.         *)
ReadsEverythingUntilLapped == Readers!ReadsEverythingUntilLapped

(* Whatever a reader of either program finds in place of a message is a    *)
(* newer one or one that is being copied; never an older one, nor a slot   *)
(* nobody has written.                                                     *)
ReadsAreNotOlder == Readers!ReadsAreNotOlder

=============================================================================
