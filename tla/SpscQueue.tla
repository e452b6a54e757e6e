----------------------------- MODULE SpscQueue -----------------------------
(***************************************************************************)
(* class SpscQueue<Capacity> of include/spsc_queue.h, driven by its two    *)
(* threads: a producer that calls try_push() or push(), and a consumer     *)
(* that calls try_pop() and available(). One step is one access to a       *)
(* shared word; the copies into and out of a slot, plain memory, take two  *)
(* steps each, so that copies that overlap would show.                     *)
(*                                                                         *)
(* Each thread is the only writer of one counter, so the relaxed load of   *)
(* its own counter is not a step. The counters are 64 bits wide and are    *)
(* never reduced; wrapping them would take 2^64 pushes.                    *)
(***************************************************************************)
EXTENDS Integers, Sequences

CONSTANTS Capacity,     \* number of slots; the code wants a power of two
          Items,        \* what the producer pushes
          NoItem,       \* nothing popped, or written, yet; no item
          Torn,         \* a slot, or a copy, that mixes two contents; no item
          MaxPushes     \* bound: the producer starts no further push

VARIABLES
    slots_,     \* [slot index -> content]
    head_,      \* the producer's write position
    tail_,      \* the consumer's read position
    producer,   \* "idle", "room", "copy", "copying" or "store"
    call,       \* the call being made: "try_push" or "push"
    pushing,    \* its argument
    consumer,   \* "idle", "copy", "copying" or "store"
    first_read, \* what the slot held when the copy out of it began
    popping,    \* the copy
    popped      \* the item the latest successful try_pop() returned

queueVars == <<slots_, head_, tail_>>
producerVars == <<producer, call, pushing>>
consumerVars == <<consumer, first_read, popping, popped>>
vars == <<queueVars, producerVars, consumerVars>>

SlotIds == 0 .. Capacity - 1

\* The mask has one bit too few.
Mask_Short(position) == position % (Capacity \div 2)

Mask(position) == position % Capacity

Init ==
    /\ slots_ = [k \in SlotIds |-> NoItem]
    /\ head_ = 0
    /\ tail_ = 0
    /\ producer = "idle"
    /\ call = "push"
    /\ pushing = NoItem
    /\ consumer = "idle"
    /\ first_read = NoItem
    /\ popping = NoItem
    /\ popped = NoItem

-----------------------------------------------------------------------------
(* The producer.                                                           *)

Call(method, item) ==
    /\ producer = "idle"
    /\ head_ < MaxPushes
    /\ call' = method
    /\ pushing' = item
    /\ producer' = "room"
    /\ UNCHANGED <<queueVars, consumerVars>>

\* One slot too many is handed out.
Full_OffByOne == head_ - tail_ > Capacity

Full == head_ - tail_ >= Capacity

\* tail_.load(acquire) shows room.
SeeRoom ==
    /\ producer = "room"
    /\ ~Full
    /\ producer' = "copy"
    /\ UNCHANGED <<queueVars, call, pushing, consumerVars>>

\* It shows none: try_push() returns false, push() loads again.
SeeFull ==
    /\ producer = "room"
    /\ Full
    /\ producer' = IF call = "try_push" THEN "idle" ELSE "room"
    /\ UNCHANGED <<queueVars, call, pushing, consumerVars>>

BeginCopyIn ==
    /\ producer = "copy"
    /\ slots_' = [slots_ EXCEPT ![Mask(head_)] = Torn]
    /\ producer' = "copying"
    /\ UNCHANGED <<head_, tail_, call, pushing, consumerVars>>

EndCopyIn ==
    /\ producer = "copying"
    /\ slots_' = [slots_ EXCEPT ![Mask(head_)] = pushing]
    /\ producer' = "store"
    /\ UNCHANGED <<head_, tail_, call, pushing, consumerVars>>

\* head_.store(h + 1, release); the call returns.
StoreHead ==
    /\ producer = "store"
    /\ head_' = head_ + 1
    /\ producer' = "idle"
    /\ UNCHANGED <<slots_, tail_, call, pushing, consumerVars>>

-----------------------------------------------------------------------------
(* The consumer.                                                           *)

\* The last item is left in the queue.
HasItem_LeavesOne == tail_ + 1 < head_

HasItem == tail_ < head_

\* try_pop(): head_.load(acquire) shows an item. When it shows none the call
\* returns false and nothing changes.
TryPop ==
    /\ consumer = "idle"
    /\ HasItem
    /\ consumer' = "copy"
    /\ UNCHANGED <<queueVars, producerVars, first_read, popping, popped>>

BeginCopyOut ==
    /\ consumer = "copy"
    /\ first_read' = slots_[Mask(tail_)]
    /\ consumer' = "copying"
    /\ UNCHANGED <<queueVars, producerVars, popping, popped>>

\* A slot that changed under the copy leaves a mixture.
EndCopyOut ==
    /\ consumer = "copying"
    /\ popping' = IF slots_[Mask(tail_)] = first_read THEN first_read ELSE Torn
    /\ consumer' = "store"
    /\ UNCHANGED <<queueVars, producerVars, first_read, popped>>

\* tail_.store(t + 1, release); the call returns the copy.
StoreTail ==
    /\ consumer = "store"
    /\ tail_' = tail_ + 1
    /\ popped' = popping
    /\ consumer' = "idle"
    /\ UNCHANGED <<slots_, head_, producerVars, first_read, popping>>

-----------------------------------------------------------------------------
PushStep == SeeRoom \/ SeeFull \/ BeginCopyIn \/ EndCopyIn \/ StoreHead

PopStep == TryPop \/ BeginCopyOut \/ EndCopyOut \/ StoreTail

\* The producer has no more to push and the consumer finds nothing.
Drained ==
    /\ producer = "idle" /\ head_ >= MaxPushes
    /\ consumer = "idle" /\ tail_ >= head_
    /\ UNCHANGED vars

Next ==
    \/ \E method \in {"try_push", "push"}, item \in Items : Call(method, item)
    \/ PushStep \/ PopStep \/ Drained

Spec == Init /\ [][Next]_vars

\* A call that was made is executed, and the consumer keeps calling try_pop().
Fairness == WF_vars(PushStep) /\ WF_vars(PopStep)

FairSpec == Spec /\ Fairness

-----------------------------------------------------------------------------
(* Properties.                                                             *)

Contents == Items \union {NoItem, Torn}

TypeOK ==
    /\ slots_ \in [SlotIds -> Contents]
    /\ {head_, tail_} \subseteq Nat
    /\ producer \in {"idle", "room", "copy", "copying", "store"}
    /\ call \in {"try_push", "push"}
    /\ pushing \in Items \union {NoItem}
    /\ consumer \in {"idle", "copy", "copying", "store"}
    /\ {first_read, popping, popped} \subseteq Contents

\* The items between the two positions, oldest first.
Queued == [k \in 1 .. head_ - tail_ |-> slots_[Mask(tail_ + k - 1)]]

(* However the accesses of the two threads interleave, the ring is a       *)
(* bounded first-in first-out queue: nothing is lost, duplicated, mixed or *)
(* reordered, and what is pushed is what the call was given. A push takes  *)
(* effect at the store of head_ and a pop at the store of tail_.           *)
Fifo == INSTANCE BoundedFifo WITH queue <- Queued

IsBoundedFifo ==
    /\ Fifo!Spec
    /\ [][\A item \in Items : Fifo!Push(item) => item = pushing]_vars

(* The slots are plain memory: the two threads never copy into and out of  *)
(* the same slot at the same time.                                         *)
NoSlotShared ==
    producer \in {"copy", "copying"} /\ consumer \in {"copy", "copying"} =>
        Mask(head_) # Mask(tail_)

(* push() spins until it has room; since the consumer goes on popping, it  *)
(* always returns, and every item it has pushed is popped in the end.      *)
EveryPushIsPopped ==
    /\ (producer # "idle") ~> (producer = "idle")
    /\ \A n \in 1 .. MaxPushes : (head_ = n) ~> (tail_ >= n)

=============================================================================
