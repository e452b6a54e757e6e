---------------------------- MODULE FlatOrderMap ----------------------------
(***************************************************************************)
(* class FlatOrderMap of include/order_book.h: the open-addressing hash    *)
(* table an OrderBook keeps its live orders in. Collisions probe the next  *)
(* slot, erase() leaves a tombstone, insert() doubles the table when it is *)
(* three quarters full of live orders.                                     *)
(*                                                                         *)
(* hash() is an arbitrary function of the reference (CONSTANT Hash). A slot*)
(* that is not occupied holds EMPTY or TOMBSTONE in its order_ref field,   *)
(* so it is modelled by that mark. The data is what the book keeps of an   *)
(* order. The caller is OrderBook: it inserts a reference that is not live,*)
(* and changes or erases one that find() returned.                         *)
(***************************************************************************)
EXTENDS Integers, FiniteSetsExt

CONSTANTS Refs, Data,
          Hash,             \* [Refs -> Nat]
          DefaultCapacity,  \* 2^20 in the code
          MaxCapacity,      \* bound: no insert that would grow beyond it
          None, EMPTY, TOMBSTONE

ASSUME HashAssumption == Hash \in [Refs -> Nat]
\* A table of fewer than 4 slots would be full before it is three quarters full.
ASSUME CapacityAssumption ==
    DefaultCapacity \in Nat /\ DefaultCapacity >= 4 /\ MaxCapacity \in Nat
ASSUME MarkAssumption ==
    /\ EMPTY # TOMBSTONE
    /\ {EMPTY, TOMBSTONE} \cap [order_ref : Refs, data : Data] = {}

ASSUME NoneAssumption == None \notin Data

VARIABLES
    slots_,     \* [0 .. capacity_ - 1 -> mark, or [order_ref, data]]
    capacity_,
    size_       \* number of live orders

vars == <<slots_, capacity_, size_>>

Marks == {EMPTY, TOMBSTONE}

Init ==
    /\ capacity_ = DefaultCapacity
    /\ slots_ = [idx \in 0 .. DefaultCapacity - 1 |-> EMPTY]
    /\ size_ = 0

-----------------------------------------------------------------------------
(* Probing. A table is passed so that rehash() can probe the new one.      *)

\* Where the probe for ref looks at its k-th step; idx & mask_ is modulo.
Place(ref, k, capacity) == (Hash[ref] + k) % capacity

Occupied(table, idx) == table[idx] \notin Marks

Holds(table, idx, ref) == Occupied(table, idx) /\ table[idx].order_ref = ref

\* The steps of ref's probe, at most capacity of them, at which Stop holds.
StepsWhere(ref, capacity, Stop(_)) ==
    {k \in 0 .. capacity - 1 : Stop(Place(ref, k, capacity))}

NotFound == -1

\* find(): the place of ref, or nullptr at the first EMPTY slot or after a
\* full turn. erase() walks the same way.
Find(ref) ==
    LET stops == StepsWhere(ref, capacity_,
                     LAMBDA idx : slots_[idx] = EMPTY \/ Holds(slots_, idx, ref))
        idx == Place(ref, Min(stops), capacity_)
    IN  IF stops = {} \/ slots_[idx] = EMPTY THEN NotFound ELSE idx

\* The place insert() writes: the first free slot, tombstones included, or
\* the slot that holds ref already, whichever comes first.
InsertSteps(table, capacity, ref) ==
    StepsWhere(ref, capacity,
               LAMBDA idx : ~Occupied(table, idx) \/ Holds(table, idx, ref))

InsertPlace(table, capacity, ref) ==
    Place(ref, Min(InsertSteps(table, capacity, ref)), capacity)

\* Old entries keep their old places.
Rehashed_CopyOnly(new_cap) ==
    [idx \in 0 .. new_cap - 1 |-> IF idx < capacity_ THEN slots_[idx] ELSE EMPTY]

\* rehash(): the live entries, in slot order, into an empty table.
Rehashed(new_cap) ==
    LET blank == [idx \in 0 .. new_cap - 1 |-> EMPTY]
        moved[n \in 0 .. capacity_] ==
            IF n = 0 THEN blank
            ELSE LET table == moved[n - 1]
                     slot == slots_[n - 1]
                     free == StepsWhere(slot.order_ref, new_cap,
                                        LAMBDA idx : ~Occupied(table, idx))
                 IN  IF slot \in Marks THEN table
                     ELSE [table EXCEPT
                             ![Place(slot.order_ref, Min(free), new_cap)] = slot]
    IN  moved[capacity_]

-----------------------------------------------------------------------------
(* The operations.                                                         *)

MustGrow == size_ * 4 >= capacity_ * 3

\* insert(order_ref, order)
insert(ref, data) ==
    /\ Find(ref) = NotFound
    /\ LET capacity == IF MustGrow THEN capacity_ * 2 ELSE capacity_
           table == IF MustGrow THEN Rehashed(capacity) ELSE slots_
           idx == InsertPlace(table, capacity, ref)
       IN  /\ capacity <= MaxCapacity
           /\ InsertSteps(table, capacity, ref) # {}  \* else the loop never ends
           /\ capacity_' = capacity
           /\ slots_' = [table EXCEPT ![idx] = [order_ref |-> ref, data |-> data]]
           /\ size_' = IF Occupied(table, idx) THEN size_ ELSE size_ + 1

\* The caller writes through the pointer find() returned.
change(ref, data) ==
    /\ Find(ref) # NotFound
    /\ slots_' = [slots_ EXCEPT ![Find(ref)].data = data]
    /\ UNCHANGED <<capacity_, size_>>

\* The slot is marked as if no probe had ever passed over it.
ErasedMark_Empty == EMPTY

ErasedMark == TOMBSTONE

\* The count is not taken down.
SizeErased_Kept == size_

SizeErased == size_ - 1

\* erase(order_ref)
erase(ref) ==
    /\ Find(ref) # NotFound
    /\ slots_' = [slots_ EXCEPT ![Find(ref)] = ErasedMark]
    /\ size_' = SizeErased
    /\ UNCHANGED capacity_

Next ==
    \E ref \in Refs :
        \/ erase(ref)
        \/ \E data \in Data : insert(ref, data) \/ change(ref, data)

Spec == Init /\ [][Next]_vars

-----------------------------------------------------------------------------
(* Properties.                                                             *)

PlacesOf(ref) == {idx \in DOMAIN slots_ : Holds(slots_, idx, ref)}

(* Whatever collisions, tombstones and growth have done to the table, what *)
(* find() answers is what was inserted and changed last and not erased     *)
(* since: the table is a map.                                              *)
Map == INSTANCE LiveOrderMap WITH
           orders <- [r \in Refs |->
                         IF Find(r) = NotFound THEN None ELSE slots_[Find(r)].data]

IsLiveOrderMap == Map!Spec

(* size_ is what triggers growth: it counts the occupied slots exactly, and*)
(* so the unbounded probe loop of insert() always finds a slot to stop at. *)
SizeIsExact ==
    /\ size_ = Cardinality({idx \in DOMAIN slots_ : Occupied(slots_, idx)})
    /\ \A ref \in Refs : InsertSteps(slots_, capacity_, ref) # {}

(* Each reference has one slot at most, and find() reaches it: no order is *)
(* left behind an EMPTY slot or an older copy of itself. It needs a caller *)
(* that inserts no live reference: insert() has a branch to overwrite one, *)
(* but stops at a tombstone before it reaches it.                          *)
OneReachableSlot ==
    \A ref \in Refs : PlacesOf(ref) = {Find(ref)} \ {NotFound}

=============================================================================
