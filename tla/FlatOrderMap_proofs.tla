------------------------ MODULE FlatOrderMap_proofs ------------------------
(***************************************************************************)
(* The hash table of a book is a map, for every hash, every number of      *)
(* orders and every initial capacity of at least 4.                        *)
(*                                                                         *)
(* Three facts about a table carry each other (Sound, and the count): the  *)
(* probe for a live reference reaches its slot over slots that are not     *)
(* EMPTY, which is what a tombstone is for; no reference has two slots;    *)
(* and there is always a free slot, since a table that is three quarters   *)
(* full grows first. rehash() establishes them entry by entry.             *)
(***************************************************************************)
EXTENDS FlatOrderMap, RingsAndSequences, FunctionTheorems, FiniteSetTheorems

Entry == [order_ref : Refs, data : Data]

\* Tables of a capacity.
Tables(c) == [0 .. c - 1 -> Marks \union Entry]

Taken(T, c) == {i \in 0 .. c - 1 : Occupied(T, i)}

HeldRefs(T, c) == {T[i].order_ref : i \in Taken(T, c)}

\* The probe for the reference in a slot gets there, over slots that are not EMPTY.
Reached(T, c, i) ==
    \E k \in 0 .. c - 1 :
        /\ Place(T[i].order_ref, k, c) = i
        /\ \A j \in 0 .. k - 1 : T[Place(T[i].order_ref, j, c)] # EMPTY

Sound(T, c) ==
    /\ \A i \in Taken(T, c) : Reached(T, c, i)
    /\ \A i, j \in Taken(T, c) : T[i].order_ref = T[j].order_ref => i = j

-----------------------------------------------------------------------------
(* Probes.                                                                 *)

\* Min of a set of naturals is its least element.
LEMMA MinIsLeast ==
    ASSUME NEW S \in SUBSET Nat, S # {}
    PROVE  Min(S) \in S /\ \A y \in S : Min(S) <= y
  BY LeastElement DEF Min

\* A mark is no entry, and a slot without a mark is one.
LEMMA MarksAndEntries ==
    ASSUME NEW c \in Nat, NEW T \in Tables(c), NEW i \in 0 .. c - 1
    PROVE  /\ Occupied(T, i) <=> T[i] \in Entry
           /\ Occupied(T, i) => T[i] # EMPTY /\ T[i] # TOMBSTONE
           /\ ~Occupied(T, i) <=> T[i] \in Marks
  BY MarkAssumption DEF Tables, Occupied, Marks, Entry

\* Every place of a probe is a slot.
LEMMA PlaceInTable ==
    ASSUME NEW c \in Nat \ {0}, NEW ref \in Refs, NEW k \in Nat
    PROVE  Place(ref, k, c) \in 0 .. c - 1
<1>1. Hash[ref] + k \in Nat
  BY HashAssumption
<1> QED
  BY <1>1, ModInRing DEF Place

\* A full turn comes by every slot.
LEMMA ProbeTurns ==
    ASSUME NEW c \in Nat \ {0}, NEW ref \in Refs, NEW i \in 0 .. c - 1
    PROVE  \E k \in 0 .. c - 1 : Place(ref, k, c) = i
<1> DEFINE h == Hash[ref]
<1> DEFINE k == (i - h) % c
<1>1. h \in Nat /\ i - h \in Int
  BY HashAssumption
<1>2. k \in 0 .. c - 1
  <2> HIDE DEF h
  <2> QED
    BY <1>1, Z3
<1>3. (k + h) % c = ((i - h) + h) % c
  <2> DEFINE a == i - h
  <2>1. a \in Int /\ h \in Int
    BY <1>1
  <2> HIDE DEF h, a
  <2>2. ((a % c) + h) % c = (a + h) % c
    BY <2>1, IntModShift
  <2> QED
    BY <2>2 DEF a
<1>4. (i - h) + h = i /\ i % c = i
  <2> HIDE DEF h
  <2> QED
    BY <1>1, ModSmall
<1>5. h + k = k + h
  <2> HIDE DEF h, k
  <2> QED
    BY <1>1, <1>2
<1>6. Place(ref, k, c) = i
  <2>1. Place(ref, k, c) = (h + k) % c
    BY DEF Place
  <2> QED
    BY <1>3, <1>4, <1>5, <2>1
<1> HIDE DEF k
<1> QED
  BY <1>2, <1>6

\* So a probe finds a free slot when there is one, and passes only taken ones before.
LEMMA FirstFree ==
    ASSUME NEW c \in Nat \ {0}, NEW T \in Tables(c), NEW ref \in Refs,
           \E i \in 0 .. c - 1 : ~Occupied(T, i),
           NEW free, free = {k \in 0 .. c - 1 : ~Occupied(T, Place(ref, k, c))}
    PROVE  /\ free # {}
           /\ Min(free) \in 0 .. c - 1
           /\ ~Occupied(T, Place(ref, Min(free), c))
           /\ \A j \in 0 .. Min(free) - 1 : Occupied(T, Place(ref, j, c))
<1>1. free # {} /\ free \in SUBSET Nat
  BY ProbeTurns
<1>2. Min(free) \in free /\ \A y \in free : Min(free) <= y
  BY <1>1, MinIsLeast
<1>3. Min(free) \in 0 .. c - 1 /\ ~Occupied(T, Place(ref, Min(free), c))
  <2> DEFINE m == Min(free)
  <2>1. m \in free
    BY <1>2
  <2> HIDE DEF m
  <2> QED
    BY <2>1 DEF m
<1>4. ASSUME NEW j \in 0 .. Min(free) - 1 PROVE Occupied(T, Place(ref, j, c))
  <2> DEFINE m == Min(free)
  <2>1. m \in 0 .. c - 1 /\ \A y \in free : m <= y
    BY <1>2, <1>3
  <2>2. j \in 0 .. m - 1
    BY <1>4
  <2> HIDE DEF m
  <2>3. j \in 0 .. c - 1 /\ ~(m <= j)
    BY <2>1, <2>2
  <2>4. j \notin free
    BY <2>1, <2>3
  <2> QED
    BY <2>3, <2>4
<1> QED
  BY <1>1, <1>3, <1>4

-----------------------------------------------------------------------------
(* What the operations write.                                              *)

Written(T, at, e) == [T EXCEPT ![at] = e]

\* The free slot at a step of the probe of e, which has no slot, and which passes only
\* taken slots before.
MayPut(T, c, e, k) ==
    /\ e \in Entry /\ e.order_ref \notin HeldRefs(T, c)
    /\ k \in 0 .. c - 1 /\ ~Occupied(T, Place(e.order_ref, k, c))
    /\ \A j \in 0 .. k - 1 : Occupied(T, Place(e.order_ref, j, c))

\* An entry is put in a free slot that its probe reaches.
LEMMA Put ==
    ASSUME NEW c \in Nat \ {0}, NEW T \in Tables(c), Sound(T, c), NEW e, NEW k, MayPut(T, c, e, k),
           NEW at, at = Place(e.order_ref, k, c), NEW T2, T2 = Written(T, at, e)
    PROVE  /\ at \in (0 .. c - 1) \ Taken(T, c)
           /\ T2 \in Tables(c) /\ Sound(T2, c)
           /\ T2[at] = e /\ \A i \in 0 .. c - 1 : i # at => T2[i] = T[i]
           /\ Taken(T2, c) = Taken(T, c) \union {at}
<1> USE DEF MayPut, Written
<1> DEFINE ref == e.order_ref
<1>1. ref \in Refs
  BY DEF Entry
<1>2. at \in (0 .. c - 1) \ Taken(T, c)
  BY <1>1, PlaceInTable DEF Taken
<1>3. T2 \in Tables(c) /\ T2[at] = e /\ \A i \in 0 .. c - 1 : i # at => T2[i] = T[i]
  BY <1>2 DEF Tables
<1>e. e # EMPTY /\ e \notin Marks
  BY MarkAssumption DEF Entry, Marks
<1>4. Taken(T2, c) = Taken(T, c) \union {at}
  BY <1>2, <1>3, <1>e DEF Taken, Occupied
<1>5. \A i \in Taken(T, c) : i # at /\ T2[i] = T[i] /\ T[i] \in Entry /\ T[i].order_ref \in Refs
  BY <1>2, <1>3, MarksAndEntries DEF Taken, Entry
<1>6. \A i \in 0 .. c - 1 : T[i] # EMPTY => T2[i] # EMPTY
  BY <1>3, <1>e
<1>7. ASSUME NEW i \in Taken(T2, c) PROVE Reached(T2, c, i)
  <2>1. CASE i = at
    <3>1. \A j \in 0 .. k - 1 : Place(ref, j, c) \in 0 .. c - 1
      BY <1>1, PlaceInTable
    <3>2. \A j \in 0 .. k - 1 : T2[Place(ref, j, c)] # EMPTY
      BY <1>6, <3>1, MarksAndEntries
    <3> QED
      BY <1>3, <2>1, <3>2 DEF Reached
  <2>2. CASE i \in Taken(T, c)
    <3> DEFINE own == T[i].order_ref
    <3>1. own \in Refs /\ T2[i].order_ref = own
      BY <1>5, <2>2
    <3>2. PICK step \in 0 .. c - 1 : /\ Place(own, step, c) = i
                                     /\ \A j \in 0 .. step - 1 : T[Place(own, j, c)] # EMPTY
      BY <2>2 DEF Sound, Reached
    <3> HIDE DEF own
    <3>3. \A j \in 0 .. step - 1 : Place(own, j, c) \in 0 .. c - 1
      BY <3>1, PlaceInTable
    <3>4. \A j \in 0 .. step - 1 : T2[Place(own, j, c)] # EMPTY
      BY <1>6, <3>2, <3>3
    <3> QED
      BY <3>1, <3>2, <3>4 DEF Reached
  <2> QED
    BY <1>4, <2>1, <2>2
<1>8. ASSUME NEW i \in Taken(T2, c), NEW j \in Taken(T2, c), T2[i].order_ref = T2[j].order_ref
      PROVE  i = j
  <2>1. \A n \in Taken(T, c) : T2[n].order_ref = T[n].order_ref /\ T[n].order_ref # ref
    BY <1>5 DEF HeldRefs
  <2>2. T2[at].order_ref = ref
    BY <1>3
  <2> HIDE DEF ref
  <2> QED
    BY <1>4, <1>8, <2>1, <2>2 DEF Sound
<1>9. Sound(T2, c)
  BY <1>7, <1>8 DEF Sound
<1> QED
  BY <1>2, <1>3, <1>4, <1>9

\* A table stays sound when no slot becomes EMPTY and none gets another reference.
LEMMA StaysSound ==
    ASSUME NEW c \in Nat \ {0}, NEW T \in Tables(c), Sound(T, c), NEW T2 \in Tables(c),
           \A i \in 0 .. c - 1 : T[i] # EMPTY => T2[i] # EMPTY,
           \A i \in Taken(T2, c) : i \in Taken(T, c) /\ T2[i].order_ref = T[i].order_ref
    PROVE  Sound(T2, c)
<1>1. ASSUME NEW i \in Taken(T2, c) PROVE Reached(T2, c, i)
  <2> DEFINE own == T[i].order_ref
  <2>1. own \in Refs /\ T2[i].order_ref = own /\ i \in Taken(T, c)
    BY MarksAndEntries DEF Taken, Entry
  <2>2. PICK step \in 0 .. c - 1 : /\ Place(own, step, c) = i
                                   /\ \A j \in 0 .. step - 1 : T[Place(own, j, c)] # EMPTY
    BY <2>1 DEF Sound, Reached
  <2> HIDE DEF own
  <2>3. \A j \in 0 .. step - 1 : Place(own, j, c) \in 0 .. c - 1
    BY <2>1, PlaceInTable
  <2>4. \A j \in 0 .. step - 1 : T2[Place(own, j, c)] # EMPTY
    BY <2>2, <2>3
  <2> QED
    BY <2>1, <2>2, <2>4 DEF Reached
<1>2. \A i, j \in Taken(T2, c) : T2[i].order_ref = T2[j].order_ref => i = j
  BY DEF Sound
<1> QED
  BY <1>1, <1>2 DEF Sound

\* As many slots are taken as references are held, no more than there are slots.
LEMMA TakenCount ==
    ASSUME NEW c \in Nat \ {0}, NEW T \in Tables(c), Sound(T, c)
    PROVE  /\ IsFiniteSet(Taken(T, c)) /\ IsFiniteSet(HeldRefs(T, c))
           /\ Cardinality(Taken(T, c)) \in Nat
           /\ Cardinality(Taken(T, c)) <= c
           /\ Cardinality(HeldRefs(T, c)) = Cardinality(Taken(T, c))
           /\ Cardinality(Taken(T, c)) < c => \E i \in 0 .. c - 1 : ~Occupied(T, i)
<1>1. IsFiniteSet(0 .. c - 1) /\ Cardinality(0 .. c - 1) = c
  BY FS_Interval
<1>2. Taken(T, c) \in SUBSET (0 .. c - 1)
  BY DEF Taken
<1>3. /\ IsFiniteSet(Taken(T, c)) /\ Cardinality(Taken(T, c)) <= c
  BY <1>1, <1>2, FS_Subset
<1>4. Cardinality(Taken(T, c)) \in Nat
  BY <1>3, FS_CardinalityType
<1>5. Cardinality(Taken(T, c)) < c => \E i \in 0 .. c - 1 : ~Occupied(T, i)
  <2> SUFFICES ASSUME Cardinality(Taken(T, c)) < c, \A i \in 0 .. c - 1 : Occupied(T, i)
               PROVE  FALSE
    OBVIOUS
  <2>1. Taken(T, c) = 0 .. c - 1
    BY DEF Taken
  <2> QED
    BY <1>1, <1>4, <2>1
<1>6. IsFiniteSet(HeldRefs(T, c)) /\ Cardinality(HeldRefs(T, c)) = Cardinality(Taken(T, c))
  <2> DEFINE f == [i \in Taken(T, c) |-> T[i].order_ref]
  <2>1. f \in Bijection(Taken(T, c), HeldRefs(T, c))
    <3>1. f \in [Taken(T, c) -> HeldRefs(T, c)]
      BY DEF HeldRefs
    <3>2. \A i, j \in Taken(T, c) : f[i] = f[j] => i = j
      BY DEF Sound
    <3>3. \A r \in HeldRefs(T, c) : \E i \in Taken(T, c) : f[i] = r
      BY DEF HeldRefs
    <3> HIDE DEF f
    <3> QED
      BY <3>1, <3>2, <3>3 DEF Bijection, Injection, IsInjective, Surjection
  <2>2. ExistsBijection(Taken(T, c), HeldRefs(T, c))
    BY <2>1 DEF ExistsBijection
  <2> QED
    BY <1>3, <2>2, FS_Bijection
<1> QED
  BY <1>3, <1>4, <1>5, <1>6

-----------------------------------------------------------------------------
(* rehash(): a recursive function over the old slots.                      *)

Blank(new_cap) == [idx \in 0 .. new_cap - 1 |-> EMPTY]

\* The new table after the old slot has been looked at.
Moved(table, slot, new_cap) ==
    IF slot \in Marks THEN table
    ELSE [table EXCEPT
             ![Place(slot.order_ref,
                     Min(StepsWhere(slot.order_ref, new_cap,
                                    LAMBDA idx : ~Occupied(table, idx))),
                     new_cap)] = slot]

\* What the function says of one of its values.
MoveStep(moved, n, new_cap) ==
    IF n = 0 THEN Blank(new_cap) ELSE Moved(moved[n - 1], slots_[n - 1], new_cap)

\* The functions that agree with it up to the old slot n.
MovesUpTo(moved, n, new_cap) ==
    moved = [m \in 0 .. n |-> MoveStep(moved, m, new_cap)]

\* There is one for any number of slots: the least number without one would have one.
LEMMA MovesExist ==
    ASSUME NEW new_cap, NEW last \in Nat
    PROVE  \E moved : MovesUpTo(moved, last, new_cap)
<1> DEFINE Without == {n \in Nat : ~\E moved : MovesUpTo(moved, n, new_cap)}
<1> SUFFICES ASSUME Without # {} PROVE FALSE
  OBVIOUS
<1>1. Without \in SUBSET Nat
  OBVIOUS
<1>2. PICK n \in Without : \A m \in Without : n <= m
  <2> HIDE DEF Without
  <2> QED
    BY <1>1, LeastElement
<1>3. n \in Nat /\ ~\E moved : MovesUpTo(moved, n, new_cap)
  OBVIOUS
<1>4. CASE n = 0
  <2> DEFINE moved == [m \in 0 .. 0 |-> Blank(new_cap)]
  <2>1. \A m \in 0 .. 0 : moved[m] = MoveStep(moved, m, new_cap)
    BY DEF MoveStep
  <2>2. moved = [m \in 0 .. 0 |-> moved[m]]
    OBVIOUS
  <2> HIDE DEF moved
  <2>3. moved = [m \in 0 .. 0 |-> MoveStep(moved, m, new_cap)]
    BY <2>1, <2>2
  <2> QED
    BY <1>3, <1>4, <2>3 DEF MovesUpTo
<1>5. CASE n # 0
  <2>1. n - 1 \in Nat /\ ~(n <= n - 1)
    BY <1>3, <1>5
  <2>2. n - 1 \notin Without
    BY <1>2, <2>1
  <2>3. PICK before : MovesUpTo(before, n - 1, new_cap)
    BY <2>1, <2>2
  <2> DEFINE moved == [m \in 0 .. n |-> IF m = n THEN MoveStep(before, n, new_cap) ELSE before[m]]
  <2>4. \A m \in 0 .. n - 1 : m \in 0 .. n /\ m # n /\ (m # 0 => m - 1 \in 0 .. n - 1)
    BY <1>3
  <2>5. \A m \in 0 .. n - 1 : before[m] = MoveStep(before, m, new_cap)
    BY <2>3 DEF MovesUpTo
  <2>6. /\ \A m \in 0 .. n - 1 : moved[m] = before[m]
        /\ moved[n] = MoveStep(before, n, new_cap)
        /\ moved = [m \in 0 .. n |-> moved[m]]
    BY <1>3, <2>4
  <2> HIDE DEF moved
  <2>7. ASSUME NEW m \in 0 .. n PROVE moved[m] = MoveStep(moved, m, new_cap)
    <3>1. MoveStep(moved, m, new_cap) = MoveStep(before, m, new_cap)
      <4>1. m # 0 => m - 1 \in 0 .. n - 1
        BY <1>3
      <4> QED
        BY <2>6, <4>1 DEF MoveStep
    <3>2. m = n \/ m \in 0 .. n - 1
      BY <1>3
    <3> QED
      BY <2>5, <2>6, <3>1, <3>2
  <2>8. moved = [m \in 0 .. n |-> MoveStep(moved, m, new_cap)]
    BY <2>6, <2>7
  <2> QED
    BY <1>3, <2>8 DEF MovesUpTo
<1> QED
  BY <1>4, <1>5

\* Rehashed is the last value of that function.
LEMMA RehashedMoves ==
    ASSUME NEW new_cap, capacity_ \in Nat
    PROVE  \E moved : /\ Rehashed(new_cap) = moved[capacity_]
                      /\ moved[0] = Blank(new_cap)
                      /\ \A n \in 1 .. capacity_ :
                             moved[n] = Moved(moved[n - 1], slots_[n - 1], new_cap)
<1> DEFINE moved == CHOOSE m : MovesUpTo(m, capacity_, new_cap)
<1>1. MovesUpTo(moved, capacity_, new_cap)
  BY MovesExist
<1>2. Rehashed(new_cap) = moved[capacity_]
  BY DEF Rehashed, MovesUpTo, MoveStep, Blank, Moved
<1> HIDE DEF moved
<1>3. \A m \in 0 .. capacity_ : moved[m] = MoveStep(moved, m, new_cap)
  BY <1>1, Zenon DEF MovesUpTo
<1>4. 0 \in 0 .. capacity_ /\ \A n \in 1 .. capacity_ : n \in 0 .. capacity_ /\ n # 0
  OBVIOUS
<1>5. /\ moved[0] = Blank(new_cap)
      /\ \A n \in 1 .. capacity_ :
             moved[n] = Moved(moved[n - 1], slots_[n - 1], new_cap)
  BY <1>3, <1>4 DEF MoveStep
<1> QED
  BY <1>2, <1>5

\* What the new table holds after the old slots below n.
MovedSoFar(table, n, new_cap) ==
    /\ table \in Tables(new_cap) /\ Sound(table, new_cap)
    /\ \A i \in Taken(slots_, capacity_) :
           i < n => \E j \in Taken(table, new_cap) : table[j] = slots_[i]
    /\ \A j \in Taken(table, new_cap) :
           \E i \in Taken(slots_, capacity_) : i < n /\ slots_[i] = table[j]

\* Nothing is in the new table yet.
LEMMA MoveStarts ==
    ASSUME NEW new_cap \in Nat \ {0}
    PROVE  MovedSoFar(Blank(new_cap), 0, new_cap)
<1>1. Blank(new_cap) \in Tables(new_cap)
  BY DEF Blank, Tables, Marks
<1>2. Taken(Blank(new_cap), new_cap) = {}
  BY DEF Taken, Occupied, Blank, Marks
<1>3. \A i \in Taken(slots_, capacity_) : i \in Nat
  BY DEF Taken
<1> QED
  BY <1>1, <1>2, <1>3 DEF MovedSoFar, Sound

\* The next slot is looked at.
LEMMA MoveGoesOn ==
    ASSUME capacity_ \in Nat \ {0}, slots_ \in Tables(capacity_), Sound(slots_, capacity_),
           NEW new_cap \in Nat, capacity_ < new_cap,
           NEW n \in 1 .. capacity_, NEW table, MovedSoFar(table, n - 1, new_cap)
    PROVE  MovedSoFar(Moved(table, slots_[n - 1], new_cap), n, new_cap)
<1> DEFINE e == slots_[n - 1]
<1>0. /\ n - 1 \in 0 .. capacity_ - 1 /\ n - 1 \in Nat /\ new_cap \in Nat \ {0}
      /\ table \in Tables(new_cap) /\ Sound(table, new_cap)
  BY DEF MovedSoFar
<1>t. \A i \in Taken(slots_, capacity_) : i \in Nat /\ (i < n <=> i < n - 1 \/ i = n - 1)
  BY DEF Taken
<1>1. CASE e \in Marks
  <2>1. n - 1 \notin Taken(slots_, capacity_)
    BY <1>1 DEF Taken, Occupied
  <2>2. Moved(table, e, new_cap) = table
    BY <1>1 DEF Moved
  <2>3. \A i \in Taken(slots_, capacity_) : i < n <=> i < n - 1
    BY <1>t, <2>1
  <2> QED
    BY <2>2, <2>3 DEF MovedSoFar
<1>2. CASE e \notin Marks
  <2>1. e \in Entry /\ e.order_ref \in Refs /\ n - 1 \in Taken(slots_, capacity_)
    BY <1>0, <1>2, MarksAndEntries DEF Taken, Occupied, Entry
  <2>2. e.order_ref \notin HeldRefs(table, new_cap)
    <3> SUFFICES ASSUME NEW j \in Taken(table, new_cap), table[j].order_ref = e.order_ref
                 PROVE  FALSE
      BY DEF HeldRefs
    <3>1. PICK i \in Taken(slots_, capacity_) : i < n - 1 /\ slots_[i] = table[j]
      BY DEF MovedSoFar
    <3>2. i = n - 1
      BY <2>1, <3>1 DEF Sound
    <3> QED
      BY <1>0, <3>1, <3>2
  <2>3. \E j \in 0 .. new_cap - 1 : ~Occupied(table, j)
    <3>1. HeldRefs(table, new_cap) \in SUBSET HeldRefs(slots_, capacity_)
      BY DEF MovedSoFar, HeldRefs
    <3>2. /\ IsFiniteSet(HeldRefs(slots_, capacity_))
          /\ Cardinality(HeldRefs(slots_, capacity_)) = Cardinality(Taken(slots_, capacity_))
          /\ Cardinality(Taken(slots_, capacity_)) \in Nat
          /\ Cardinality(Taken(slots_, capacity_)) <= capacity_
      BY TakenCount
    <3>3. Cardinality(HeldRefs(table, new_cap)) <= Cardinality(HeldRefs(slots_, capacity_))
      BY <3>1, <3>2, FS_Subset
    <3>4. /\ Cardinality(HeldRefs(table, new_cap)) = Cardinality(Taken(table, new_cap))
          /\ Cardinality(Taken(table, new_cap)) \in Nat
          /\ Cardinality(Taken(table, new_cap)) < new_cap
                => \E j \in 0 .. new_cap - 1 : ~Occupied(table, j)
      BY <1>0, TakenCount
    <3> QED
      BY <3>2, <3>3, <3>4
  <2> DEFINE free == StepsWhere(e.order_ref, new_cap, LAMBDA idx : ~Occupied(table, idx))
  <2>f. free = {k \in 0 .. new_cap - 1 : ~Occupied(table, Place(e.order_ref, k, new_cap))}
    BY DEF StepsWhere
  <2> DEFINE k == Min(free)
  <2> DEFINE at == Place(e.order_ref, k, new_cap)
  <2> DEFINE T2 == [table EXCEPT ![at] = e]
  <2>4. /\ k \in 0 .. new_cap - 1 /\ ~Occupied(table, Place(e.order_ref, k, new_cap))
        /\ \A j \in 0 .. k - 1 : Occupied(table, Place(e.order_ref, j, new_cap))
    <3> HIDE DEF free, e
    <3> QED
      BY <1>0, <2>1, <2>3, <2>f, FirstFree
  <2>5. Moved(table, e, new_cap) = T2
    BY <1>2 DEF Moved
  <2> HIDE DEF k, e
  <2>6. /\ at \in (0 .. new_cap - 1) \ Taken(table, new_cap)
        /\ T2 \in Tables(new_cap) /\ Sound(T2, new_cap)
        /\ T2[at] = e /\ \A i \in 0 .. new_cap - 1 : i # at => T2[i] = table[i]
        /\ Taken(T2, new_cap) = Taken(table, new_cap) \union {at}
    <3>1. at = Place(e.order_ref, k, new_cap) /\ T2 = Written(table, at, e)
      BY DEF Written
    <3>2. MayPut(table, new_cap, e, k)
      BY <2>1, <2>2, <2>4 DEF MayPut
    <3> HIDE DEF at, T2, free
    <3> QED
      BY <1>0, <3>1, <3>2, Put
  <2> HIDE DEF at, T2
  <2>7. \A j \in Taken(table, new_cap) : j \in 0 .. new_cap - 1 /\ j # at /\ T2[j] = table[j]
    BY <2>6 DEF Taken
  <2>8. ASSUME NEW i \in Taken(slots_, capacity_), i < n
        PROVE  \E j \in Taken(T2, new_cap) : T2[j] = slots_[i]
    <3>1. CASE i = n - 1
      BY <2>6, <3>1 DEF e
    <3>2. CASE i < n - 1
      BY <2>6, <2>7, <3>2 DEF MovedSoFar
    <3> QED
      BY <1>t, <2>8, <3>1, <3>2
  <2>9. ASSUME NEW j \in Taken(T2, new_cap)
        PROVE  \E i \in Taken(slots_, capacity_) : i < n /\ slots_[i] = T2[j]
    <3>1. CASE j = at
      BY <1>t, <2>1, <2>6, <3>1 DEF e
    <3>2. CASE j \in Taken(table, new_cap)
      BY <1>t, <2>7, <3>2 DEF MovedSoFar
    <3> QED
      BY <2>6, <3>1, <3>2
  <2> QED
    BY <2>5, <2>6, <2>8, <2>9 DEF MovedSoFar, e
<1> QED
  BY <1>1, <1>2

\* rehash() keeps the entries and makes a sound table of them.
LEMMA RehashKeeps ==
    ASSUME capacity_ \in Nat \ {0}, slots_ \in Tables(capacity_), Sound(slots_, capacity_),
           NEW new_cap \in Nat, capacity_ < new_cap
    PROVE  MovedSoFar(Rehashed(new_cap), capacity_, new_cap)
<1>1. PICK moved : /\ Rehashed(new_cap) = moved[capacity_]
                   /\ moved[0] = Blank(new_cap)
                   /\ \A n \in 1 .. capacity_ :
                          moved[n] = Moved(moved[n - 1], slots_[n - 1], new_cap)
  BY RehashedMoves
<1> DEFINE Fails == {n \in 0 .. capacity_ : ~MovedSoFar(moved[n], n, new_cap)}
<1> SUFFICES ASSUME Fails # {} PROVE FALSE
  BY <1>1
<1>2. Fails \in SUBSET Nat
  OBVIOUS
<1>3. PICK n \in Fails : \A m \in Fails : n <= m
  <2> HIDE DEF Fails
  <2> QED
    BY <1>2, LeastElement
<1>4. n \in 0 .. capacity_ /\ ~MovedSoFar(moved[n], n, new_cap)
  OBVIOUS
<1>5. CASE n = 0
  BY <1>1, <1>4, <1>5, MoveStarts
<1>6. CASE n # 0
  <2>1. n \in 1 .. capacity_ /\ n - 1 \in 0 .. capacity_ /\ ~(n <= n - 1)
    BY <1>4, <1>6
  <2>2. MovedSoFar(moved[n - 1], n - 1, new_cap)
    BY <1>3, <2>1
  <2>3. MovedSoFar(Moved(moved[n - 1], slots_[n - 1], new_cap), n, new_cap)
    BY <2>1, <2>2, MoveGoesOn
  <2> QED
    BY <1>1, <1>4, <2>1, <2>3
<1> QED
  BY <1>5, <1>6

-----------------------------------------------------------------------------
(* The state, and what find() answers in it.                               *)

\* The live orders of a table.
Entries(T, c) == {T[i] : i \in Taken(T, c)}

\* The inductive invariant.
Inv ==
    /\ capacity_ \in Nat /\ capacity_ >= 4
    /\ slots_ \in Tables(capacity_) /\ Sound(slots_, capacity_)
    /\ size_ = Cardinality(Taken(slots_, capacity_)) /\ size_ < capacity_

\* An entry of the table is an entry, in one slot, and its reference is held.
LEMMA EntryFacts ==
    ASSUME NEW c \in Nat \ {0}, NEW T \in Tables(c), Sound(T, c)
    PROVE  /\ Entries(T, c) \subseteq Entry
           /\ HeldRefs(T, c) = {e.order_ref : e \in Entries(T, c)}
           /\ \A e, f \in Entries(T, c) : e.order_ref = f.order_ref => e = f
           /\ \A i, j \in Taken(T, c) : T[i] = T[j] => i = j
<1>1. Entries(T, c) \subseteq Entry
  BY MarksAndEntries DEF Entries, Taken
<1>2. HeldRefs(T, c) = {e.order_ref : e \in Entries(T, c)}
  BY DEF HeldRefs, Entries
<1>3. \A i, j \in Taken(T, c) : T[i].order_ref = T[j].order_ref => i = j
  BY DEF Sound
<1> QED
  BY <1>1, <1>2, <1>3 DEF Entries

\* find() returns the slot of a live order, and NotFound for the others.
LEMMA FindIs ==
    Inv => \A ref \in Refs :
        /\ \A i \in Taken(slots_, capacity_) : slots_[i].order_ref = ref => Find(ref) = i
        /\ ref \notin HeldRefs(slots_, capacity_) => Find(ref) = NotFound
<1> SUFFICES ASSUME Inv, NEW ref \in Refs
             PROVE  /\ \A i \in Taken(slots_, capacity_) :
                           slots_[i].order_ref = ref => Find(ref) = i
                    /\ ref \notin HeldRefs(slots_, capacity_) => Find(ref) = NotFound
  OBVIOUS
<1> DEFINE c == capacity_
<1> DEFINE stops == {k \in 0 .. c - 1 : \/ slots_[Place(ref, k, c)] = EMPTY
                                        \/ Holds(slots_, Place(ref, k, c), ref)}
<1> DEFINE idx == Place(ref, Min(stops), c)
<1>1. Find(ref) = IF stops = {} \/ slots_[idx] = EMPTY THEN NotFound ELSE idx
  BY DEF Find, StepsWhere
<1>2. c \in Nat \ {0} /\ slots_ \in Tables(c) /\ Sound(slots_, c)
  BY DEF Inv
<1> HIDE DEF c
<1>3. stops # {} => /\ Min(stops) \in stops /\ idx \in 0 .. c - 1
                    /\ \A k \in stops : Min(stops) <= k
  <2>1. stops \in SUBSET Nat
    BY <1>2
  <2>2. stops # {} => Min(stops) \in stops /\ \A k \in stops : Min(stops) <= k
    <3> HIDE DEF stops
    <3> QED
      BY <2>1, MinIsLeast
  <2>3. \A k \in stops : Place(ref, k, c) \in 0 .. c - 1
    BY <1>2, PlaceInTable
  <2> HIDE DEF stops
  <2> QED
    BY <2>2, <2>3
<1>4. \A k \in stops : \/ slots_[Place(ref, k, c)] = EMPTY
                       \/ Holds(slots_, Place(ref, k, c), ref)
  OBVIOUS
<1>5. ASSUME NEW i \in Taken(slots_, c), slots_[i].order_ref = ref
      PROVE  Find(ref) = i
  <2>1. PICK k \in 0 .. c - 1 : /\ Place(ref, k, c) = i
                                /\ \A j \in 0 .. k - 1 : slots_[Place(ref, j, c)] # EMPTY
    BY <1>2, <1>5 DEF Sound, Reached
  <2>2. i \in 0 .. c - 1 /\ slots_[i] # EMPTY /\ Holds(slots_, i, ref)
    BY <1>2, <1>5, MarksAndEntries DEF Taken, Holds
  <2>3. k \in stops
    BY <2>1, <2>2
  <2> HIDE DEF stops, idx
  <2> DEFINE m == Min(stops)
  <2>4. m \in stops /\ m <= k /\ idx \in 0 .. c - 1
    BY <1>3, <2>3
  <2>5. m \in 0 .. c - 1 /\ idx = Place(ref, m, c)
    BY <2>4 DEF stops, idx
  <2> HIDE DEF m
  <2>6. slots_[idx] # EMPTY
    <3>1. CASE m = k
      BY <2>1, <2>2, <2>5, <3>1
    <3>2. CASE m # k
      <4>1. m \in 0 .. k - 1
        BY <1>2, <2>4, <2>5, <3>2
      <4> QED
        BY <2>1, <2>5, <4>1
    <3> QED
      BY <3>1, <3>2
  <2>7. Holds(slots_, idx, ref)
    BY <1>4, <2>4, <2>5, <2>6
  <2>8. idx \in Taken(slots_, c) /\ slots_[idx].order_ref = slots_[i].order_ref
    BY <1>5, <2>4, <2>7 DEF Holds, Taken
  <2>9. idx = i
    BY <1>2, <1>5, <2>8 DEF Sound
  <2> QED
    BY <1>1, <2>3, <2>6, <2>9
<1>6. ASSUME ref \notin HeldRefs(slots_, c)
      PROVE  Find(ref) = NotFound
  <2> SUFFICES ASSUME stops # {} PROVE slots_[idx] = EMPTY
    BY <1>1
  <2> HIDE DEF stops
  <2>1. idx \in 0 .. c - 1 /\ (slots_[idx] = EMPTY \/ Holds(slots_, idx, ref))
    BY <1>3, <1>4
  <2> HIDE DEF idx
  <2> QED
    BY <1>6, <2>1 DEF HeldRefs, Taken, Holds
<1> QED
  BY <1>5, <1>6 DEF c

\* The same in terms of the live orders.
Answers ==
    \A ref \in Refs :
        /\ Find(ref) = NotFound <=> ref \notin HeldRefs(slots_, capacity_)
        /\ Find(ref) # NotFound =>
               /\ Find(ref) \in Taken(slots_, capacity_)
               /\ slots_[Find(ref)] \in Entries(slots_, capacity_)
               /\ slots_[Find(ref)].order_ref = ref

LEMMA FindAnswers == Inv => Answers
<1> SUFFICES ASSUME Inv, NEW ref \in Refs
             PROVE  /\ Find(ref) = NotFound <=> ref \notin HeldRefs(slots_, capacity_)
                    /\ Find(ref) # NotFound =>
                           /\ Find(ref) \in Taken(slots_, capacity_)
                           /\ slots_[Find(ref)] \in Entries(slots_, capacity_)
                           /\ slots_[Find(ref)].order_ref = ref
  BY DEF Answers
<1>1. /\ \A i \in Taken(slots_, capacity_) : slots_[i].order_ref = ref => Find(ref) = i
      /\ ref \notin HeldRefs(slots_, capacity_) => Find(ref) = NotFound
  BY FindIs
<1>2. \A i \in Taken(slots_, capacity_) : i # NotFound
  BY DEF Taken, NotFound, Inv
<1>3. ASSUME ref \in HeldRefs(slots_, capacity_)
      PROVE  /\ Find(ref) # NotFound
             /\ Find(ref) \in Taken(slots_, capacity_)
             /\ slots_[Find(ref)].order_ref = ref
  <2>1. PICK i \in Taken(slots_, capacity_) : slots_[i].order_ref = ref
    BY <1>3 DEF HeldRefs
  <2> QED
    BY <1>1, <1>2, <2>1
<1> QED
  BY <1>1, <1>3 DEF Entries

-----------------------------------------------------------------------------
(* The operations.                                                         *)

\* The table insert() writes to, grown or not, and its capacity.
GrownCapacity == IF MustGrow THEN capacity_ * 2 ELSE capacity_
GrownTable == IF MustGrow THEN Rehashed(GrownCapacity) ELSE slots_

\* It has the live orders of the old one, and room for one more.
LEMMA GrownKeeps ==
    ASSUME Inv
    PROVE  /\ GrownCapacity \in Nat /\ GrownCapacity >= 4
           /\ GrownTable \in Tables(GrownCapacity) /\ Sound(GrownTable, GrownCapacity)
           /\ Entries(GrownTable, GrownCapacity) = Entries(slots_, capacity_)
           /\ Cardinality(Taken(GrownTable, GrownCapacity)) = size_
           /\ size_ + 1 < GrownCapacity /\ size_ \in Nat
<1>1. /\ capacity_ \in Nat \ {0} /\ capacity_ >= 4
      /\ slots_ \in Tables(capacity_) /\ Sound(slots_, capacity_)
      /\ size_ = Cardinality(Taken(slots_, capacity_)) /\ size_ < capacity_
  BY DEF Inv
<1>2. size_ \in Nat
  BY <1>1, TakenCount
<1>3. CASE ~MustGrow
  <2>1. GrownCapacity = capacity_ /\ GrownTable = slots_
    BY <1>3 DEF GrownCapacity, GrownTable
  <2>2. size_ + 1 < capacity_
    BY <1>1, <1>2, <1>3 DEF MustGrow
  <2> QED
    BY <1>1, <1>2, <2>1, <2>2
<1>4. CASE MustGrow
  <2> DEFINE new == capacity_ * 2
  <2> DEFINE T == Rehashed(new)
  <2>1. GrownCapacity = new /\ GrownTable = T
    BY <1>4 DEF GrownCapacity, GrownTable
  <2>2. new \in Nat \ {0} /\ capacity_ < new /\ size_ + 1 < new /\ new >= 4
    BY <1>1, <1>2
  <2>3. MovedSoFar(T, capacity_, new)
    <3> HIDE DEF new
    <3> QED
      BY <1>1, <2>2, RehashKeeps
  <2> HIDE DEF new, T
  <2>4. T \in Tables(new) /\ Sound(T, new)
    BY <2>3 DEF MovedSoFar
  <2>5. Entries(T, new) = Entries(slots_, capacity_)
    <3>1. \A i \in Taken(slots_, capacity_) : i < capacity_
      BY <1>1 DEF Taken
    <3> QED
      BY <2>3, <3>1 DEF MovedSoFar, Entries
  <2>6. HeldRefs(T, new) = HeldRefs(slots_, capacity_)
    BY <1>1, <2>2, <2>4, <2>5, EntryFacts
  <2>7. /\ Cardinality(HeldRefs(T, new)) = Cardinality(Taken(T, new))
        /\ Cardinality(HeldRefs(slots_, capacity_)) = Cardinality(Taken(slots_, capacity_))
    BY <1>1, <2>2, <2>4, TakenCount
  <2> QED
    BY <1>1, <1>2, <2>1, <2>2, <2>4, <2>5, <2>6, <2>7
<1> QED
  BY <1>3, <1>4

\* insert() adds the order.
LEMMA InsertStep ==
    ASSUME Inv, NEW ref \in Refs, NEW data \in Data, insert(ref, data)
    PROVE  /\ Inv'
           /\ ref \notin HeldRefs(slots_, capacity_)
           /\ Entries(slots_', capacity_') =
                  Entries(slots_, capacity_) \union {[order_ref |-> ref, data |-> data]}
<1> DEFINE c == GrownCapacity
<1> DEFINE T == GrownTable
<1> DEFINE e == [order_ref |-> ref, data |-> data]
<1> DEFINE steps == InsertSteps(T, c, ref)
<1> DEFINE k == Min(steps)
<1> DEFINE at == Place(ref, k, c)
<1>1. /\ c \in Nat \ {0} /\ c \in Nat /\ c >= 4 /\ T \in Tables(c) /\ Sound(T, c)
      /\ Entries(T, c) = Entries(slots_, capacity_)
      /\ Cardinality(Taken(T, c)) = size_ /\ size_ + 1 < c /\ size_ \in Nat
  <2>1. \A x : x \in Nat /\ x >= 4 => x \in Nat \ {0}
    OBVIOUS
  <2> QED
    BY <2>1, GrownKeeps
<1>2. ref \notin HeldRefs(slots_, capacity_)
  BY FindAnswers DEF insert, Answers
<1>3. HeldRefs(T, c) = HeldRefs(slots_, capacity_)
  <2>1. capacity_ \in Nat \ {0} /\ slots_ \in Tables(capacity_) /\ Sound(slots_, capacity_)
    BY DEF Inv
  <2> HIDE DEF c, T
  <2> QED
    BY <1>1, <2>1, EntryFacts
<1>4. e \in Entry /\ e.order_ref = ref
  BY DEF Entry
<1>5. /\ capacity_' = c
      /\ slots_' = [T EXCEPT ![at] = e]
      /\ size_' = IF Occupied(T, at) THEN size_ ELSE size_ + 1
  BY DEF insert, InsertPlace, GrownCapacity, GrownTable
<1>6. steps = {j \in 0 .. c - 1 : \/ ~Occupied(T, Place(ref, j, c))
                                  \/ Holds(T, Place(ref, j, c), ref)}
  BY DEF InsertSteps, StepsWhere
<1> HIDE DEF c, T, e
<1>7. steps = {j \in 0 .. c - 1 : ~Occupied(T, Place(ref, j, c))}
  <2>1. ASSUME NEW j \in 0 .. c - 1 PROVE ~Holds(T, Place(ref, j, c), ref)
    <3>1. Place(ref, j, c) \in 0 .. c - 1
      BY <1>1, PlaceInTable
    <3> QED
      BY <1>2, <1>3, <3>1 DEF HeldRefs, Taken, Holds
  <2> QED
    BY <1>6, <2>1
<1>8. \E i \in 0 .. c - 1 : ~Occupied(T, i)
  <2>1. Cardinality(Taken(T, c)) < c
    BY <1>1
  <2> QED
    BY <1>1, <2>1, TakenCount
<1> HIDE DEF steps
<1>9. /\ k \in 0 .. c - 1 /\ ~Occupied(T, at)
      /\ \A j \in 0 .. k - 1 : Occupied(T, Place(ref, j, c))
  BY <1>1, <1>7, <1>8, FirstFree
<1>10. MayPut(T, c, e, k)
  BY <1>2, <1>3, <1>4, <1>9 DEF MayPut
<1>11. at = Place(e.order_ref, k, c) /\ slots_' = Written(T, at, e)
  BY <1>4, <1>5 DEF Written
<1> HIDE DEF k, at
<1>12. /\ at \in (0 .. c - 1) \ Taken(T, c)
       /\ slots_' \in Tables(c) /\ Sound(slots_', c)
       /\ slots_'[at] = e /\ \A i \in 0 .. c - 1 : i # at => slots_'[i] = T[i]
       /\ Taken(slots_', c) = Taken(T, c) \union {at}
  BY <1>1, <1>10, <1>11, Put
<1>13. size_' = size_ + 1
  BY <1>5, <1>9 DEF at
<1>14. Cardinality(Taken(slots_', c)) = size_ + 1
  <2>1. IsFiniteSet(Taken(T, c))
    BY <1>1, TakenCount
  <2> QED
    BY <1>1, <1>12, <2>1, FS_AddElement
<1>15. Inv'
  BY <1>1, <1>5, <1>12, <1>13, <1>14 DEF Inv
<1>16. Entries(slots_', c) = Entries(T, c) \union {e}
  <2>1. \A i \in Taken(T, c) : i # at /\ i \in 0 .. c - 1
    BY <1>12 DEF Taken
  <2> QED
    BY <1>12, <2>1 DEF Entries
<1> QED
  BY <1>1, <1>2, <1>5, <1>15, <1>16 DEF e

\* change() replaces the data of one order.
LEMMA ChangeStep ==
    ASSUME Inv, NEW ref \in Refs, NEW data \in Data, change(ref, data)
    PROVE  /\ Inv'
           /\ ref \in HeldRefs(slots_, capacity_)
           /\ Entries(slots_', capacity_') =
                  {e \in Entries(slots_, capacity_) : e.order_ref # ref}
                      \union {[order_ref |-> ref, data |-> data]}
<1> DEFINE c == capacity_
<1> DEFINE at == Find(ref)
<1> DEFINE new == [order_ref |-> ref, data |-> data]
<1>1. /\ c \in Nat \ {0} /\ c \in Nat /\ c >= 4 /\ slots_ \in Tables(c) /\ Sound(slots_, c)
      /\ size_ = Cardinality(Taken(slots_, c)) /\ size_ < c
  BY DEF Inv
<1>2. /\ ref \in HeldRefs(slots_, c) /\ at \in Taken(slots_, c)
      /\ slots_[at].order_ref = ref
  BY FindAnswers DEF change, Answers
<1>3. slots_' = [slots_ EXCEPT ![at].data = data] /\ capacity_' = c /\ size_' = size_
  BY DEF change
<1> HIDE DEF c, at
<1>4. at \in 0 .. c - 1 /\ slots_[at] \in Entry
  BY <1>1, <1>2, MarksAndEntries DEF Taken
<1>5. [slots_[at] EXCEPT !.data = data] = new
  BY <1>2, <1>4 DEF Entry
<1>6. new \in Entry /\ new.order_ref = ref
  BY DEF Entry
<1>e. new \notin Marks /\ new # EMPTY
  BY <1>6, MarkAssumption DEF Entry, Marks
<1> HIDE DEF new
<1>7. /\ slots_' \in Tables(c) /\ slots_'[at] = new
      /\ \A i \in 0 .. c - 1 : i # at => slots_'[i] = slots_[i]
  <2>1. slots_' = [slots_ EXCEPT ![at] = new]
    BY <1>1, <1>3, <1>4, <1>5 DEF Tables
  <2> QED
    BY <1>1, <1>4, <1>6, <2>1 DEF Tables
<1>8. Taken(slots_', c) = Taken(slots_, c)
  BY <1>2, <1>7, <1>e DEF Taken, Occupied
<1>9. Sound(slots_', c)
  <2>1. \A i \in 0 .. c - 1 : slots_[i] # EMPTY => slots_'[i] # EMPTY
    BY <1>7, <1>e
  <2>2. \A i \in Taken(slots_', c) : /\ i \in Taken(slots_, c)
                                     /\ slots_'[i].order_ref = slots_[i].order_ref
    BY <1>2, <1>6, <1>7, <1>8 DEF Taken
  <2> QED
    BY <1>1, <1>7, <2>1, <2>2, StaysSound
<1>10. Inv'
  BY <1>1, <1>3, <1>7, <1>8, <1>9 DEF Inv
<1>11. Entries(slots_', c) = {e \in Entries(slots_, c) : e.order_ref # ref} \union {new}
  <2>1. \A i \in Taken(slots_, c) : i \in 0 .. c - 1 /\ (i = at <=> slots_[i].order_ref = ref)
    BY <1>1, <1>2 DEF Taken, Sound
  <2> QED
    BY <1>2, <1>7, <1>8, <2>1 DEF Entries
<1> QED
  BY <1>2, <1>3, <1>10, <1>11 DEF c, new

\* erase() takes one order out.
LEMMA EraseStep ==
    ASSUME Inv, NEW ref \in Refs, erase(ref)
    PROVE  /\ Inv'
           /\ ref \in HeldRefs(slots_, capacity_)
           /\ Entries(slots_', capacity_') =
                  {e \in Entries(slots_, capacity_) : e.order_ref # ref}
<1> DEFINE c == capacity_
<1> DEFINE at == Find(ref)
<1>1. /\ c \in Nat \ {0} /\ c \in Nat /\ c >= 4 /\ slots_ \in Tables(c) /\ Sound(slots_, c)
      /\ size_ = Cardinality(Taken(slots_, c)) /\ size_ < c
  BY DEF Inv
<1>2. /\ ref \in HeldRefs(slots_, c) /\ at \in Taken(slots_, c)
      /\ slots_[at].order_ref = ref
  BY FindAnswers DEF erase, Answers
<1>3. slots_' = [slots_ EXCEPT ![at] = TOMBSTONE] /\ capacity_' = c /\ size_' = size_ - 1
  BY DEF erase, ErasedMark, SizeErased
<1> HIDE DEF c, at
<1>4. at \in 0 .. c - 1
  BY <1>2 DEF Taken
<1>7. /\ slots_' \in Tables(c) /\ slots_'[at] = TOMBSTONE
      /\ \A i \in 0 .. c - 1 : i # at => slots_'[i] = slots_[i]
  BY <1>1, <1>3, <1>4 DEF Tables, Marks
<1>8. Taken(slots_', c) = Taken(slots_, c) \ {at}
  BY <1>2, <1>7 DEF Taken, Occupied, Marks
<1>9. Sound(slots_', c)
  <2>1. \A i \in 0 .. c - 1 : slots_[i] # EMPTY => slots_'[i] # EMPTY
    BY <1>7, MarkAssumption
  <2>2. \A i \in Taken(slots_', c) : /\ i \in Taken(slots_, c)
                                     /\ slots_'[i].order_ref = slots_[i].order_ref
    BY <1>7, <1>8 DEF Taken
  <2> QED
    BY <1>1, <1>7, <2>1, <2>2, StaysSound
<1>10. Cardinality(Taken(slots_', c)) = size_ - 1 /\ size_ \in Nat
  <2>1. IsFiniteSet(Taken(slots_, c)) /\ Cardinality(Taken(slots_, c)) \in Nat
    BY <1>1, TakenCount
  <2> QED
    BY <1>1, <1>2, <1>8, <2>1, FS_RemoveElement
<1>11. Inv'
  <2>1. size_' < c
    BY <1>1, <1>3, <1>10
  <2> QED
    BY <1>1, <1>3, <1>7, <1>9, <1>10, <2>1 DEF Inv
<1>12. Entries(slots_', c) = {e \in Entries(slots_, c) : e.order_ref # ref}
  <2>1. \A i \in Taken(slots_, c) : i \in 0 .. c - 1 /\ (i = at <=> slots_[i].order_ref = ref)
    BY <1>1, <1>2 DEF Taken, Sound
  <2> QED
    BY <1>7, <1>8, <2>1 DEF Entries
<1> QED
  BY <1>2, <1>3, <1>11, <1>12 DEF c

\* A new table is empty.
LEMMA InitStep == Init => Inv /\ Entries(slots_, capacity_) = {}
<1> SUFFICES ASSUME Init PROVE Inv /\ Entries(slots_, capacity_) = {}
  OBVIOUS
<1>1. capacity_ \in Nat /\ capacity_ >= 4
  BY CapacityAssumption DEF Init
<1>2. slots_ = [idx \in 0 .. capacity_ - 1 |-> EMPTY] /\ size_ = 0
  BY DEF Init
<1>3. slots_ \in Tables(capacity_)
  BY <1>2 DEF Tables, Marks
<1>4. Taken(slots_, capacity_) = {}
  BY <1>2 DEF Taken, Occupied, Marks
<1>5. Sound(slots_, capacity_)
  BY <1>4 DEF Sound
<1>6. Cardinality(Taken(slots_, capacity_)) = 0
  BY <1>4, FS_EmptySet
<1> QED
  BY <1>1, <1>2, <1>3, <1>4, <1>5, <1>6 DEF Inv, Entries

\* Every step keeps the invariant.
LEMMA InvStep == Inv /\ [Next]_vars => Inv'
<1> SUFFICES ASSUME Inv, [Next]_vars PROVE Inv'
  OBVIOUS
<1>1. ASSUME NEW ref \in Refs, erase(ref) PROVE Inv'
  BY <1>1, EraseStep
<1>2. ASSUME NEW ref \in Refs, NEW data \in Data, insert(ref, data) PROVE Inv'
  BY <1>2, InsertStep
<1>3. ASSUME NEW ref \in Refs, NEW data \in Data, change(ref, data) PROVE Inv'
  BY <1>3, ChangeStep
<1>4. CASE UNCHANGED vars
  BY <1>4 DEF vars, Inv
<1> QED
  BY <1>1, <1>2, <1>3, <1>4 DEF Next

-----------------------------------------------------------------------------
(* The theorems.                                                           *)

(* The inductive invariant: sound probes, exact count, a free slot.        *)
THEOREM MapInvariance == Spec => []Inv
<1>1. Init => Inv
  BY InitStep
<1> QED
  BY <1>1, InvStep, PTL DEF Spec

(* size_ is the number of live orders, and the probe of insert() always    *)
(* finds a slot to stop at.                                                *)
THEOREM SizeCountsOrders == Spec => []SizeIsExact
<1>1. Inv => SizeIsExact
  <2> SUFFICES ASSUME Inv PROVE SizeIsExact
    OBVIOUS
  <2>1. /\ capacity_ \in Nat \ {0} /\ slots_ \in Tables(capacity_)
        /\ Sound(slots_, capacity_) /\ DOMAIN slots_ = 0 .. capacity_ - 1
        /\ size_ = Cardinality(Taken(slots_, capacity_)) /\ size_ < capacity_
    BY DEF Inv, Tables
  <2>2. size_ = Cardinality({idx \in DOMAIN slots_ : Occupied(slots_, idx)})
    BY <2>1 DEF Taken
  <2>3. PICK i \in 0 .. capacity_ - 1 : ~Occupied(slots_, i)
    BY <2>1, TakenCount
  <2>4. ASSUME NEW ref \in Refs PROVE InsertSteps(slots_, capacity_, ref) # {}
    <3>1. PICK k \in 0 .. capacity_ - 1 : Place(ref, k, capacity_) = i
      BY <2>1, ProbeTurns
    <3>2. k \in InsertSteps(slots_, capacity_, ref)
      BY <2>3, <3>1 DEF InsertSteps, StepsWhere
    <3> QED
      BY <3>2
  <2> QED
    BY <2>2, <2>4 DEF SizeIsExact
<1> QED
  BY <1>1, MapInvariance, PTL

(* Every live order has one slot, and find() reaches it.                   *)
THEOREM OrdersAreReachable == Spec => []OneReachableSlot
<1>1. Inv => OneReachableSlot
  <2> SUFFICES ASSUME Inv, NEW ref \in Refs
               PROVE  PlacesOf(ref) = {Find(ref)} \ {NotFound}
    BY DEF OneReachableSlot
  <2>1. /\ \A i \in Taken(slots_, capacity_) : slots_[i].order_ref = ref => Find(ref) = i
        /\ ref \notin HeldRefs(slots_, capacity_) => Find(ref) = NotFound
    BY FindIs
  <2>2. Find(ref) # NotFound =>
            Find(ref) \in Taken(slots_, capacity_) /\ slots_[Find(ref)].order_ref = ref
    BY FindAnswers DEF Answers
  <2>3. PlacesOf(ref) = {i \in Taken(slots_, capacity_) : slots_[i].order_ref = ref}
    BY DEF PlacesOf, Holds, Taken, Inv, Tables
  <2>4. \A i \in Taken(slots_, capacity_) : i # NotFound
    BY DEF Taken, NotFound, Inv
  <2> HIDE DEF NotFound
  <2> QED
    BY <2>1, <2>2, <2>3, <2>4
<1> QED
  BY <1>1, MapInvariance, PTL

-----------------------------------------------------------------------------
(* The refinement.                                                         *)

\* The map that a set of live orders is.
MapOf(entries) ==
    [r \in Refs |-> IF \E e \in entries : e.order_ref = r
                    THEN (CHOOSE e \in entries : e.order_ref = r).data
                    ELSE None]

\* What find() answers for all references is the map of the live orders.
Seen == [r \in Refs |-> IF Find(r) = NotFound THEN None ELSE slots_[Find(r)].data]

LEMMA SeenIsMap == Inv => Seen = MapOf(Entries(slots_, capacity_))
<1> SUFFICES ASSUME Inv, NEW r \in Refs
             PROVE  (IF Find(r) = NotFound THEN None ELSE slots_[Find(r)].data) =
                    (IF \E e \in Entries(slots_, capacity_) : e.order_ref = r
                     THEN (CHOOSE e \in Entries(slots_, capacity_) : e.order_ref = r).data
                     ELSE None)
  BY DEF Seen, MapOf
<1>1. /\ Find(r) = NotFound <=> r \notin HeldRefs(slots_, capacity_)
      /\ Find(r) # NotFound =>
             slots_[Find(r)] \in Entries(slots_, capacity_) /\ slots_[Find(r)].order_ref = r
  BY FindAnswers DEF Answers
<1>2. capacity_ \in Nat \ {0} /\ slots_ \in Tables(capacity_) /\ Sound(slots_, capacity_)
  BY DEF Inv
<1>3. /\ HeldRefs(slots_, capacity_) = {e.order_ref : e \in Entries(slots_, capacity_)}
      /\ \A e, f \in Entries(slots_, capacity_) : e.order_ref = f.order_ref => e = f
  BY <1>2, EntryFacts
<1> DEFINE entries == Entries(slots_, capacity_)
<1> DEFINE held == HeldRefs(slots_, capacity_)
<1> DEFINE found == Find(r)
<1> HIDE DEF entries, held, found
<1>4. CASE found = NotFound
  BY <1>1, <1>3, <1>4 DEF entries, held, found
<1>5. CASE found # NotFound
  <2>1. slots_[found] \in entries /\ slots_[found].order_ref = r
    BY <1>1, <1>5 DEF entries, held, found
  <2>2. \A e \in entries : e.order_ref = r => e = slots_[found]
    BY <1>3, <2>1 DEF entries
  <2>3. (CHOOSE e \in entries : e.order_ref = r) = slots_[found]
    BY <2>1, <2>2
  <2> QED
    BY <1>5, <2>1, <2>3 DEF entries, found
<1> QED
  BY <1>4, <1>5 DEF found

\* Adding an order to the set, or taking one out, does so to the map.
LEMMA MapSteps ==
    ASSUME NEW entries \in SUBSET Entry,
           \A e, f \in entries : e.order_ref = f.order_ref => e = f, NEW ref \in Refs
    PROVE  /\ MapOf(entries)[ref] = None <=> ~\E e \in entries : e.order_ref = ref
           /\ \A data \in Data :
                  MapOf({e \in entries : e.order_ref # ref}
                            \union {[order_ref |-> ref, data |-> data]})
                      = [MapOf(entries) EXCEPT ![ref] = data]
           /\ MapOf({e \in entries : e.order_ref # ref}) = [MapOf(entries) EXCEPT ![ref] = None]
<1> DEFINE Of(S, r) == IF \E e \in S : e.order_ref = r
                       THEN (CHOOSE e \in S : e.order_ref = r).data
                       ELSE None
<1>1. MapOf(entries)[ref] = None <=> ~\E e \in entries : e.order_ref = ref
  <2>1. MapOf(entries)[ref] = Of(entries, ref)
    BY DEF MapOf
  <2>2. CASE \E e \in entries : e.order_ref = ref
    <3>1. (CHOOSE e \in entries : e.order_ref = ref) \in entries
      BY <2>2
    <3>2. (CHOOSE e \in entries : e.order_ref = ref).data \in Data
      BY <3>1 DEF Entry
    <3> QED
      BY <2>1, <2>2, <3>2, NoneAssumption
  <2>3. CASE ~\E e \in entries : e.order_ref = ref
    BY <2>1, <2>3
  <2> QED
    BY <2>2, <2>3
<1> DEFINE others == {e \in entries : e.order_ref # ref}
<1>2. ASSUME NEW S, others \subseteq S, \A e \in S \ others : e.order_ref = ref,
             NEW r \in Refs, r # ref
      PROVE  Of(S, r) = Of(entries, r)
  <2>1. \A e : e \in S /\ e.order_ref = r <=> e \in entries /\ e.order_ref = r
    BY <1>2
  <2>2. (CHOOSE e \in S : e.order_ref = r) = (CHOOSE e \in entries : e.order_ref = r)
    BY <2>1, Zenon
  <2> QED
    BY <2>1, <2>2
<1>3. ASSUME NEW data \in Data
      PROVE  MapOf(others \union {[order_ref |-> ref, data |-> data]})
                 = [MapOf(entries) EXCEPT ![ref] = data]
  <2> DEFINE new == [order_ref |-> ref, data |-> data]
  <2> DEFINE S == others \union {new}
  <2>1. new \in S /\ new.order_ref = ref /\ new.data = data
        /\ \A e \in S : e.order_ref = ref => e = new
    OBVIOUS
  <2>2. others \subseteq S /\ \A e \in S \ others : e.order_ref = ref
    OBVIOUS
  <2> HIDE DEF S, new, others
  <2>3. (CHOOSE e \in S : e.order_ref = ref) = new
    BY <2>1
  <2>4. Of(S, ref) = data
    BY <2>1, <2>3
  <2>5. \A r \in Refs : r # ref => Of(S, r) = Of(entries, r)
    BY <1>2, <2>2
  <2> HIDE DEF Of
  <2>6. MapOf(S) = [r \in Refs |-> Of(S, r)] /\ MapOf(entries) = [r \in Refs |-> Of(entries, r)]
    BY DEF MapOf, Of
  <2>7. MapOf(S) = [MapOf(entries) EXCEPT ![ref] = data]
    BY <2>4, <2>5, <2>6
  <2> QED
    BY <2>7 DEF S, new
<1>4. MapOf(others) = [MapOf(entries) EXCEPT ![ref] = None]
  <2>1. Of(others, ref) = None
    OBVIOUS
  <2>2. \A r \in Refs : r # ref => Of(others, r) = Of(entries, r)
    BY <1>2
  <2> HIDE DEF Of, others
  <2>3. /\ MapOf(others) = [r \in Refs |-> Of(others, r)]
        /\ MapOf(entries) = [r \in Refs |-> Of(entries, r)]
    BY DEF MapOf, Of
  <2> QED
    BY <2>1, <2>2, <2>3
<1> QED
  BY <1>1, <1>3, <1>4

(* The table implements a map: an insert enters an order, a change changes *)
(* it, an erase removes it, and growth is none of the three.               *)
THEOREM ImplementsMap == Spec => IsLiveOrderMap
<1>1. Init => Map!Init
  <2> SUFFICES ASSUME Init PROVE Seen = [r \in Refs |-> None]
    BY DEF Map!Init, Seen
  <2>1. Inv /\ Entries(slots_, capacity_) = {}
    BY InitStep
  <2>2. Seen = MapOf({})
    BY <2>1, SeenIsMap
  <2> QED
    BY <2>2 DEF MapOf
<1>2. Inv' => Seen' = MapOf(Entries(slots_', capacity_'))
  <2>1. Inv' => (Seen = MapOf(Entries(slots_, capacity_)))'
    BY SeenIsMap, PTL
  <2> QED
    BY <2>1
<1>3. ASSUME Inv
      PROVE  /\ Seen = MapOf(Entries(slots_, capacity_))
             /\ Entries(slots_, capacity_) \in SUBSET Entry
             /\ \A e, f \in Entries(slots_, capacity_) : e.order_ref = f.order_ref => e = f
             /\ HeldRefs(slots_, capacity_) = {e.order_ref : e \in Entries(slots_, capacity_)}
  <2>1. capacity_ \in Nat \ {0} /\ slots_ \in Tables(capacity_) /\ Sound(slots_, capacity_)
    BY <1>3 DEF Inv
  <2> QED
    BY <1>3, <2>1, SeenIsMap, EntryFacts
<1>4. Inv /\ [Next]_vars => [Map!Next]_Seen
  <2> SUFFICES ASSUME Inv, [Next]_vars PROVE [Map!Next]_Seen
    OBVIOUS
  <2> DEFINE entries == Entries(slots_, capacity_)
  <2>0. entries \in SUBSET Entry /\ \A e, f \in entries : e.order_ref = f.order_ref => e = f
    BY <1>3
  <2>s. Seen = MapOf(entries)
    BY <1>3
  <2>m. ASSUME NEW ref \in Refs
        PROVE  /\ Seen[ref] = None <=> ~\E e \in entries : e.order_ref = ref
               /\ \A data \in Data :
                      MapOf({e \in entries : e.order_ref # ref}
                                \union {[order_ref |-> ref, data |-> data]})
                          = [Seen EXCEPT ![ref] = data]
               /\ MapOf({e \in entries : e.order_ref # ref}) = [Seen EXCEPT ![ref] = None]
    <3> HIDE DEF entries, Seen
    <3> QED
      BY <2>0, <2>s, MapSteps, SMTT(30)
  <2>1. ASSUME NEW ref \in Refs, erase(ref) PROVE Map!Remove(ref)
    <3>1. /\ Inv' /\ \E e \in entries : e.order_ref = ref
          /\ Entries(slots_', capacity_') = {e \in entries : e.order_ref # ref}
      BY <1>3, <2>1, EraseStep
    <3>2. Seen[ref] # None /\ Seen' = [Seen EXCEPT ![ref] = None]
      <4>1. Seen' = MapOf({e \in entries : e.order_ref # ref})
        BY <1>2, <3>1
      <4> HIDE DEF entries
      <4> QED
        BY <2>m, <3>1, <4>1
    <3> QED
      BY <3>2 DEF Map!Remove, Seen
  <2>2. ASSUME NEW ref \in Refs, NEW data \in Data, insert(ref, data)
        PROVE  Map!Enter(ref, data)
    <3>1. /\ Inv' /\ ~\E e \in entries : e.order_ref = ref
          /\ Entries(slots_', capacity_') = entries \union {[order_ref |-> ref, data |-> data]}
      BY <1>3, <2>2, InsertStep
    <3>2. entries = {e \in entries : e.order_ref # ref}
      BY <3>1
    <3>3. Seen[ref] = None /\ Seen' = [Seen EXCEPT ![ref] = data]
      <4>1. Seen' = MapOf({e \in entries : e.order_ref # ref}
                              \union {[order_ref |-> ref, data |-> data]})
        BY <1>2, <3>1, <3>2
      <4> HIDE DEF entries
      <4> QED
        BY <2>m, <3>1, <4>1
    <3> QED
      BY <3>3 DEF Map!Enter, Seen
  <2>3. ASSUME NEW ref \in Refs, NEW data \in Data, change(ref, data)
        PROVE  Map!Change(ref, data)
    <3>1. /\ Inv' /\ \E e \in entries : e.order_ref = ref
          /\ Entries(slots_', capacity_') =
                 {e \in entries : e.order_ref # ref} \union {[order_ref |-> ref, data |-> data]}
      BY <1>3, <2>3, ChangeStep
    <3>2. Seen[ref] # None /\ Seen' = [Seen EXCEPT ![ref] = data]
      <4>1. Seen' = MapOf({e \in entries : e.order_ref # ref}
                              \union {[order_ref |-> ref, data |-> data]})
        BY <1>2, <3>1
      <4> HIDE DEF entries
      <4> QED
        BY <2>m, <3>1, <4>1
    <3> QED
      BY <3>2 DEF Map!Change, Seen
  <2>4. CASE UNCHANGED vars
    BY <2>4 DEF vars, Seen, Find, StepsWhere, Place, Holds, Occupied
  <2> QED
    BY <2>1, <2>2, <2>3, <2>4 DEF Next, Map!Next
<1> QED
  BY <1>1, <1>4, MapInvariance, PTL DEF Spec, IsLiveOrderMap, Map!Spec, Seen

=============================================================================
