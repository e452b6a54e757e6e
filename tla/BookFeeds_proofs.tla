-------------------------- MODULE BookFeeds_proofs --------------------------
(***************************************************************************)
(* The symbol table never loses a book and never shares one, the books of  *)
(* the manager do to each order what one book of all symbols does, and the *)
(* manager implements SymbolBooks: for every hash, capacity, number of     *)
(* books, symbol, reference, price and size.                               *)
(*                                                                         *)
(* Two arguments meet here. Linear probing: nothing is ever erased from    *)
(* the table, so a slot that a probe passed on its way to a free slot      *)
(* stays taken by another key, and the probe still ends where it inserted  *)
(* (Table, Findable). Ownership: an order reference belongs to one symbol, *)
(* so an order can only be live in the book of its symbol (Owned); where   *)
(* messages carry the wrong symbol, or a reference of their own, they find *)
(* nothing. What a message does to price levels plays no part here:        *)
(* LiveOfApplied says what it does to the live orders.                     *)
(***************************************************************************)
EXTENDS BookFeeds, RingsAndSequences, FunctionTheorems, FiniteSetTheorems

\* Min of a set of naturals is its least element.
LEMMA MinIsLeast ==
    ASSUME NEW S \in SUBSET Nat, S # {}
    PROVE  Min(S) \in S /\ \A y \in S : Min(S) <= y
  BY LeastElement DEF Min

\* A least element is the minimum.
LEMMA LeastIsMin ==
    ASSUME NEW S \in SUBSET Nat, NEW k \in S, \A y \in S : k <= y
    PROVE  Min(S) = k
<1>1. Min(S) \in S /\ Min(S) <= k
  BY MinIsLeast
<1>2. k <= Min(S) /\ k \in Nat /\ Min(S) \in Nat
  BY <1>1
<1> QED
  BY <1>1, <1>2

-----------------------------------------------------------------------------
(* The symbol table.                                                       *)

Taken == {idx \in Slots : symbol_vals_[idx] # EMPTY_VAL}

\* The probe for the key of a taken slot passes only slots of other keys before it.
Reached(idx) ==
    \E k \in Slots : /\ Place(symbol_keys_[idx], k) = idx
                     /\ \A j \in Stops(symbol_keys_[idx]) : k <= j

TableType ==
    /\ symbol_keys_ \in [Slots -> Symbols]
    /\ symbol_vals_ \in [Slots -> BookIds \union {EMPTY_VAL}]
    /\ book_count_ \in 0 .. MAX_SYMBOLS_PER_SHARD

Table ==
    /\ \A idx \in Taken : Reached(idx)
    /\ \A j, k \in Taken : j # k => symbol_vals_[j] # symbol_vals_[k]
    /\ {symbol_vals_[idx] : idx \in Taken} = 0 .. book_count_ - 1

\* Every place of a probe is a slot of the table.
LEMMA PlaceInSlots ==
    ASSUME NEW key \in Symbols, NEW k \in Slots
    PROVE  Place(key, k) \in Slots
<1>1. SYMBOL_MAP_CAPACITY \in Nat \ {0} /\ Hash[key] + k \in Nat
  BY TableAssumption, HashAssumption DEF Slots
<1> QED
  BY <1>1, ModInRing DEF Place, Slots

\* The steps at which a probe may end are numbers of slots.
LEMMA StopsInSlots ==
    ASSUME NEW key \in Symbols
    PROVE  Stops(key) \in SUBSET Nat /\ Stops(key) \subseteq Slots
  BY DEF Stops, Slots

\* Where the probe for a key ends, when it ends.
LEMMA ProbeEnds ==
    ASSUME TableType, NEW key \in Symbols, Stops(key) # {}
    PROVE  /\ Probe(key) \in Slots
           /\ symbol_vals_[Probe(key)] = EMPTY_VAL \/ symbol_keys_[Probe(key)] = key
           /\ \E k \in Slots : Place(key, k) = Probe(key) /\ \A j \in Stops(key) : k <= j
<1>1. Min(Stops(key)) \in Stops(key) /\ \A j \in Stops(key) : Min(Stops(key)) <= j
  BY MinIsLeast, StopsInSlots
<1> QED
  BY <1>1, PlaceInSlots DEF Probe, Stops

\* The known keys are those of the taken slots, and the probe for one ends there.
Findable ==
    /\ \A key \in Symbols : Known(key) =>
           Probe(key) \in Taken /\ symbol_keys_[Probe(key)] = key
    /\ \A key \in Symbols, idx \in Taken :
           symbol_keys_[idx] = key => Known(key) /\ Probe(key) = idx

\* Every key in the table is found by its probe, at its own slot.
LEMMA TableIsFindable == TableType /\ Table => Findable
<1> SUFFICES ASSUME TableType, Table PROVE Findable
  OBVIOUS
<1>1. ASSUME NEW key \in Symbols, Known(key)
      PROVE  Probe(key) \in Taken /\ symbol_keys_[Probe(key)] = key
  BY <1>1, ProbeEnds DEF Known, Taken
<1>2. ASSUME NEW idx \in Taken
      PROVE  Known(symbol_keys_[idx]) /\ Probe(symbol_keys_[idx]) = idx
  <2> DEFINE key == symbol_keys_[idx]
  <2>1. key \in Symbols
    BY DEF TableType, Taken
  <2>2. PICK k \in Slots : Place(key, k) = idx /\ \A j \in Stops(key) : k <= j
    BY DEF Table, Reached
  <2>3. k \in Stops(key)
    BY <2>2 DEF Stops
  <2>4. Min(Stops(key)) = k
    BY <2>1, <2>2, <2>3, StopsInSlots, LeastIsMin
  <2> QED
    BY <2>2, <2>3, <2>4 DEF Known, Probe, Taken
<1> QED
  BY <1>1, <1>2 DEF Findable

\* The conjuncts of OneBookPerSymbol.
LEMMA TableIsOneBookPerSymbol == TableType /\ Table /\ Findable => OneBookPerSymbol
<1> SUFFICES ASSUME TableType, Table, Findable PROVE OneBookPerSymbol
  OBVIOUS
<1>1. \A j, k \in Taken : j # k => symbol_keys_[j] # symbol_keys_[k]
  BY DEF Findable, TableType, Taken
<1>2. \A idx \in Taken : Probe(symbol_keys_[idx]) = idx
  BY DEF Findable, TableType, Taken
<1> QED
  BY <1>1, <1>2 DEF OneBookPerSymbol, Table, Taken

\* What a new symbol does to the table.
Inserted(key) ==
    /\ Probe(key) \in Slots \ Taken
    /\ Taken' = Taken \union {Probe(key)}
    /\ symbol_keys_'[Probe(key)] = key
    /\ symbol_vals_'[Probe(key)] = book_count_
    /\ \A idx \in Slots \ {Probe(key)} :
           symbol_keys_'[idx] = symbol_keys_[idx] /\ symbol_vals_'[idx] = symbol_vals_[idx]

\* A symbol is admitted in the free slot where its probe ends, with the next book.
LEMMA NewIsInserted ==
    ASSUME TableType, NEW key \in Symbols, NEW order, ApplyNew(key, order)
    PROVE  TableType' /\ Inserted(key) /\ book_count_ \in BookIds
<1>1. Stops(key) # {} /\ book_count_ < MAX_SYMBOLS_PER_SHARD
  BY DEF ApplyNew, HasRoom
<1>2. Probe(key) \in Slots /\ symbol_vals_[Probe(key)] = EMPTY_VAL
  BY <1>1, ProbeEnds DEF ApplyNew, Known
<1>3. book_count_ \in BookIds /\ book_count_ + 1 \in 0 .. MAX_SYMBOLS_PER_SHARD
  BY <1>1, TableAssumption DEF TableType, BookIds
<1>4. TableType'
  BY <1>2, <1>3 DEF TableType, ApplyNew, BookIds, Slots
<1>5. /\ symbol_keys_'[Probe(key)] = key
      /\ symbol_vals_'[Probe(key)] = book_count_
      /\ \A idx \in Slots \ {Probe(key)} :
             symbol_keys_'[idx] = symbol_keys_[idx] /\ symbol_vals_'[idx] = symbol_vals_[idx]
  BY <1>2 DEF TableType, ApplyNew
<1>6. book_count_ # EMPTY_VAL
  BY TableAssumption, <1>3 DEF BookIds
<1>7. Taken' = Taken \union {Probe(key)} /\ Probe(key) \in Slots \ Taken
  BY <1>2, <1>5, <1>6 DEF Taken, Slots
<1> QED
  BY <1>3, <1>4, <1>5, <1>7 DEF Inserted

\* Admitting a symbol keeps the table in order: no probe of another key gets shorter,
\* and the book given out is nobody else's.
LEMMA TableStep ==
    ASSUME TableType, Table, Findable, NEW key \in Symbols, NEW order, ApplyNew(key, order)
    PROVE  TableType' /\ Table'
<1>0. TableType' /\ Inserted(key) /\ book_count_ \in BookIds
  BY NewIsInserted
<1> DEFINE p == Probe(key)
<1>1. \A idx \in Taken : symbol_keys_[idx] \in Symbols /\ symbol_keys_[idx] # key
  BY DEF ApplyNew, Findable, TableType, Taken
<1>2. ASSUME NEW own \in Symbols, NEW j \in Stops(own)' PROVE j \in Stops(own)
  <2>1. j \in Slots /\ Place(own, j) \in Slots
    BY PlaceInSlots DEF Stops, Slots
  <2>2. /\ j \in Stops(own) <=> \/ symbol_vals_[Place(own, j)] = EMPTY_VAL
                               \/ symbol_keys_[Place(own, j)] = own
        /\ \/ symbol_vals_'[Place(own, j)] = EMPTY_VAL
           \/ symbol_keys_'[Place(own, j)] = own
    BY <2>1 DEF Stops, Place, Slots
  <2>3. CASE Place(own, j) = p
    BY <1>0, <2>1, <2>2, <2>3 DEF Inserted, Taken
  <2>4. CASE Place(own, j) # p
    BY <1>0, <2>1, <2>2, <2>4 DEF Inserted
  <2> QED
    BY <2>3, <2>4
<1>3. ASSUME NEW idx \in Taken' PROVE Reached(idx)'
  <2>1. idx \in Taken \/ idx = p
    BY <1>0 DEF Inserted
  <2>2. CASE idx \in Taken
    <3>1. symbol_keys_'[idx] = symbol_keys_[idx] /\ symbol_keys_[idx] \in Symbols
      BY <1>0, <1>1, <2>2 DEF Inserted, Taken
    <3>2. Reached(idx)
      BY <2>2 DEF Table
    <3> QED
      BY <1>2, <3>1, <3>2 DEF Reached, Place, Slots
  <2>3. CASE idx = p
    <3>1. \E k \in Slots : Place(key, k) = idx /\ \A j \in Stops(key) : k <= j
      BY <2>3, ProbeEnds DEF ApplyNew, HasRoom
    <3>2. symbol_keys_'[idx] = key
      BY <1>0, <2>3 DEF Inserted
    <3> QED
      BY <1>2, <3>1, <3>2 DEF Reached, Place, Slots
  <2> QED
    BY <2>1, <2>2, <2>3
<1>4. \A idx \in Taken : symbol_vals_'[idx] = symbol_vals_[idx] /\ symbol_vals_[idx] # book_count_
  BY <1>0, TableAssumption DEF Inserted, Table, Taken, BookIds
<1>5. \A j, k \in Taken' : j # k => symbol_vals_'[j] # symbol_vals_'[k]
  BY <1>0, <1>4 DEF Inserted, Table
<1>6. {symbol_vals_'[idx] : idx \in Taken'} = 0 .. book_count_
  <2>1. {symbol_vals_'[idx] : idx \in Taken'} = {symbol_vals_[idx] : idx \in Taken} \union {book_count_}
    BY <1>0, <1>4 DEF Inserted
  <2>2. book_count_ \in Nat
    BY <1>0 DEF BookIds
  <2> QED
    BY <2>1, <2>2 DEF Table
<1>7. book_count_' - 1 = book_count_
  BY <1>0 DEF ApplyNew, BookIds
<1> QED
  BY <1>0, <1>3, <1>5, <1>6, <1>7 DEF Table

\* The new symbol is known, with the next book, and nothing else is found elsewhere.
LEMMA InsertedSymbol ==
    ASSUME TableType, Findable, TableType', Findable', NEW key \in Symbols, Inserted(key),
           NEW other \in Symbols
    PROVE  /\ Known(other)' <=> Known(other) \/ other = key
           /\ Known(other)' =>
                  symbol_vals_'[Probe(other)'] =
                      IF other = key THEN book_count_ ELSE symbol_vals_[Probe(other)]
<1>1. CASE other = key
  BY <1>1 DEF Inserted, Findable
<1>2. CASE other # key
  <2>1. ASSUME Known(other)
        PROVE  Known(other)' /\ symbol_vals_'[Probe(other)'] = symbol_vals_[Probe(other)]
    <3>1. Probe(other) \in Taken /\ symbol_keys_[Probe(other)] = other
      BY <2>1 DEF Findable
    <3>2. /\ Probe(other) \in Taken' /\ symbol_keys_'[Probe(other)] = other
          /\ symbol_vals_'[Probe(other)] = symbol_vals_[Probe(other)]
      BY <3>1 DEF Inserted, Taken
    <3> QED
      BY <3>2 DEF Findable
  <2>2. ASSUME Known(other)' PROVE Known(other)
    <3>1. Probe(other)' \in Taken' /\ symbol_keys_'[Probe(other)'] = other
      BY <2>2 DEF Findable
    <3>2. Probe(other)' \in Taken /\ symbol_keys_[Probe(other)'] = other
      BY <1>2, <3>1 DEF Inserted, Taken
    <3> QED
      BY <3>2 DEF Findable
  <2> QED
    BY <1>2, <2>1, <2>2
<1> QED
  BY <1>1, <1>2

-----------------------------------------------------------------------------
(* The books.                                                              *)

\* A book, as far as its live orders go.
IsBook(book) ==
    /\ book = [live_orders_ |-> book.live_orders_, levels |-> book.levels,
               best |-> book.best, complete |-> book.complete]
    /\ book.live_orders_ \in [Refs -> LiveOrder \union {None}]

\* What a message does to the live orders alone.
LiveApplied(live, order) ==
    LET ref == order.order_ref
        left == live[ref].remaining_shares - Executed(live[ref], order.shares)
    IN  CASE order.type = "Add" ->
               [live EXCEPT ![ref] = [side |-> order.side, price |-> order.price,
                                      remaining_shares |-> order.shares]]
          [] order.type # "Add" /\ live[ref] = None -> live
          [] order.type = "Execute" /\ live[ref] # None ->
               [live EXCEPT ![ref] =
                   IF left = 0 THEN None ELSE [@ EXCEPT !.remaining_shares = left]]
          [] order.type = "Delete" /\ live[ref] # None -> [live EXCEPT ![ref] = None]
          [] order.type = "Replace" /\ live[ref] # None ->
               [live EXCEPT ![ref] = None,
                            ![order.new_order_ref] =
                                [side |-> live[ref].side, price |-> order.price,
                                 remaining_shares |-> order.shares]]

\* The handlers touch the live orders as LiveApplied says, whatever the levels are.
LEMMA LiveOfApplied ==
    ASSUME NEW book, IsBook(book), NEW order \in Messages
    PROVE  /\ Applied(book, order).live_orders_ = LiveApplied(book.live_orders_, order)
           /\ IsBook(Applied(book, order))
<1> DEFINE live == book.live_orders_
<1> DEFINE ref == order.order_ref
<1>1. live \in [Refs -> LiveOrder \union {None}] /\ ref \in Refs
  BY DEF IsBook, Messages, Adds, Executes, Deletes, Replaces
<1>2. CASE order \in Adds
  <2>1. Applied(book, order) = handle_add(book, order)
    BY <1>2 DEF Adds, Applied
  <2> DEFINE new == [side |-> order.side, price |-> order.price,
                     remaining_shares |-> order.shares]
  <2>2. order.type = "Add" /\ new \in LiveOrder
    BY <1>2 DEF Adds, LiveOrder
  <2>3. LiveApplied(live, order) = [live EXCEPT ![ref] = new]
    BY <2>2 DEF LiveApplied
  <2>4. Applied(book, order) =
            [live_orders_ |-> [live EXCEPT ![ref] = new],
             levels |-> Applied(book, order).levels, best |-> Applied(book, order).best,
             complete |-> Applied(book, order).complete]
    BY <2>1 DEF IsBook, handle_add
  <2>5. [live EXCEPT ![ref] = new] \in [Refs -> LiveOrder \union {None}]
    BY <1>1, <2>2
  <2> QED
    BY <2>3, <2>4, <2>5 DEF IsBook
<1>3. CASE order \notin Adds /\ live[ref] = None
  BY <1>3 DEF Messages, Executes, Deletes, Replaces, Applied, IsLive, LiveApplied
<1>4. CASE order \in Executes /\ live[ref] # None
  <2> DEFINE left == live[ref].remaining_shares - Executed(live[ref], order.shares)
  <2> DEFINE after == [live EXCEPT ![ref] =
                           IF left = 0 THEN None ELSE [@ EXCEPT !.remaining_shares = left]]
  <2>1. order.type = "Execute" /\ order.shares \in Shares /\ live[ref] \in LiveOrder
    BY <1>1, <1>4 DEF Executes
  <2>2. LiveApplied(live, order) = after
    BY <1>4, <2>1 DEF LiveApplied
  <2>3. Applied(book, order) = handle_execute(book, order)
    BY <1>4, <2>1 DEF Applied, IsLive
  <2>4. Applied(book, order) =
            [live_orders_ |-> Applied(book, order).live_orders_,
             levels |-> Applied(book, order).levels, best |-> Applied(book, order).best,
             complete |-> Applied(book, order).complete]
    BY <2>3 DEF IsBook, handle_execute, Erased
  <2>5. Applied(book, order).live_orders_ = after
    <3>1. CASE left = 0
      BY <1>1, <2>3, <3>1 DEF IsBook, handle_execute, Erased
    <3>2. CASE left # 0
      BY <1>1, <2>3, <3>2 DEF IsBook, handle_execute, Erased
    <3> QED
      BY <3>1, <3>2
  <2>6. after \in [Refs -> LiveOrder \union {None}]
    <3>1. left # 0 => left \in Shares
      BY <2>1, SizesAssumption DEF LiveOrder, Shares, Executed
    <3>2. left # 0 => [live[ref] EXCEPT !.remaining_shares = left] \in LiveOrder
      BY <2>1, <3>1 DEF LiveOrder
    <3> QED
      BY <1>1, <3>2
  <2> QED
    BY <2>2, <2>4, <2>5, <2>6 DEF IsBook
<1>5. CASE order \in Deletes /\ live[ref] # None
  BY <1>1, <1>5 DEF Deletes, Applied, IsLive, LiveApplied, IsBook, handle_delete, Erased
<1>6. CASE order \in Replaces /\ live[ref] # None
  BY <1>1, <1>6 DEF Replaces, Applied, IsLive, LiveApplied, IsBook, handle_replace, LiveOrder
<1> QED
  BY <1>2, <1>3, <1>4, <1>5, <1>6 DEF Messages

\* The references a message brings or is about.
NamedBy(order) ==
    IF order.type = "Replace" THEN {order.order_ref, order.new_order_ref}
    ELSE {order.order_ref}

\* A message leaves all other orders alone.
LEMMA OthersKept ==
    ASSUME NEW book, IsBook(book), NEW order \in Messages, NEW r \in Refs,
           r \notin NamedBy(order)
    PROVE  Applied(book, order).live_orders_[r] = book.live_orders_[r]
<1>1. Applied(book, order).live_orders_ = LiveApplied(book.live_orders_, order)
  BY LiveOfApplied
<1> QED
  BY <1>1 DEF IsBook, NamedBy, LiveApplied, Messages, Adds, Executes, Deletes, Replaces

\* A message about an order that is not live does nothing.
LEMMA UnknownIgnored ==
    ASSUME NEW book, NEW order \in Messages, order.type # "Add",
           ~IsLive(book, order.order_ref)
    PROVE  Applied(book, order) = book
  BY DEF Applied, Messages, Adds, Executes, Deletes, Replaces

\* Two books that agree on the orders of a message agree on them after it.
LEMMA SameEffect ==
    ASSUME NEW book1, NEW book2, IsBook(book1), IsBook(book2), NEW order \in Messages,
           \A x \in NamedBy(order) : book1.live_orders_[x] = book2.live_orders_[x],
           NEW r \in NamedBy(order)
    PROVE  Applied(book1, order).live_orders_[r] = Applied(book2, order).live_orders_[r]
<1>1. /\ Applied(book1, order).live_orders_ = LiveApplied(book1.live_orders_, order)
      /\ Applied(book2, order).live_orders_ = LiveApplied(book2.live_orders_, order)
  BY LiveOfApplied
<1>2. CASE order \in Adds
  BY <1>1, <1>2 DEF IsBook, NamedBy, LiveApplied, Adds
<1>3. CASE order \in Executes
  BY <1>1, <1>3 DEF IsBook, NamedBy, LiveApplied, Executes
<1>4. CASE order \in Deletes
  BY <1>1, <1>4 DEF IsBook, NamedBy, LiveApplied, Deletes
<1>5. CASE order \in Replaces
  BY <1>1, <1>5 DEF IsBook, NamedBy, LiveApplied, Replaces
<1> QED
  BY <1>2, <1>3, <1>4, <1>5 DEF Messages

\* An order that is live after a message was so before, or the message brought it.
LEMMA BroughtOrKept ==
    ASSUME NEW book, IsBook(book), NEW order \in Messages, NEW r \in Refs,
           IsLive(Applied(book, order), r)
    PROVE  \/ IsLive(book, r)
           \/ order.type = "Add" /\ r = order.order_ref
           \/ order.type = "Replace" /\ r = order.new_order_ref /\ IsLive(book, order.order_ref)
<1>1. Applied(book, order).live_orders_ = LiveApplied(book.live_orders_, order)
  BY LiveOfApplied
<1> QED
  BY <1>1 DEF IsBook, IsLive, LiveApplied, Messages, Adds, Executes, Deletes, Replaces

\* An Add brings its order.
LEMMA AddBrings ==
    ASSUME NEW book, IsBook(book), NEW order \in Adds
    PROVE  /\ IsLive(Applied(book, order), order.order_ref)
           /\ Applied(book, order).live_orders_[order.order_ref] =
                  [side |-> order.side, price |-> order.price, remaining_shares |-> order.shares]
<1>1. Applied(book, order).live_orders_ = LiveApplied(book.live_orders_, order)
  BY LiveOfApplied DEF Messages
<1>2. [side |-> order.side, price |-> order.price, remaining_shares |-> order.shares] \in LiveOrder
  BY DEF Adds, LiveOrder
<1> QED
  BY <1>1, <1>2, NoneAssumption DEF IsBook, IsLive, LiveApplied, Adds

\* A book starts without orders.
LEMMA EmptyIsBook == IsBook(Empty) /\ \A r \in Refs : ~IsLive(Empty, r)
  BY DEF IsBook, Empty, IsLive

-----------------------------------------------------------------------------
(* What apply() of the manager does: a message is given to one book or to  *)
(* none.                                                                   *)

Served(key, order, b) ==
    /\ b \in BookIds /\ b < book_count_'
    /\ books_' = [books_ EXCEPT ![b] = Applied(books_[b], order)]
    /\ total_messages_' = total_messages_ + 1
    /\ Known(key)' /\ symbol_vals_'[Probe(key)'] = b
    /\ Known(key) => symbol_vals_[Probe(key)] = b
    /\ ~Known(key) => b = book_count_
    /\ \A other \in Symbols \ {key} :
           /\ Known(other)' <=> Known(other)
           /\ Known(other) => /\ symbol_vals_'[Probe(other)'] = symbol_vals_[Probe(other)]
                              /\ symbol_vals_[Probe(other)] # b
    /\ book_count_' \in {book_count_, book_count_ + 1}

Dropped(key) == ~Known(key) /\ ~HasRoom(key) /\ UNCHANGED managerVars

TableInv == TableType /\ Table /\ Findable

\* A message goes to the book of its symbol, or the manager has no room and nothing changes.
LEMMA ApplyIsServedOrDropped ==
    ASSUME TableInv, NEW key \in Symbols, NEW order, Apply(key, order)
    PROVE  TableInv' /\ ((\E b \in BookIds : Served(key, order, b)) \/ Dropped(key))
<1> USE DEF TableInv
<1>1. CASE ApplyKnown(key, order)
  <2>1. UNCHANGED <<symbol_keys_, symbol_vals_, book_count_>>
    BY <1>1 DEF ApplyKnown
  <2>2. \A other : (Known(other)' <=> Known(other)) /\ Probe(other)' = Probe(other)
    BY <2>1 DEF Known, Probe, Stops, Place, Slots
  <2>3. TableType' /\ Table'
    BY <2>1 DEF TableType, Table, Taken, Reached, Stops, Place, Slots, BookIds
  <2>4. Findable'
    BY <2>3, TableIsFindable, PTL
  <2>5. \A other \in Symbols : Known(other) =>
            /\ symbol_vals_[Probe(other)] \in BookIds
            /\ symbol_vals_[Probe(other)] < book_count_
            /\ other # key => symbol_vals_[Probe(other)] # symbol_vals_[Probe(key)]
    <3>1. \A idx \in Taken : symbol_vals_[idx] \in 0 .. book_count_ - 1
      BY DEF Table
    <3>2. \A idx \in Taken : symbol_vals_[idx] \in BookIds /\ symbol_vals_[idx] < book_count_
      BY <3>1 DEF TableType, Taken, BookIds
    <3> QED
      BY <1>1, <3>2 DEF Findable, Table, ApplyKnown
  <2>6. Served(key, order, symbol_vals_[Probe(key)])
    BY <1>1, <2>1, <2>2, <2>5 DEF Served, ApplyKnown, Give
  <2> QED
    BY <1>1, <2>3, <2>4, <2>5, <2>6 DEF ApplyKnown
<1>2. CASE ApplyNew(key, order)
  <2>1. TableType' /\ Table' /\ Inserted(key) /\ book_count_ \in BookIds
    BY <1>2, TableStep, NewIsInserted
  <2>2. Findable'
    BY <2>1, TableIsFindable, PTL
  <2>3. \A other \in Symbols :
            /\ Known(other)' <=> Known(other) \/ other = key
            /\ Known(other)' =>
                   symbol_vals_'[Probe(other)'] =
                       IF other = key THEN book_count_ ELSE symbol_vals_[Probe(other)]
    BY <2>1, <2>2, InsertedSymbol
  <2>4. \A other \in Symbols : Known(other) => symbol_vals_[Probe(other)] # book_count_
    <3>1. \A idx \in Taken : symbol_vals_[idx] \in 0 .. book_count_ - 1
      BY DEF Table
    <3>2. \A idx \in Taken : symbol_vals_[idx] # book_count_
      BY <2>1, <3>1 DEF BookIds
    <3> QED
      BY <3>2 DEF Findable
  <2>5. Served(key, order, book_count_)
    BY <1>2, <2>1, <2>3, <2>4 DEF Served, ApplyNew, Give, BookIds
  <2> QED
    BY <2>1, <2>2, <2>5
<1>3. CASE ApplyDropped(key)
  <2>1. Dropped(key)
    BY <1>3 DEF ApplyDropped, Dropped
  <2>2. TableType' /\ Table'
    BY <1>3 DEF ApplyDropped, managerVars, TableType, Table, Taken, Reached, Stops, Place,
       Slots, BookIds
  <2> QED
    BY <2>1, <2>2, TableIsFindable, PTL
<1> QED
  BY <1>1, <1>2, <1>3 DEF Apply

-----------------------------------------------------------------------------
(* The invariant.                                                          *)

FeedType ==
    /\ source \in {"itch", "decoded", "test"}
    /\ next_order_ref \in Nat
    /\ symbol_of \in [Refs -> Symbols]
    /\ received \in Nat /\ total_messages_ \in Nat /\ total_messages_ <= received

BooksType ==
    /\ books_ = [b \in BookIds |-> books_[b]]
    /\ \A b \in BookIds : IsBook(books_[b])
    /\ \A b \in BookIds : b >= book_count_ => books_[b] = Empty
    /\ IsBook(single)

\* An order that is live has its symbol, and is in the book of its symbol only.
Owned ==
    /\ \A r \in Refs : symbol_of[r] # NoKey => r < next_order_ref
    /\ \A r \in Refs : IsLive(single, r) => symbol_of[r] # NoKey
    /\ \A b \in BookIds, r \in Refs : IsLive(books_[b], r) =>
           \E key \in Tickers :
               symbol_of[r] = key /\ Known(key) /\ symbol_vals_[Probe(key)] = b

Inv == TableInv /\ FeedType /\ BooksType /\ Owned /\ ShardingKeepsEveryOrder

\* What a message of the feed is: its new order has no symbol yet, and it
\* carries the symbol its source gives it.
Message(key, order) ==
    /\ Fed(key, order)
    /\ order.type = "Add" =>
           /\ key # NoKey
           /\ symbol_of[order.order_ref] = NoKey /\ symbol_of'[order.order_ref] = key
    /\ order.type = "Replace" =>
           /\ symbol_of[order.new_order_ref] = NoKey
           /\ symbol_of'[order.new_order_ref] = symbol_of[order.order_ref]
    /\ order.type # "Add" =>
           /\ source = "test" => symbol_of[order.order_ref] = NoKey
           /\ source = "itch" => key = symbol_of[order.order_ref]
           /\ source = "decoded" => key = NoKey
    /\ \A r \in Refs : symbol_of[r] # NoKey => symbol_of'[r] = symbol_of[r]

\* Every step of a feed is a message about a new order or a named one, and a
\* reference is given out once.
LEMMA NextIsMessage ==
    ASSUME FeedType, Owned, Next
    PROVE  /\ \E key \in Symbols, order \in Messages : Message(key, order)
           /\ symbol_of' \in [Refs -> Symbols] /\ next_order_ref' \in Nat
           /\ \A r \in Refs : symbol_of'[r] # NoKey => r < next_order_ref'
<1>0. symbol_of[next_order_ref] = NoKey \/ next_order_ref \notin Refs
  BY DEF FeedType, Owned
<1>1. ASSUME NEW key \in Tickers, NEW order \in Adds, FeedAdd(key, order)
      PROVE  /\ key \in Symbols /\ order \in Messages /\ Message(key, order)
             /\ symbol_of' \in [Refs -> Symbols] /\ next_order_ref' \in Nat
             /\ \A r \in Refs : symbol_of'[r] # NoKey => r < next_order_ref'
  <2>1. /\ order.type = "Add" /\ order.order_ref \in Refs /\ order \in Messages
        /\ order.order_ref = next_order_ref /\ key \in Symbols /\ key # NoKey
    BY <1>1 DEF Adds, Messages, FeedAdd, Tickers
  <2>2. next_order_ref' = next_order_ref + 1
    BY <1>1, <2>1 DEF FeedAdd, Fed, RefsTaken, FeedType
  <2>3. symbol_of' = [symbol_of EXCEPT ![order.order_ref] = key]
    BY <1>1 DEF FeedAdd
  <2>4. Fed(key, order)
    BY <1>1 DEF FeedAdd
  <2>5. Message(key, order)
    BY <1>0, <2>1, <2>3, <2>4 DEF Message, FeedType
  <2> QED
    BY <2>1, <2>2, <2>3, <2>5, FeedAssumption DEF FeedType, Owned
<1>2. ASSUME NEW key \in Symbols, NEW order \in Executes \union Deletes,
             FeedExecuteOrDelete(key, order)
      PROVE  /\ key \in Symbols /\ order \in Messages /\ Message(key, order)
             /\ symbol_of' \in [Refs -> Symbols] /\ next_order_ref' \in Nat
             /\ \A r \in Refs : symbol_of'[r] # NoKey => r < next_order_ref'
  <2>1. /\ order.type \in {"Execute", "Delete"} /\ order.order_ref \in Refs
        /\ order \in Messages /\ symbol_of' = symbol_of
        /\ order.order_ref \in NamedRefs /\ key \in KeysFor(order.order_ref)
    BY <1>2 DEF Executes, Deletes, Messages, FeedExecuteOrDelete
  <2>2. next_order_ref' \in Nat /\ next_order_ref' >= next_order_ref
    BY <1>2 DEF FeedExecuteOrDelete, Fed, RefsTaken, FeedType
  <2>3. Fed(key, order)
    BY <1>2 DEF FeedExecuteOrDelete
  <2>4. /\ source = "test" => symbol_of[order.order_ref] = NoKey
        /\ source = "itch" => key = symbol_of[order.order_ref]
        /\ source = "decoded" => key = NoKey
    BY <1>0, <2>1 DEF NamedRefs, GeneratedRefs, KeysFor, DecodedKey
  <2>5. Message(key, order)
    BY <2>1, <2>3, <2>4 DEF Message
  <2> QED
    BY <2>1, <2>2, <2>5, FeedAssumption DEF FeedType, Owned
<1>3. ASSUME NEW key \in Symbols, NEW order \in Replaces, FeedReplace(key, order)
      PROVE  /\ key \in Symbols /\ order \in Messages /\ Message(key, order)
             /\ symbol_of' \in [Refs -> Symbols] /\ next_order_ref' \in Nat
             /\ \A r \in Refs : symbol_of'[r] # NoKey => r < next_order_ref'
  <2> DEFINE new == order.new_order_ref
  <2>1. /\ order.type = "Replace" /\ order.order_ref \in Refs /\ new \in Refs
        /\ order \in Messages
        /\ order.order_ref \in NamedRefs /\ key \in KeysFor(order.order_ref)
        /\ symbol_of' = [symbol_of EXCEPT ![new] = symbol_of[order.order_ref]]
        /\ new = next_order_ref + RefsTaken(order) - 1
    BY <1>3 DEF Replaces, Messages, FeedReplace
  <2>2. RefsTaken(order) \in {1, 2}
    BY <2>1 DEF RefsTaken
  <2>3. next_order_ref' = next_order_ref + RefsTaken(order)
    BY <1>3 DEF FeedReplace, Fed
  <2>4. Fed(key, order)
    BY <1>3 DEF FeedReplace
  <2>5. /\ source = "test" => symbol_of[order.order_ref] = NoKey
        /\ source = "itch" => key = symbol_of[order.order_ref]
        /\ source = "decoded" => key = NoKey
    BY <1>0, <2>1 DEF NamedRefs, GeneratedRefs, KeysFor, DecodedKey
  <2>6. new >= next_order_ref /\ new < next_order_ref' /\ next_order_ref' \in Nat
        /\ next_order_ref' >= next_order_ref
    BY <2>1, <2>2, <2>3 DEF FeedType
  <2>7. symbol_of[new] = NoKey
    <3>1. (symbol_of[new] # NoKey => new < next_order_ref) /\ new \in Nat
      BY <2>1, FeedAssumption DEF Owned
    <3> QED
      BY <2>6, <3>1 DEF FeedType
  <2>8. Message(key, order)
    BY <2>1, <2>4, <2>5, <2>7 DEF Message, FeedType
  <2>9. symbol_of' \in [Refs -> Symbols]
    BY <2>1 DEF FeedType
  <2>10. ASSUME NEW r \in Refs, symbol_of'[r] # NoKey PROVE r < next_order_ref'
    <3>1. CASE r = new
      BY <2>6, <3>1
    <3>2. CASE r # new
      <4>1. symbol_of'[r] = symbol_of[r]
        BY <2>1, <3>2 DEF FeedType
      <4>2. r < next_order_ref /\ r \in Nat
        BY <2>10, <4>1, FeedAssumption DEF Owned
      <4> QED
        BY <2>6, <4>2 DEF FeedType
    <3> QED
      BY <3>1, <3>2
  <2> QED
    BY <2>1, <2>6, <2>8, <2>9, <2>10
<1> QED
  BY <1>1, <1>2, <1>3 DEF Next

\* The inductive invariant holds at the start.
LEMMA InvInit == Init => Inv
<1> SUFFICES ASSUME Init PROVE Inv
  OBVIOUS
<1>1. \A idx \in Slots : symbol_vals_[idx] = EMPTY_VAL
  BY DEF Init, ManagerInit
<1>2. Taken = {}
  BY <1>1 DEF Taken
<1>3. TableType
  BY TableAssumption, FeedAssumption DEF Init, ManagerInit, TableType
<1>4. Table
  <2>1. book_count_ = 0 /\ 0 .. 0 - 1 = {}
    BY DEF Init, ManagerInit
  <2> QED
    BY <1>2, <2>1 DEF Table
<1>5. Findable
  BY <1>3, <1>4, TableIsFindable
<1>6. FeedType
  BY FeedAssumption DEF Init, ManagerInit, FeedType, NoKey
<1>7. books_ = [b \in BookIds |-> Empty] /\ single = Empty
  BY DEF Init, ManagerInit
<1>8. BooksType
  BY <1>7, EmptyIsBook DEF BooksType
<1>9. Owned
  BY <1>7, EmptyIsBook DEF Owned, Init
<1>10. ShardingKeepsEveryOrder
  BY <1>7, EmptyIsBook DEF ShardingKeepsEveryOrder, MessagesReachTheirOrders
<1> QED
  BY <1>3, <1>4, <1>5, <1>6, <1>8, <1>9, <1>10 DEF Inv, TableInv

\* An order that is in the book the message goes to is of the symbol of the message.
LEMMA OwnBookOnly ==
    ASSUME Inv, NEW key \in Symbols, NEW order, NEW b \in BookIds, Served(key, order, b),
           NEW c \in BookIds, NEW r \in Refs, IsLive(books_[c], r)
    PROVE  symbol_of[r] = key <=> c = b
<1>1. PICK own \in Tickers :
          symbol_of[r] = own /\ Known(own) /\ symbol_vals_[Probe(own)] = c
  BY DEF Inv, Owned
<1> QED
  BY <1>1 DEF Served, Tickers

\* The references of a message that are live: only the one it is about.
LEMMA NewIsNotLive ==
    ASSUME Inv, NEW key \in Symbols, NEW order \in Messages, Message(key, order)
    PROVE  /\ \A r \in NamedBy(order) : r \in Refs
           /\ \A r \in NamedBy(order) : r # order.order_ref \/ order.type = "Add" =>
                  ~IsLive(single, r) /\ \A b \in BookIds : ~IsLive(books_[b], r)
           /\ source = "test" => \A r \in NamedBy(order) :
                  ~IsLive(single, r) /\ \A b \in BookIds : ~IsLive(books_[b], r)
<1>1. \A r \in NamedBy(order) : r \in Refs
  BY DEF NamedBy, Messages, Adds, Executes, Deletes, Replaces
<1>2. ASSUME NEW r \in NamedBy(order),
             r # order.order_ref \/ order.type = "Add" \/ source = "test"
      PROVE  symbol_of[r] = NoKey
  BY <1>2 DEF NamedBy, Message
<1> QED
  BY <1>1, <1>2 DEF Inv, Owned, Tickers

\* An Execute, Delete or Replace finds its order in the book it is given to, if
\* any book has it and the message carries the symbol of the order.
LEMMA FoundInOwnBook ==
    ASSUME Inv, NEW key \in Symbols, NEW order \in Messages, Message(key, order),
           order.type # "Add", NEW c \in BookIds, IsLive(books_[c], order.order_ref)
    PROVE  /\ source # "test"
           /\ source = "itch" => Known(key) /\ symbol_vals_[Probe(key)] = c
<1>1. order.order_ref \in NamedBy(order) /\ order.order_ref \in Refs
  BY NewIsNotLive DEF NamedBy
<1> QED
  BY <1>1, NewIsNotLive DEF Inv, Owned, Message, Tickers

\* The books and the single book remain books.
LEMMA BooksTypeStep ==
    ASSUME Inv, NEW key \in Symbols, NEW order \in Messages, Message(key, order),
           (\E b \in BookIds : Served(key, order, b)) \/ Dropped(key)
    PROVE  BooksType'
<1>1. IsBook(single')
  BY LiveOfApplied DEF Inv, BooksType, Message, Fed
<1>2. CASE Dropped(key)
  BY <1>1, <1>2 DEF Dropped, managerVars, Inv, BooksType, BookIds
<1>3. ASSUME NEW b \in BookIds, Served(key, order, b) PROVE BooksType'
  <2>1. books_' = [books_ EXCEPT ![b] = Applied(books_[b], order)]
    BY <1>3 DEF Served
  <2>2. books_' = [c \in BookIds |-> IF c = b THEN Applied(books_[b], order) ELSE books_[c]]
    BY <2>1 DEF Inv, BooksType
  <2>3. \A c \in BookIds : IsBook(books_'[c])
    BY <2>2, LiveOfApplied DEF Inv, BooksType
  <2>4. ASSUME NEW c \in BookIds, c >= book_count_' PROVE books_'[c] = Empty
    <3>1. c >= book_count_ /\ c # b
      BY <1>3, <2>4 DEF Served, Inv, TableInv, TableType, BookIds
    <3> QED
      BY <2>2, <3>1 DEF Inv, BooksType
  <2> QED
    BY <1>1, <2>2, <2>3, <2>4 DEF BooksType, BookIds
<1> QED
  BY <1>2, <1>3

\* After a message every live order is still in the book of its symbol.
LEMMA OwnedStep ==
    ASSUME Inv, NEW key \in Symbols, NEW order \in Messages, Message(key, order),
           (\E b \in BookIds : Served(key, order, b)) \/ Dropped(key),
           \A r \in Refs : symbol_of'[r] # NoKey => r < next_order_ref'
    PROVE  Owned'
<1>0. /\ \A r \in Refs : symbol_of[r] # NoKey => symbol_of'[r] = symbol_of[r]
      /\ \A r \in Refs : symbol_of[r] \in Symbols
  BY DEF Message, Inv, FeedType
<1>1. ASSUME NEW r \in Refs, IsLive(single', r) PROVE symbol_of'[r] # NoKey
  <2>1. IsLive(Applied(single, order), r) /\ IsBook(single)
    BY <1>1 DEF Message, Fed, Inv, BooksType
  <2>2. order.type = "Replace" => order.order_ref \in Refs
    BY DEF Messages, Adds, Executes, Deletes, Replaces
  <2> QED
    BY <1>0, <2>1, <2>2, BroughtOrKept DEF Inv, Owned, Message
<1>2. ASSUME NEW c \in BookIds, NEW r \in Refs, IsLive(books_'[c], r)
      PROVE  \E own \in Tickers :
                 symbol_of'[r] = own /\ Known(own)' /\ symbol_vals_'[Probe(own)'] = c
  <2>1. CASE Dropped(key)
    <3>1. PICK own \in Tickers :
              symbol_of[r] = own /\ Known(own) /\ symbol_vals_[Probe(own)] = c
      BY <1>2, <2>1 DEF Dropped, managerVars, Inv, Owned
    <3>2. UNCHANGED <<symbol_keys_, symbol_vals_>>
      BY <2>1 DEF Dropped, managerVars
    <3>3. Known(own)' /\ Probe(own)' = Probe(own)
      BY <3>1, <3>2 DEF Known, Probe, Stops, Place, Slots
    <3> QED
      BY <1>0, <3>1, <3>2, <3>3 DEF Tickers
  <2>2. ASSUME NEW b \in BookIds, Served(key, order, b)
        PROVE  \E own \in Tickers :
                   symbol_of'[r] = own /\ Known(own)' /\ symbol_vals_'[Probe(own)'] = c
    <3>0. books_' = [books_ EXCEPT ![b] = Applied(books_[b], order)]
      BY <2>2 DEF Served
    <3>1. CASE IsLive(books_[c], r)
      <4>1. PICK own \in Tickers :
                symbol_of[r] = own /\ Known(own) /\ symbol_vals_[Probe(own)] = c
        BY <3>1 DEF Inv, Owned
      <4>2. symbol_of'[r] = own /\ own \in Symbols
        BY <1>0, <4>1 DEF Tickers
      <4>3. Known(own)' /\ symbol_vals_'[Probe(own)'] = c
        BY <2>2, <4>1, <4>2 DEF Served
      <4> QED
        BY <4>2, <4>3
    <3>2. CASE ~IsLive(books_[c], r)
      <4>1. c = b /\ IsLive(Applied(books_[b], order), r) /\ IsBook(books_[b])
        BY <1>2, <3>0, <3>2 DEF Inv, BooksType
      <4>2. symbol_of'[r] = key /\ key # NoKey
        <5>1. CASE order.type = "Add" /\ r = order.order_ref
          BY <5>1 DEF Message
        <5>2. CASE order.type = "Replace" /\ r = order.new_order_ref /\ IsLive(books_[b], order.order_ref)
          <6>1. order.order_ref \in Refs
            BY DEF Messages, Adds, Executes, Deletes, Replaces
          <6>2. symbol_of[order.order_ref] = key /\ symbol_of[order.order_ref] # NoKey
            BY <2>2, <5>2, <6>1, OwnBookOnly DEF Inv, Owned, Tickers
          <6> QED
            BY <5>2, <6>2 DEF Message
        <5> QED
          BY <3>2, <4>1, <5>1, <5>2, BroughtOrKept
      <4>3. Known(key)' /\ symbol_vals_'[Probe(key)'] = c
        BY <2>2, <4>1 DEF Served
      <4> QED
        BY <4>2, <4>3 DEF Tickers
    <3> QED
      BY <3>1, <3>2
  <2> QED
    BY <2>1, <2>2
<1> QED
  BY <1>1, <1>2 DEF Owned, IsLive, BookIds, Tickers

\* The order of a message is live in the book the message goes to, or in none,
\* unless the message carries the wrong symbol.
LEMMA FoundByMessage ==
    ASSUME Inv, NEW key \in Symbols, NEW order \in Messages, Message(key, order),
           source # "decoded", NEW c \in BookIds, NEW r \in NamedBy(order),
           IsLive(books_[c], r)
    PROVE  /\ ~Dropped(key)
           /\ \A b \in BookIds : Served(key, order, b) => c = b
<1>1. r = order.order_ref /\ order.type # "Add"
  BY NewIsNotLive
<1>2. Known(key) /\ symbol_vals_[Probe(key)] = c
  BY <1>1, FoundInOwnBook DEF Inv, FeedType
<1> QED
  BY <1>2 DEF Dropped, Served

\* Where both have its orders, a message does the same to the book and to the single book.
LEMMA SameInBoth ==
    ASSUME Inv, NEW key \in Symbols, NEW order \in Messages, Message(key, order),
           source # "decoded", NEW b \in BookIds, NEW r \in NamedBy(order),
           order.type = "Add" \/ IsLive(books_[b], order.order_ref)
    PROVE  Applied(books_[b], order).live_orders_[r] = Applied(single, order).live_orders_[r]
<1>1. \A x \in NamedBy(order) : books_[b].live_orders_[x] = single.live_orders_[x]
  <2> SUFFICES ASSUME NEW x \in NamedBy(order)
               PROVE  books_[b].live_orders_[x] = single.live_orders_[x]
    OBVIOUS
  <2>1. x \in Refs
    BY NewIsNotLive
  <2>2. CASE IsLive(books_[b], x)
    BY <2>1, <2>2 DEF Inv, ShardingKeepsEveryOrder, MessagesReachTheirOrders
  <2>3. CASE ~IsLive(books_[b], x)
    <3>1. x # order.order_ref \/ order.type = "Add"
      BY <2>3
    <3> QED
      BY <2>3, <3>1, NewIsNotLive DEF IsLive
  <2> QED
    BY <2>2, <2>3
<1> QED
  BY <1>1, SameEffect DEF Inv, BooksType

\* After a message the books still keep each order as the single book does.
LEMMA ShardingStep ==
    ASSUME Inv, NEW key \in Symbols, NEW order \in Messages, Message(key, order),
           (\E b \in BookIds : Served(key, order, b)) \/ Dropped(key)
    PROVE  ShardingKeepsEveryOrder'
<1> SUFFICES ASSUME source # "decoded" PROVE ShardingKeepsEveryOrder'
  BY DEF ShardingKeepsEveryOrder, Message, Fed
<1>0. /\ single' = Applied(single, order) /\ source' = source /\ received' = received + 1
      /\ IsBook(single) /\ \A b \in BookIds : IsBook(books_[b])
      /\ \A r \in NamedBy(order) : r \in Refs
  BY NewIsNotLive DEF Message, Fed, Inv, BooksType
<1>1. ASSUME NEW c \in BookIds, NEW r \in Refs, IsLive(books_'[c], r)
      PROVE  single'.live_orders_[r] = books_'[c].live_orders_[r]
  <2>1. ASSUME books_'[c] = books_[c] PROVE single'.live_orders_[r] = books_'[c].live_orders_[r]
    <3>1. IsLive(books_[c], r) /\ single.live_orders_[r] = books_[c].live_orders_[r]
      BY <1>1, <2>1 DEF Inv, ShardingKeepsEveryOrder, MessagesReachTheirOrders
    <3>2. CASE r \notin NamedBy(order)
      BY <1>0, <2>1, <3>1, <3>2, OthersKept
    <3>3. CASE r \in NamedBy(order)
      <4>1. r = order.order_ref /\ order.type # "Add"
        BY <3>1, <3>3, NewIsNotLive
      <4>2. PICK b \in BookIds : Served(key, order, b) /\ c = b
        BY <3>1, <3>3, FoundByMessage
      <4>3. books_'[c] = Applied(books_[c], order)
        BY <4>2 DEF Served, Inv, BooksType
      <4> QED
        BY <1>0, <3>1, <3>3, <4>1, <4>3, SameInBoth
    <3> QED
      BY <3>2, <3>3
  <2>2. ASSUME Served(key, order, c), books_'[c] # books_[c]
        PROVE  single'.live_orders_[r] = books_'[c].live_orders_[r]
    <3>1. books_'[c] = Applied(books_[c], order)
      BY <2>2 DEF Served, Inv, BooksType
    <3>2. order.type = "Add" \/ IsLive(books_[c], order.order_ref)
      BY <2>2, <3>1, UnknownIgnored
    <3>3. CASE r \in NamedBy(order)
      BY <1>0, <3>1, <3>2, <3>3, SameInBoth
    <3>4. CASE r \notin NamedBy(order)
      <4>1. books_'[c].live_orders_[r] = books_[c].live_orders_[r]
        BY <1>0, <3>1, <3>4, OthersKept
      <4>2. single.live_orders_[r] = books_[c].live_orders_[r]
        BY <1>1, <4>1 DEF IsLive, Inv, ShardingKeepsEveryOrder, MessagesReachTheirOrders
      <4> QED
        BY <1>0, <3>4, <4>1, <4>2, OthersKept
    <3> QED
      BY <3>3, <3>4
  <2>3. books_'[c] = books_[c] \/ Served(key, order, c)
    BY DEF Served, Dropped, managerVars, Inv, BooksType
  <2> QED
    BY <2>1, <2>2, <2>3
<1>2. ASSUME total_messages_' = received', NEW r \in Refs, IsLive(single', r)
      PROVE  \E c \in BookIds : IsLive(books_'[c], r)
  <2>1. PICK b \in BookIds : Served(key, order, b)
    BY <1>0, <1>2 DEF Dropped, managerVars, Inv, FeedType
  <2>2. books_' = [c \in BookIds |-> IF c = b THEN Applied(books_[b], order) ELSE books_[c]]
    BY <2>1 DEF Served, Inv, BooksType
  <2>3. total_messages_ = received
    BY <1>0, <1>2, <2>1 DEF Served, Inv, FeedType
  <2>4. \A x \in Refs : IsLive(single, x) => \E c \in BookIds : IsLive(books_[c], x)
    BY <2>3 DEF Inv, ShardingKeepsEveryOrder
  <2>5. CASE r \notin NamedBy(order)
    <3>1. IsLive(single, r)
      BY <1>0, <1>2, <2>5, OthersKept DEF IsLive
    <3>2. PICK c \in BookIds : IsLive(books_[c], r)
      BY <2>4, <3>1
    <3>3. IsLive(books_'[c], r)
      BY <1>0, <2>2, <2>5, <3>2, OthersKept DEF IsLive
    <3> QED
      BY <3>3
  <2>6. CASE r \in NamedBy(order)
    <3>1. order.type = "Add" \/ IsLive(single, order.order_ref)
      <4>1. ASSUME order.type # "Add", ~IsLive(single, order.order_ref) PROVE FALSE
        <5>1. IsLive(single, r)
          BY <1>0, <1>2, <4>1, UnknownIgnored
        <5> QED
          BY <2>6, <4>1, <5>1, NewIsNotLive
      <4> QED
        BY <4>1
    <3>2. order.type = "Add" \/ IsLive(books_[b], order.order_ref)
      <4>1. order.order_ref \in NamedBy(order)
        BY DEF NamedBy
      <4> QED
        BY <1>0, <2>1, <2>4, <3>1, <4>1, FoundByMessage
    <3>3. Applied(books_[b], order).live_orders_[r] = single'.live_orders_[r]
      BY <1>0, <2>6, <3>2, SameInBoth
    <3> QED
      BY <1>2, <2>2, <3>3 DEF IsLive
  <2> QED
    BY <2>5, <2>6
<1> QED
  BY <1>1, <1>2 DEF ShardingKeepsEveryOrder, MessagesReachTheirOrders, IsLive, BookIds

\* Every message preserves the inductive invariant.
LEMMA InvStep == Inv /\ [Next]_vars => Inv'
<1> SUFFICES ASSUME Inv, [Next]_vars PROVE Inv'
  OBVIOUS
<1>1. CASE Next
  <2>1. /\ \E key \in Symbols, order \in Messages : Message(key, order)
        /\ symbol_of' \in [Refs -> Symbols] /\ next_order_ref' \in Nat
        /\ \A r \in Refs : symbol_of'[r] # NoKey => r < next_order_ref'
    BY <1>1, NextIsMessage DEF Inv
  <2>2. PICK key \in Symbols, order \in Messages : Message(key, order)
    BY <2>1
  <2>3. TableInv' /\ ((\E b \in BookIds : Served(key, order, b)) \/ Dropped(key))
    BY <2>2, ApplyIsServedOrDropped DEF Inv, Message, Fed
  <2>4. FeedType'
    <3>1. /\ total_messages_' \in {total_messages_, total_messages_ + 1}
          /\ received' = received + 1 /\ source' = source
      BY <2>2, <2>3 DEF Message, Fed, Served, Dropped, managerVars
    <3> QED
      BY <2>1, <3>1 DEF Inv, FeedType
  <2> QED
    BY <2>1, <2>2, <2>3, <2>4, BooksTypeStep, OwnedStep, ShardingStep DEF Inv
<1>2. CASE UNCHANGED vars
  <2>1. TableType' /\ Table'
    BY <1>2 DEF vars, managerVars, Inv, TableInv, TableType, Table, Taken, Reached, Stops,
       Place, Slots, BookIds
  <2>2. Findable'
    BY <2>1, TableIsFindable, PTL
  <2>3. FeedType' /\ BooksType' /\ ShardingKeepsEveryOrder'
    BY <1>2 DEF vars, managerVars, feedVars, Inv, FeedType, BooksType,
       ShardingKeepsEveryOrder, MessagesReachTheirOrders, IsLive, BookIds
  <2>4. Owned'
    BY <1>2 DEF vars, managerVars, feedVars, Inv, Owned, IsLive, BookIds, Tickers, Known, Probe,
       Stops, Place, Slots
  <2> QED
    BY <2>1, <2>2, <2>3, <2>4 DEF Inv, TableInv
<1> QED
  BY <1>1, <1>2

(* The inductive invariant: the probe for the key of a taken slot passes   *)
(* only slots of other keys, and a live order is in the book of its symbol *)
(* and in no other.                                                        *)
THEOREM FeedsInvariance == Spec => []Inv
  BY InvInit, InvStep, PTL DEF Spec

(* Symbols whose hashes collide never share a book, and every book that    *)
(* was given out is found again, for every hash, table and number of books.*)
THEOREM BooksAreFound == Spec => []OneBookPerSymbol
<1>1. Inv => OneBookPerSymbol
  BY TableIsOneBookPerSymbol DEF Inv, TableInv
<1> QED
  BY <1>1, FeedsInvariance, PTL

(* With the symbol of the order on every message, the books of the symbols *)
(* keep each order as the single book does.                                *)
THEOREM ShardingIsTransparent == Spec => []ShardingKeepsEveryOrder
<1>1. Inv => ShardingKeepsEveryOrder
  BY DEF Inv
<1> QED
  BY <1>1, FeedsInvariance, PTL

-----------------------------------------------------------------------------
(* The manager implements SymbolBooks.                                     *)

Admitted == {key \in Symbols : Known(key)}

\* As many symbols are known as books were given out.
LEMMA AdmittedAreCounted ==
    ASSUME TableInv
    PROVE  Cardinality(Admitted) = book_count_ /\ IsFiniteSet(Admitted)
<1> DEFINE f == [key \in Admitted |-> symbol_vals_[Probe(key)]]
<1> DEFINE Given == 0 .. book_count_ - 1
<1>1. book_count_ \in Nat
  BY TableAssumption DEF TableInv, TableType
<1>2. \A key \in Admitted : f[key] \in Given
  BY DEF TableInv, Table, Findable, Admitted
<1>3. \A a, b \in Admitted : f[a] = f[b] => a = b
  BY DEF TableInv, Table, Findable, Admitted
<1>4. ASSUME NEW v \in Given PROVE \E key \in Admitted : f[key] = v
  <2>1. PICK idx \in Taken : symbol_vals_[idx] = v
    BY DEF TableInv, Table
  <2>2. symbol_keys_[idx] \in Admitted /\ Probe(symbol_keys_[idx]) = idx
    BY DEF TableInv, TableType, Findable, Taken, Admitted
  <2> QED
    BY <2>1, <2>2
<1>5. f \in Bijection(Admitted, Given)
  BY <1>2, <1>3, <1>4 DEF Bijection, Injection, Surjection, IsInjective
<1>6. ExistsBijection(Given, Admitted)
  BY <1>5, Fun_ExistsBij, Fun_ExistsBijSymmetric
<1>7. IsFiniteSet(Given) /\ Cardinality(Given) = book_count_
  BY <1>1, FS_Interval
<1> QED
  BY <1>6, <1>7, FS_Bijection

\* A probe that turns all the way round has passed every slot.
LEMMA FullTable ==
    ASSUME TableInv, NEW key \in Symbols, Stops(key) = {}
    PROVE  book_count_ = MAX_SYMBOLS_PER_SHARD
<1> DEFINE size == SYMBOL_MAP_CAPACITY
<1> DEFINE f == [k \in Slots |-> symbol_vals_[Place(key, k)]]
<1> DEFINE Given == 0 .. book_count_ - 1
<1>1. size \in Nat \ {0} /\ Hash[key] \in Nat /\ book_count_ \in 0 .. MAX_SYMBOLS_PER_SHARD
      /\ MAX_SYMBOLS_PER_SHARD \in Nat /\ MAX_SYMBOLS_PER_SHARD <= size
  BY TableAssumption, HashAssumption DEF TableInv, TableType
<1>2. \A k \in Slots : Place(key, k) \in Taken
  BY PlaceInSlots DEF Stops, Taken
<1>3. ASSUME NEW j \in Slots, NEW k \in Slots, j < k PROVE Place(key, j) # Place(key, k)
  <2>1. /\ Hash[key] + j \in Nat /\ Hash[key] + k \in Nat
        /\ Hash[key] + j < Hash[key] + k /\ Hash[key] + k < Hash[key] + j + size
    BY <1>1, <1>3 DEF Slots
  <2> QED
    BY <1>1, <2>1, ModDistinct DEF Place
<1>4. \A j, k \in Slots : f[j] = f[k] => j = k
  <2> SUFFICES ASSUME NEW j \in Slots, NEW k \in Slots, j # k PROVE f[j] # f[k]
    OBVIOUS
  <2>1. j < k \/ k < j
    BY DEF Slots
  <2> QED
    BY <1>2, <1>3, <2>1 DEF TableInv, Table
<1>5. f \in Injection(Slots, Given)
  BY <1>2, <1>4 DEF Injection, IsInjective, TableInv, Table
<1>6. /\ IsFiniteSet(Slots) /\ Cardinality(Slots) = size
      /\ IsFiniteSet(Given) /\ Cardinality(Given) = book_count_
  <2>1. IsFiniteSet(0 .. size - 1) /\ Cardinality(0 .. size - 1) = size
    BY <1>1, FS_Interval
  <2>2. book_count_ \in Nat
    BY <1>1
  <2>3. IsFiniteSet(Given) /\ Cardinality(Given) = book_count_
    BY <2>2, FS_Interval
  <2> QED
    BY <2>1, <2>3 DEF Slots
<1>7. size <= book_count_
  BY <1>5, <1>6, FS_Injection
<1> QED
  BY <1>1, <1>7

\* The books of the symbols, as SymbolBooks sees them.
LEMMA BooksServed ==
    ASSUME Inv, TableInv', NEW key \in Symbols, NEW order, NEW b \in BookIds,
           Served(key, order, b)
    PROVE  /\ Admitted' = Admitted \union {key}
           /\ \A other \in Symbols : BookOf(other)' =
                  IF other = key THEN Applied(BookOf(key), order) ELSE BookOf(other)
<1>1. books_' = [c \in BookIds |-> IF c = b THEN Applied(books_[b], order) ELSE books_[c]]
  BY DEF Served, Inv, BooksType
<1>2. BookOf(key) = books_[b]
  BY TableAssumption DEF Served, BookOf, Inv, BooksType, TableInv, TableType, BookIds
<1>3. BookOf(key)' = Applied(BookOf(key), order)
  BY <1>1, <1>2 DEF Served, BookOf
<1>4. ASSUME NEW other \in Symbols \ {key} PROVE BookOf(other)' = BookOf(other)
  <2>1. CASE ~Known(other)
    BY <2>1 DEF Served, BookOf
  <2>2. CASE Known(other)
    <3>1. symbol_vals_[Probe(other)] \in BookIds \ {b}
      BY <2>2, TableAssumption
         DEF Served, Inv, TableInv, TableType, Findable, Taken
    <3> QED
      BY <1>1, <2>2, <3>1 DEF Served, BookOf
  <2> QED
    BY <2>1, <2>2
<1>5. Admitted' = Admitted \union {key}
  BY DEF Served, Admitted
<1> QED
  BY <1>3, <1>4, <1>5

\* The instance's Cardinality is that of FiniteSets.
LEMMA SameCardinality == \A S : PerSymbol!Cardinality(S) = Cardinality(S)
BY DEF PerSymbol!Cardinality, Cardinality

\* A message that goes to a book serves its symbol.
LEMMA ServedIsServe ==
    ASSUME Inv, TableInv', NEW key \in Symbols, NEW order \in Messages, NEW b \in BookIds,
           Served(key, order, b)
    PROVE  PerSymbol!Serve(key)
<1> DEFINE books == [other \in Symbols |-> BookOf(other)]
<1>1. key \in Admitted \/ Cardinality(Admitted) < MAX_SYMBOLS_PER_SHARD
  BY AdmittedAreCounted, TableAssumption DEF Inv, TableInv, Served, BookIds, Admitted
<1>2. Admitted' = Admitted \union {key}
  BY BooksServed
<1>3. books' = [books EXCEPT ![key] = Applied(@, order)]
  BY BooksServed
<1>4. \E message \in Messages : books' = [books EXCEPT ![key] = Applied(@, message)]
  BY <1>3
<1> QED
  BY <1>1, <1>2, <1>4, SameCardinality, Zenon DEF PerSymbol!Serve, Admitted

\* A message the manager drops is of a symbol that came after the admitted ones.
LEMMA DroppedIsIgnore ==
    ASSUME Inv, NEW key \in Symbols, Dropped(key)
    PROVE  PerSymbol!Ignore(key)
<1>1. Cardinality(Admitted) = MAX_SYMBOLS_PER_SHARD /\ key \notin Admitted
  BY AdmittedAreCounted, FullTable, TableAssumption
     DEF Inv, TableInv, TableType, Dropped, HasRoom, Admitted
<1>2. UNCHANGED PerSymbol!booksVars
  BY DEF Dropped, managerVars, PerSymbol!booksVars, BookOf, Known, Probe, Stops, Place, Slots
<1> QED
  BY <1>1, <1>2, SameCardinality, Zenon DEF PerSymbol!Ignore, Admitted

(* However symbols collide in the table, the manager is one order book for *)
(* each of the symbols that came first, and ignores the others.            *)
THEOREM ImplementsSymbolBooks == Spec => IsSymbolBooks
<1>1. Init => PerSymbol!Init
  <2> SUFFICES ASSUME Init PROVE PerSymbol!Init
    OBVIOUS
  <2>1. Taken = {} /\ Findable
    BY InvInit DEF Inv, TableInv, Init, ManagerInit, Taken
  <2>2. \A key \in Symbols : ~Known(key)
    BY <2>1 DEF Findable
  <2> QED
    BY <2>2 DEF PerSymbol!Init, BookOf
<1>2. Inv /\ [Next]_vars => [PerSymbol!Next]_(PerSymbol!booksVars)
  <2> SUFFICES ASSUME Inv, [Next]_vars PROVE [PerSymbol!Next]_(PerSymbol!booksVars)
    OBVIOUS
  <2>1. CASE Next
    <3>1. PICK key \in Symbols, order \in Messages : Message(key, order)
      BY <2>1, NextIsMessage DEF Inv
    <3>2. TableInv' /\ ((\E b \in BookIds : Served(key, order, b)) \/ Dropped(key))
      BY <3>1, ApplyIsServedOrDropped DEF Inv, Message, Fed
    <3>3. PerSymbol!Serve(key) \/ PerSymbol!Ignore(key)
      BY <3>2, ServedIsServe, DroppedIsIgnore
    <3> QED
      BY <3>3 DEF PerSymbol!Next
  <2>2. CASE UNCHANGED vars
    BY <2>2 DEF vars, managerVars, PerSymbol!booksVars, BookOf, Known, Probe, Stops, Place, Slots
  <2> QED
    BY <2>1, <2>2
<1> QED
  BY <1>1, <1>2, FeedsInvariance, PTL DEF Spec, IsSymbolBooks, PerSymbol!Spec

=============================================================================
