------------------------- MODULE ShardedBookManager -------------------------
(***************************************************************************)
(* class ShardedBookManager of include/order_book.h: the books of one      *)
(* thread. A small open-addressed table maps the ticker key of a message   *)
(* to the index of its book; a new symbol takes the next book, and once    *)
(* every book is taken the messages of further symbols are dropped.        *)
(* Nothing is ever removed from the table, so a slot is empty exactly      *)
(* while its value is EMPTY_VAL; its key is 0 until then, which is a key a *)
(* message can carry. A book is that of BookHandlers.                      *)
(***************************************************************************)
EXTENDS BookHandlers, FiniteSetsExt

CONSTANTS Symbols,                  \* ticker keys, words of 64 bits
          Hash,                     \* [Symbols -> Nat]: symbol_hash
          MAX_SYMBOLS_PER_SHARD,    \* 512 in the code
          SYMBOL_MAP_CAPACITY,      \* 1024 in the code
          EMPTY_VAL

ASSUME SymbolsAssumption == Symbols \subseteq Nat
ASSUME HashAssumption == Hash \in [Symbols -> Nat]
ASSUME TableAssumption ==
    /\ {MAX_SYMBOLS_PER_SHARD, SYMBOL_MAP_CAPACITY} \subseteq Nat \ {0}
    /\ MAX_SYMBOLS_PER_SHARD <= SYMBOL_MAP_CAPACITY
    /\ EMPTY_VAL \notin Nat

VARIABLES
    symbol_keys_,   \* [slot -> key]
    symbol_vals_,   \* [slot -> index of a book, or EMPTY_VAL]
    book_count_,
    books_,         \* [index -> book]
    total_messages_

managerVars == <<symbol_keys_, symbol_vals_, book_count_, books_, total_messages_>>

Slots == 0 .. SYMBOL_MAP_CAPACITY - 1
BookIds == 0 .. MAX_SYMBOLS_PER_SHARD - 1

ManagerInit ==
    /\ symbol_keys_ = [idx \in Slots |-> 0]
    /\ symbol_vals_ = [idx \in Slots |-> EMPTY_VAL]
    /\ book_count_ = 0
    /\ books_ = [b \in BookIds |-> Empty]
    /\ total_messages_ = 0

-----------------------------------------------------------------------------

\* The slot of the k-th step of the probe for key.
Place(key, k) == (Hash[key] + k) % SYMBOL_MAP_CAPACITY

\* The probe stops at an empty slot only.
Stops_EmptyOnly(key) ==
    {k \in Slots : symbol_vals_[Place(key, k)] = EMPTY_VAL}

\* The probe stops at any slot that is taken.
Stops_KeyNotCompared(key) ==
    {k \in Slots : k = 0 \/ symbol_vals_[Place(key, k)] = EMPTY_VAL}

\* The probe stops at the key or at an empty slot.
Stops(key) ==
    {k \in Slots : \/ symbol_vals_[Place(key, k)] = EMPTY_VAL
                   \/ symbol_keys_[Place(key, k)] = key}

Probe(key) == Place(key, Min(Stops(key)))

Known(key) == Stops(key) # {} /\ symbol_vals_[Probe(key)] # EMPTY_VAL

\* An empty slot was found and a book is left; otherwise the symbol is FULL.
HasRoom(key) == Stops(key) # {} /\ book_count_ < MAX_SYMBOLS_PER_SHARD

Give(b, order) ==
    /\ books_' = [books_ EXCEPT ![b] = Applied(@, order)]
    /\ total_messages_' = total_messages_ + 1

\* apply() on a symbol that has its book.
ApplyKnown(key, order) ==
    /\ Known(key)
    /\ Give(symbol_vals_[Probe(key)], order)
    /\ UNCHANGED <<symbol_keys_, symbol_vals_, book_count_>>

\* find_or_insert_symbol() takes the next book for a new symbol.
ApplyNew(key, order) ==
    /\ ~Known(key)
    /\ HasRoom(key)
    /\ symbol_keys_' = [symbol_keys_ EXCEPT ![Probe(key)] = key]
    /\ symbol_vals_' = [symbol_vals_ EXCEPT ![Probe(key)] = book_count_]
    /\ book_count_' = book_count_ + 1
    /\ Give(book_count_, order)

\* FULL: no book is left, or the probe has turned all the way round.
ApplyDropped(key) ==
    /\ ~Known(key)
    /\ ~HasRoom(key)
    /\ UNCHANGED managerVars

\* apply(order), with its ticker key apart
Apply(key, order) ==
    ApplyKnown(key, order) \/ ApplyNew(key, order) \/ ApplyDropped(key)

-----------------------------------------------------------------------------
(* Properties.                                                             *)

\* get_book(key), or a book nothing has happened to.
BookOf(key) == IF Known(key) THEN books_[symbol_vals_[Probe(key)]] ELSE Empty

(* Symbols whose hashes collide never share a book, no symbol has entries  *)
(* for two books, and every book that was given out can be found again,    *)
(* even when the table is full.                                            *)
OneBookPerSymbol ==
    LET taken == {idx \in Slots : symbol_vals_[idx] # EMPTY_VAL}
    IN  /\ \A j, k \in taken :
               \/ j = k
               \/ symbol_keys_[j] # symbol_keys_[k] /\ symbol_vals_[j] # symbol_vals_[k]
        /\ \A idx \in taken : Probe(symbol_keys_[idx]) = idx
        /\ {symbol_vals_[idx] : idx \in taken} = 0 .. book_count_ - 1

(* However symbols collide in the table, the manager is one order book per *)
(* symbol, of which each message changes the one of its symbol and no      *)
(* other; a symbol is served from its first message on or never.           *)
PerSymbol == INSTANCE SymbolBooks WITH
                 MaxSymbols <- MAX_SYMBOLS_PER_SHARD,
                 admitted <- {key \in Symbols : Known(key)},
                 books <- [key \in Symbols |-> BookOf(key)]

IsSymbolBooks == PerSymbol!Spec

=============================================================================
