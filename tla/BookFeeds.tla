------------------------------ MODULE BookFeeds ------------------------------
(***************************************************************************)
(* The feeds the books are given, and the manager under them. Three        *)
(* sources of DecodedOrders exist in the code:                             *)
(*   "itch"     a feed whose messages carry the symbol of their order, as  *)
(*              DecodedOrder has room for;                                 *)
(*   "decoded"  what decode_add_order, decode_execute, decode_delete and   *)
(*              decode_replace make of it: only an Add has a symbol, the   *)
(*              others carry ticker key 0;                                 *)
(*   "test"     generate_test_data() of experiments.cpp, and main.cpp:     *)
(*              every message takes an order reference of its own, also    *)
(*              the Executes, Deletes and Replaces. (main.cpp numbers the  *)
(*              orders a Replace brings after all the others; they are     *)
(*              just as new.)                                              *)
(* As in experiment 5 the same messages also go, whatever their symbol,    *)
(* into one single OrderBook.                                              *)
(***************************************************************************)
EXTENDS ShardedBookManager

CONSTANTS MaxMessages   \* bound of the model: messages of a feed

ASSUME FeedAssumption == /\ Refs \subseteq Nat
                         /\ 0 \in Symbols
                         /\ MaxMessages \in Nat

NoKey == 0

VARIABLES
    source,
    next_order_ref,
    symbol_of,        \* [ref -> the symbol the exchange knows it by, or NoKey]
    received,         \* messages so far
    single            \* the book of all symbols together

feedVars == <<source, next_order_ref, symbol_of, received, single>>
vars == <<managerVars, feedVars>>

Init ==
    /\ ManagerInit
    /\ source \in {"itch", "decoded", "test"}
    /\ next_order_ref = 1
    /\ symbol_of = [r \in Refs |-> NoKey]
    /\ received = 0
    /\ single = Empty

-----------------------------------------------------------------------------

Tickers == Symbols \ {NoKey}

\* The reference an Execute, Delete or Replace of the generated data names.
GeneratedRefs == {next_order_ref}

\* The orders an Execute, Delete or Replace may name.
NamedRefs ==
    IF source = "test" THEN GeneratedRefs
    ELSE {r \in Refs : symbol_of[r] # NoKey}

DecodedKey(ref) == NoKey

\* The ticker keys such a message may carry.
KeysFor(ref) ==
    CASE source = "test" -> Tickers
      [] source = "itch" -> {symbol_of[ref]}
      [] source = "decoded" -> {DecodedKey(ref)}

\* order_ref = next_order_ref++ of an Add or of any generated message,
\* new_order_ref = next_order_ref++ of a Replace
RefsTaken(order) ==
    (IF source = "test" \/ order.type = "Add" THEN 1 ELSE 0)
    + (IF order.type = "Replace" THEN 1 ELSE 0)

Fed(key, order) ==
    /\ received < MaxMessages
    /\ received' = received + 1
    /\ next_order_ref' = next_order_ref + RefsTaken(order)
    /\ Apply(key, order)
    /\ single' = Applied(single, order)
    /\ UNCHANGED source

FeedAdd(key, order) ==
    /\ order.order_ref = next_order_ref
    /\ symbol_of' = [symbol_of EXCEPT ![order.order_ref] = key]
    /\ Fed(key, order)

FeedExecuteOrDelete(key, order) ==
    /\ order.order_ref \in NamedRefs
    /\ key \in KeysFor(order.order_ref)
    /\ Fed(key, order)
    /\ UNCHANGED symbol_of

\* The new order is of the symbol of the old one.
FeedReplace(key, order) ==
    LET ref == order.order_ref
    IN  /\ ref \in NamedRefs
        /\ key \in KeysFor(ref)
        /\ order.new_order_ref = next_order_ref + RefsTaken(order) - 1
        /\ symbol_of' = [symbol_of EXCEPT ![order.new_order_ref] = symbol_of[ref]]
        /\ Fed(key, order)

Next ==
    \/ \E key \in Tickers, order \in Adds : FeedAdd(key, order)
    \/ \E key \in Symbols, order \in Executes \union Deletes :
           FeedExecuteOrDelete(key, order)
    \/ \E key \in Symbols, order \in Replaces : FeedReplace(key, order)

Spec == Init /\ [][Next]_vars

-----------------------------------------------------------------------------
(* Properties.                                                             *)

(* README.md, "Full ITCH message support": an Execute, a Delete and a      *)
(* Replace reach the order they name, so that what a symbol's book keeps   *)
(* of an order is what one book of all symbols keeps of it, which does not *)
(* look at the symbol of a message. The decoded feed breaks it.            *)
MessagesReachTheirOrders ==
    \A b \in BookIds, r \in Refs :
        IsLive(books_[b], r) => single.live_orders_[r] = books_[b].live_orders_[r]

(* Sharding changes the fate of no order. When the messages carry the      *)
(* symbol of their order, what a symbol's book keeps of an order is what   *)
(* the single book of all symbols keeps of it, and as long as no symbol    *)
(* was dropped the books together keep every order the single book does.   *)
ShardingKeepsEveryOrder ==
    source # "decoded" =>
        /\ MessagesReachTheirOrders
        /\ total_messages_ = received =>
               \A r \in Refs : IsLive(single, r) => \E b \in BookIds : IsLive(books_[b], r)

=============================================================================
