----------------------------- MODULE SymbolBooks -----------------------------
(***************************************************************************)
(* What the books of one thread promise, whatever table finds them: every  *)
(* symbol has an order book of its own, which sees all the messages of its *)
(* symbol and no others. Only so many symbols are admitted, in the order   *)
(* they come; the messages of the others are ignored for good.             *)
(* What a book is does not matter here: it starts Empty, and a message     *)
(* makes it Applied(book, message). ShardedBookManager implements this.    *)
(***************************************************************************)
EXTENDS Integers, FiniteSets

CONSTANTS Symbols, MaxSymbols, Messages, Empty, Applied(_, _)

VARIABLES
    admitted,   \* the symbols that have a book
    books       \* [symbol -> its book]

booksVars == <<admitted, books>>

Init ==
    /\ admitted = {}
    /\ books = [key \in Symbols |-> Empty]

Serve(key) ==
    /\ key \in admitted \/ Cardinality(admitted) < MaxSymbols
    /\ admitted' = admitted \union {key}
    /\ \E order \in Messages :
           books' = [books EXCEPT ![key] = Applied(@, order)]

Ignore(key) ==
    /\ key \notin admitted
    /\ Cardinality(admitted) = MaxSymbols
    /\ UNCHANGED booksVars

Next ==
    \E key \in Symbols : Serve(key) \/ Ignore(key)

Spec == Init /\ [][Next]_booksVars

=============================================================================
