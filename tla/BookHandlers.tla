---------------------------- MODULE BookHandlers ----------------------------
(***************************************************************************)
(* The handlers of class OrderBook of include/order_book.h, as operators   *)
(* on a book: each gives the book after the call. A book keeps every live  *)
(* order, the price levels of both sides as arrays sorted best first, and  *)
(* the best price of each side as a separate word. OrderBook is one such   *)
(* book and its feed, ShardedBookManager an array of them.                 *)
(*                                                                         *)
(* live_orders_ is the FlatOrderMap, modelled here as the map it stands    *)
(* for. stats_ counts calls and is left out.                               *)
(***************************************************************************)
EXTENDS Integers, SequencesExt

CONSTANTS Refs,         \* order reference numbers
          Prices, MaxShares,
          MAX_LEVELS,   \* price levels kept per side, 256 in the code
          Word,         \* 2^32: levels count in 32-bit words
          None          \* "no such order"

ASSUME SizesAssumption == /\ {MaxShares, MAX_LEVELS, Word} \subseteq Nat \ {0}
                          /\ MaxShares < Word      \* the shares of a message are a word
ASSUME PricesAssumption == Prices \subseteq Nat \ {0}

Sides == {"B", "S"}

Shares == 1 .. MaxShares

LiveOrder == [side : Sides, price : Prices, remaining_shares : Shares]

ASSUME NoneAssumption == None \notin LiveOrder

\* What apply() is given, with the fields its handlers read.
Adds == [type : {"Add"}, order_ref : Refs, side : Sides, price : Prices, shares : Shares]
Executes == [type : {"Execute"}, order_ref : Refs, shares : Shares]
Deletes == [type : {"Delete"}, order_ref : Refs]
Replaces == [type : {"Replace"}, order_ref : Refs, new_order_ref : Refs,
             price : Prices, shares : Shares]

Messages == Adds \union Executes \union Deletes \union Replaces

-----------------------------------------------------------------------------
(* A book.                                                                 *)
(*   live_orders_   [ref -> live order or None]                            *)
(*   levels         [side -> sequence of levels], bid_levels_, ask_levels_ *)
(*   best           [side -> price or 0], best_bid_price_, best_ask_price_ *)
(*   complete       history, no Add or Replace has found its side full     *)

Empty ==
    [live_orders_ |-> [r \in Refs |-> None], levels |-> [side \in Sides |-> <<>>],
     best |-> [side \in Sides |-> 0], complete |-> TRUE]

-----------------------------------------------------------------------------
(* The level arrays. Places are 0-based as in the code; lv[k + 1] is place *)
(* k. The field partials of a level is history: how often an execution has *)
(* left a part of one of its orders.                                       *)

\* A level at price p stands before one at price q: bids descend, asks ascend.
Ahead(side, p, q) == IF side = "B" THEN p > q ELSE p < q

\* binary_find: the place of the price, or -(insertion point) - 1.
BinaryFind(lv, side, price) ==
    LET search[part \in (0 .. Len(lv)) \X (-1 .. Len(lv) - 1)] ==
            LET lo == part[1]
                hi == part[2]
                mid == (lo + hi) \div 2
            IN  CASE lo > hi -> -(lo + 1)
                  [] lo <= hi /\ lv[mid + 1].price = price -> mid
                  [] lo <= hi /\ Ahead(side, lv[mid + 1].price, price) -> search[<<mid + 1, hi>>]
                  [] OTHER -> search[<<lo, mid - 1>>]
    IN  search[<<0, Len(lv) - 1>>]

\* The insertion point is taken one place too early.
InsertPos_Early(idx) == IF idx < -1 THEN -(idx + 2) ELSE 0

InsertPos(idx) == -(idx + 1)

\* The array is not checked for being full.
IsFull_Never(lv) == FALSE

IsFull(lv) == Len(lv) >= MAX_LEVELS

\* The new order is not counted.
Joined_CountKept(level, shares) ==
    [level EXCEPT !.total_shares = (@ + shares) % Word]

Joined(level, shares) ==
    [level EXCEPT !.total_shares = (@ + shares) % Word, !.order_count = (@ + 1) % Word]

\* A new level takes its place in the order; a full array drops it.
AddToLevels(lv, side, price, shares) ==
    LET idx == BinaryFind(lv, side, price)
        level == [price |-> price, total_shares |-> shares, order_count |-> 1,
                  partials |-> 0]
    IN  CASE idx >= 0 -> [lv EXCEPT ![idx + 1] = Joined(@, shares)]
          [] idx < 0 /\ IsFull(lv) -> lv
          [] OTHER -> InsertAt(lv, InsertPos(idx) + 1, level)

\* The array has a level of this price, or a place for one.
Fits(lv, price) == ~IsFull(lv) \/ \E k \in DOMAIN lv : lv[k].price = price

\* The level goes only when fewer shares than the order's are left in it.
UsesUp_Strictly(level, shares) == shares > level.total_shares

UsesUp(level, shares) == shares >= level.total_shares

\* Every call takes one order off the count, whatever is left of the order:
\* partial is 1 when it stays live and 0 when it goes.
RemoveFromLevels(lv, side, price, shares, partial) ==
    LET idx == BinaryFind(lv, side, price)
    IN  CASE idx < 0 -> lv
          [] idx >= 0 /\ UsesUp(lv[idx + 1], shares) -> RemoveAt(lv, idx + 1)
          [] OTHER -> [lv EXCEPT ![idx + 1].total_shares = @ - shares,
                                 ![idx + 1].order_count = (@ - 1) % Word,
                                 ![idx + 1].partials = (@ + partial) % Word]

\* recalculate_best_bid, recalculate_best_ask
Top(lv) == IF lv = <<>> THEN 0 ELSE lv[1].price

-----------------------------------------------------------------------------
(* The handlers: the book after the call.                                  *)

IsLive(book, ref) == book.live_orders_[ref] # None

\* The best price after an Add: raised, never recalculated.
BestAfterAdd(best, side, price) ==
    IF best = 0 \/ Ahead(side, price, best) THEN price ELSE best

handle_add(book, order) ==
    [book EXCEPT
        !.live_orders_[order.order_ref] = [side |-> order.side, price |-> order.price,
                                           remaining_shares |-> order.shares],
        !.levels[order.side] = AddToLevels(@, order.side, order.price, order.shares),
        !.best[order.side] = BestAfterAdd(@, order.side, order.price),
        !.complete = @ /\ Fits(book.levels[order.side], order.price)]

\* The best price is left as it was.
BestAfterRemoval_Stale(best, removed_price, lv) == best

\* recalculate_bbo(side, removed_price)
BestAfterRemoval(best, removed_price, lv) ==
    IF removed_price = best THEN Top(lv) ELSE best

\* The end of an order whose shares are off the levels: erase(), recalculate_bbo().
Erased(b, ref) ==
    LET lo == b.live_orders_[ref]
    IN  [b EXCEPT !.live_orders_[ref] = None,
                  !.best[lo.side] = BestAfterRemoval(@, lo.price, b.levels[lo.side])]

\* The order is executed beyond what is left of it.
Executed_Unclamped(lo, shares) == shares

Executed(lo, shares) == IF shares > lo.remaining_shares THEN lo.remaining_shares ELSE shares

handle_execute(book, order) ==
    LET ref == order.order_ref
        lo == book.live_orders_[ref]
        exec_shares == Executed(lo, order.shares)
        left == lo.remaining_shares - exec_shares
        partial == IF left = 0 THEN 0 ELSE 1
        reduced == [book EXCEPT
            !.levels[lo.side] = RemoveFromLevels(@, lo.side, lo.price, exec_shares, partial),
            !.live_orders_[ref].remaining_shares = left]
    IN  IF left = 0 THEN Erased(reduced, ref) ELSE reduced

handle_delete(book, order) ==
    LET lo == book.live_orders_[order.order_ref]
    IN  Erased([book EXCEPT !.levels[lo.side] =
                    RemoveFromLevels(@, lo.side, lo.price, lo.remaining_shares, 0)],
               order.order_ref)

\* The side is kept; both best prices are recalculated.
handle_replace(book, order) ==
    LET lo == book.live_orders_[order.order_ref]
        without == RemoveFromLevels(book.levels[lo.side], lo.side, lo.price,
                                    lo.remaining_shares, 0)
        levels == [book.levels EXCEPT ![lo.side] =
                       AddToLevels(without, lo.side, order.price, order.shares)]
    IN  [live_orders_ |-> [book.live_orders_ EXCEPT
             ![order.order_ref] = None,
             ![order.new_order_ref] = [side |-> lo.side, price |-> order.price,
                                       remaining_shares |-> order.shares]],
         levels |-> levels,
         best |-> [side \in Sides |-> Top(levels[side])],
         complete |-> book.complete /\ Fits(without, order.price)]

\* An Execute, Delete or Replace of an order that is not live changes nothing.
Applied(book, order) ==
    CASE order.type = "Add" -> handle_add(book, order)
      [] order.type # "Add" /\ ~IsLive(book, order.order_ref) -> book
      [] order.type = "Execute" /\ IsLive(book, order.order_ref) -> handle_execute(book, order)
      [] order.type = "Delete" /\ IsLive(book, order.order_ref) -> handle_delete(book, order)
      [] order.type = "Replace" /\ IsLive(book, order.order_ref) -> handle_replace(book, order)

=============================================================================
