------------------------------ MODULE OrderBook ------------------------------
(***************************************************************************)
(* One book of include/order_book.h under its feed. Each step is one call  *)
(* of apply(), which a single thread makes.                                *)
(*                                                                         *)
(* The input is an ITCH feed: an Add or a Replace brings an order          *)
(* reference that is not live and at least one share; an Execute may ask   *)
(* for more than is left.                                                  *)
(***************************************************************************)
EXTENDS BookHandlers

VARIABLE book

Init == book = Empty

\* References are used once: a new one is not live. (A Replace may keep its own.)
FreshRefs(order) ==
    /\ order.type = "Add" => ~IsLive(book, order.order_ref)
    /\ order.type = "Replace" /\ order.new_order_ref # order.order_ref =>
           ~IsLive(book, order.new_order_ref)

apply(order) == FreshRefs(order) /\ book' = Applied(book, order)

Next ==
    \/ \E order \in Adds : apply(order)
    \/ \E order \in Executes : apply(order)
    \/ \E order \in Deletes : apply(order)
    \/ \E order \in Replaces : apply(order)

Spec == Init /\ [][Next]_book

-----------------------------------------------------------------------------
(* Properties.                                                             *)

LevelType ==
    [price : Prices, total_shares : 0 .. Word - 1, order_count : 0 .. Word - 1,
     partials : 0 .. Word - 1]

TypeOK ==
    /\ book.live_orders_ \in [Refs -> LiveOrder \union {None}]
    /\ book.levels \in [Sides -> Seq(LevelType)]
    /\ \A side \in Sides : Len(book.levels[side]) <= MAX_LEVELS
    /\ book.best \in [Sides -> Prices \union {0}]
    /\ book.complete \in BOOLEAN

LiveAt(side, price) ==
    {r \in Refs : /\ IsLive(book, r)
                  /\ book.live_orders_[r].side = side
                  /\ book.live_orders_[r].price = price}

SharesAt(side, price) ==
    MapThenSumSet(LAMBDA r : book.live_orders_[r].remaining_shares, LiveAt(side, price))

(* The arrays stay strictly sorted, best first: what the binary search     *)
(* relies on, through every shift of an insertion or a removal.            *)
LevelsSorted ==
    \A side \in Sides : \A j, k \in DOMAIN book.levels[side] :
        j < k => Ahead(side, book.levels[side][j].price, book.levels[side][k].price)

(* Until an Add finds its side full: the levels are the live orders added  *)
(* up. There is a level for exactly the prices with a live order, and it   *)
(* holds the shares that are left of them.                                 *)
LevelsMirrorLiveOrders ==
    book.complete => \A side \in Sides :
        /\ {level.price : level \in Range(book.levels[side])} =
               {p \in Prices : LiveAt(side, p) # {}}
        /\ \A level \in Range(book.levels[side]) :
               level.total_shares = SharesAt(side, level.price)

(* order_count is not the number of live orders: every partial execution   *)
(* takes the order off the count and its removal takes it off again. Until *)
(* a level was dropped it is behind by exactly the partial executions the  *)
(* level has seen, also after it has wrapped below 0.                      *)
CountBehindByPartials ==
    book.complete => \A side \in Sides : \A level \in Range(book.levels[side]) :
        level.order_count =
            (Cardinality(LiveAt(side, level.price)) - level.partials) % Word

(* README.md, "Since levels are sorted, BBO is always levels[0]": the best *)
(* price kept beside the arrays is the price of the first level. It is not *)
(* once an Add better than every level found its side full: the price is   *)
(* raised and the level dropped.                                           *)
BBOIsAlwaysFirstLevel == \A side \in Sides : book.best[side] = Top(book.levels[side])

(* As long as no level was dropped it is. Add raises the price, the others *)
(* recalculate it only when they remove the best order, and yet it agrees. *)
BestIsFirstLevel == book.complete => BBOIsAlwaysFirstLevel

(* What is left of that when an Add found its side full and its level was  *)
(* dropped. A level may miss shares, never invent them.                    *)
LevelsNeverOverstate ==
    \A side \in Sides : \A level \in Range(book.levels[side]) :
        level.total_shares \in 1 .. SharesAt(side, level.price)

(* And the best price is that of a live order, at or ahead of the first    *)
(* level; it is 0 only on a side that has no level.                        *)
BestIsLive ==
    \A side \in Sides :
        LET best == book.best[side]
        IN  /\ best # 0 => LiveAt(side, best) # {}
            /\ book.levels[side] # <<>> =>
                   best # 0 /\ ~Ahead(side, Top(book.levels[side]), best)

=============================================================================
