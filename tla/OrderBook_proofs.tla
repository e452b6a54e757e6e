--------------------------- MODULE OrderBook_proofs ---------------------------
(***************************************************************************)
(* The order book against its live orders, for every set of references and *)
(* prices, every number of levels and every width of a word.               *)
(*                                                                         *)
(* The invariant has two parts. Shape: the fields are typed and the arrays *)
(* sorted, so that binary_find answers right; every step keeps it. Right:  *)
(* an array and a best price are what the orders of their side add up to,  *)
(* exactly while no level was dropped, from below afterwards; a step keeps *)
(* it as long as the shares at one price fit in the 32-bit total of their  *)
(* level.                                                                  *)
(*                                                                         *)
(* The proof follows the code. First the search, the two shifts and what   *)
(* add_to_levels and remove_from_levels do to an array; then the same with *)
(* the array read as the depth of its side; then what one more and one     *)
(* less live order do to that depth; last the handlers, each of which is   *)
(* made of three operations on a book: with an order, without it, and with *)
(* less of it.                                                             *)
(***************************************************************************)
EXTENDS OrderBook, RingsAndSequences, FiniteSetTheorems

-----------------------------------------------------------------------------
(* The binary search.                                                      *)

\* The parts of an array of L levels the search is called for, from place part[1] to part[2].
Parts(L) == (0 .. L) \X (-1 .. L - 1)

\* One call of the search, with f for its two halves.
SearchStep(lv, side, price, f, part) ==
    LET lo == part[1]
        hi == part[2]
        mid == (lo + hi) \div 2
    IN  CASE lo > hi -> -(lo + 1)
          [] lo <= hi /\ lv[mid + 1].price = price -> mid
          [] lo <= hi /\ Ahead(side, lv[mid + 1].price, price) -> f[<<mid + 1, hi>>]
          [] OTHER -> f[<<lo, mid - 1>>]

\* The search as a function of the part, defined at once for all parts.
IsSearch(lv, side, price, f) ==
    f = [part \in Parts(Len(lv)) |-> SearchStep(lv, side, price, f, part)]

\* binary_find is that function at the whole array.
LEMMA BinaryFindIsSearch ==
    ASSUME NEW lv, NEW side, NEW price
    PROVE  BinaryFind(lv, side, price) = (CHOOSE f : IsSearch(lv, side, price, f))[<<0, Len(lv) - 1>>]
  BY DEF BinaryFind, IsSearch, SearchStep, Parts

\* The halves are shorter.
LEMMA Halves ==
    ASSUME NEW L \in Nat, NEW lo \in 0 .. L, NEW hi \in -1 .. L - 1, lo <= hi
    PROVE  LET mid == (lo + hi) \div 2
           IN  /\ mid \in lo .. hi
               /\ <<mid + 1, hi>> \in Parts(L) /\ hi - (mid + 1) < hi - lo
               /\ <<lo, mid - 1>> \in Parts(L) /\ (mid - 1) - lo < hi - lo
<1> DEFINE mid == (lo + hi) \div 2
<1>1. mid \in lo .. hi
  OBVIOUS
<1> QED
  BY <1>1 DEF Parts

\* A call only looks at shorter parts.
LEMMA SearchStepLocal ==
    ASSUME NEW L \in Nat, NEW lv, NEW side, NEW price, NEW f, NEW g,
           NEW part \in Parts(L),
           \A q \in Parts(L) : q[2] - q[1] < part[2] - part[1] => f[q] = g[q]
    PROVE  SearchStep(lv, side, price, f, part) = SearchStep(lv, side, price, g, part)
<1> DEFINE lo == part[1]
<1> DEFINE hi == part[2]
<1> DEFINE mid == (lo + hi) \div 2
<1>0. lo \in 0 .. L /\ hi \in -1 .. L - 1
  BY DEF Parts
<1>1. CASE lo > hi
  BY <1>0, <1>1 DEF SearchStep
<1>2. CASE lo <= hi
  <2>1. f[<<mid + 1, hi>>] = g[<<mid + 1, hi>>] /\ f[<<lo, mid - 1>>] = g[<<lo, mid - 1>>]
    <3> DEFINE q1 == <<mid + 1, hi>>
    <3> DEFINE q2 == <<lo, mid - 1>>
    <3>1. /\ q1 \in Parts(L) /\ q1[2] - q1[1] < hi - lo
          /\ q2 \in Parts(L) /\ q2[2] - q2[1] < hi - lo
      BY <1>0, <1>2, Halves
    <3> HIDE DEF q1, q2
    <3>2. f[q1] = g[q1] /\ f[q2] = g[q2]
      BY <3>1
    <3> QED
      BY <3>2 DEF q1, q2
  <2> QED
    BY <2>1, Zenon DEF SearchStep
<1> QED
  BY <1>0, <1>1, <1>2

\* There is such a function: the search ends on every array, sorted or not.
LEMMA SearchExists ==
    ASSUME NEW L \in Nat, NEW lv, Len(lv) = L, NEW side, NEW price
    PROVE  \E f : IsSearch(lv, side, price, f)
<1> DEFINE Step(f, part) == SearchStep(lv, side, price, f, part)
<1> DEFINE Size(part) == part[2] - part[1]
<1> DEFINE Upto(f, n) == \A part \in Parts(L) : Size(part) < n => f[part] = Step(f, part)
<1> DEFINE Missing == {n \in Nat : ~\E f : Upto(f, n)}
<1>0. \A part \in Parts(L) : Size(part) \in Int /\ Size(part) < L
  BY DEF Parts
<1>l. ASSUME NEW f, NEW g, NEW part \in Parts(L),
             \A q \in Parts(L) : Size(q) < Size(part) => f[q] = g[q]
      PROVE  Step(f, part) = Step(g, part)
  BY <1>l, SearchStepLocal
<1>e. \A part \in Parts(L) : Size(part) < 0 => \A f : Step(f, part) = -(part[1] + 1)
  BY DEF Parts, SearchStep
<1> HIDE DEF Step, Size
<1>1. \A n \in Nat : \E f : Upto(f, n)
  <2> SUFFICES ASSUME Missing # {} PROVE FALSE
    OBVIOUS
  <2>1. PICK n \in Missing : \A m \in Missing : n <= m
    <3> HIDE DEF Missing
    <3>1. Missing \in SUBSET Nat
      BY DEF Missing
    <3> QED
      BY <3>1, LeastElement
  <2>2. CASE n = 0
    <3> DEFINE f == [part \in Parts(L) |-> -(part[1] + 1)]
    <3>1. Upto(f, 0)
      BY <1>e
    <3> QED
      BY <2>1, <2>2, <3>1
  <2>3. CASE n # 0
    <3>1. n - 1 \in Nat /\ n - 1 \notin Missing
      BY <2>1, <2>3
    <3>2. PICK f : Upto(f, n - 1)
      BY <3>1
    <3> DEFINE g == [part \in Parts(L) |-> IF Size(part) < n - 1 THEN f[part] ELSE Step(f, part)]
    <3>3. \A part \in Parts(L) :
              g[part] = IF Size(part) < n - 1 THEN f[part] ELSE Step(f, part)
      OBVIOUS
    <3> HIDE DEF g
    <3>4. ASSUME NEW part \in Parts(L), Size(part) < n
          PROVE  g[part] = Step(g, part)
      <4>1. \A q \in Parts(L) : Size(q) < Size(part) => f[q] = g[q]
        BY <1>0, <3>1, <3>3, <3>4
      <4>2. Step(f, part) = Step(g, part)
        BY <4>1, <1>l
      <4>3. g[part] = Step(f, part)
        BY <3>2, <3>3
      <4> QED
        BY <4>2, <4>3
    <3>5. Upto(g, n)
      BY <3>4
    <3> QED
      BY <2>1, <3>5
  <2> QED
    BY <2>2, <2>3
<1>2. PICK f : Upto(f, L)
  BY <1>1
<1> DEFINE g == [part \in Parts(L) |-> Step(f, part)]
<1>3. \A part \in Parts(L) : f[part] = g[part]
  BY <1>0, <1>2
<1>4. \A part \in Parts(L) : Step(f, part) = Step(g, part)
  <2> HIDE DEF g
  <2> QED
    BY <1>3, <1>l
<1>5. g = [part \in Parts(L) |-> Step(g, part)]
  <2> DEFINE h == [part \in Parts(L) |-> Step(g, part)]
  <2>1. \A part \in Parts(L) : g[part] = h[part]
    <3> HIDE DEF h, g
    <3> QED BY <1>4 DEF h, g
  <2> QED
    BY <2>1
<1> QED
  BY <1>5 DEF IsSearch, Step

\* The arrays of a book.
Sorted(side, lv) == \A j, k \in DOMAIN lv : j < k => Ahead(side, lv[j].price, lv[k].price)

\* What binary_find answers, on a sorted array: the place of the price, or the place
\* between those ahead of it and those it is ahead of.
FoundIn(lv, side, price, lo, hi, idx) ==
    \/ idx \in lo .. hi /\ lv[idx + 1].price = price
    \/ /\ idx < 0 /\ idx \in Int /\ InsertPos(idx) \in lo .. hi + 1
       /\ \A k \in 1 .. InsertPos(idx) : Ahead(side, lv[k].price, price)
       /\ \A k \in InsertPos(idx) + 1 .. Len(lv) : Ahead(side, price, lv[k].price)

\* What is right for a part of an interval is right for the interval.
LEMMA FoundInWider ==
    ASSUME NEW lv, NEW side, NEW price, NEW idx,
           NEW lo \in Int, NEW hi \in Int, NEW a \in Int, NEW b \in Int,
           lo <= a, b <= hi, FoundIn(lv, side, price, a, b, idx)
    PROVE  FoundIn(lv, side, price, lo, hi, idx)
<1>1. a .. b \subseteq lo .. hi /\ a .. b + 1 \subseteq lo .. hi + 1
  OBVIOUS
<1> QED
  BY <1>1 DEF FoundIn

\* Arrays of levels.
Levels == Seq(LevelType)

\* One side orders its prices strictly and totally.
LEMMA AheadOrder ==
    ASSUME NEW side \in Sides
    PROVE  /\ \A p, q, r \in Nat : Ahead(side, p, q) /\ Ahead(side, q, r) => Ahead(side, p, r)
           /\ \A p, q \in Nat : p = q \/ Ahead(side, p, q) \/ Ahead(side, q, p)
           /\ \A p, q \in Nat : Ahead(side, p, q) => p # q /\ ~Ahead(side, q, p)
  BY DEF Sides, Ahead

\* The places of an array hold levels.
LEMMA LevelFacts ==
    ASSUME NEW lv \in Levels
    PROVE  /\ Len(lv) \in Nat /\ DOMAIN lv = 1 .. Len(lv)
           /\ \A k \in 1 .. Len(lv) : lv[k] \in LevelType /\ lv[k].price \in Nat
<1>1. \A level \in LevelType : level.price \in Nat
  BY PricesAssumption DEF LevelType
<1>2. lv \in Seq(LevelType)
  BY DEF Levels
<1>3. Len(lv) \in Nat /\ DOMAIN lv = 1 .. Len(lv) /\ \A k \in 1 .. Len(lv) : lv[k] \in LevelType
  BY <1>2
<1> QED
  BY <1>1, <1>3

\* The search looks at place m, and may go on in the half behind or before it.
SplitsAt(lv, side, price, f, part, m) ==
    /\ <<m + 1, part[2]>> \in Parts(Len(lv)) /\ <<part[1], m - 1>> \in Parts(Len(lv))
    /\ \/ lv[m + 1].price = price /\ f[part] = m
       \/ Ahead(side, lv[m + 1].price, price) /\ f[part] = f[<<m + 1, part[2]>>]
       \/ /\ lv[m + 1].price # price /\ ~Ahead(side, lv[m + 1].price, price)
          /\ f[part] = f[<<part[1], m - 1>>]

\* A call on a part that is not empty answers or goes on in one half.
LEMMA SearchSplits ==
    ASSUME NEW lv, NEW side, NEW price \in Nat, Len(lv) \in Nat,
           NEW f, IsSearch(lv, side, price, f), NEW part \in Parts(Len(lv)), part[1] <= part[2]
    PROVE  \E m \in part[1] .. part[2] : SplitsAt(lv, side, price, f, part, m)
<1> DEFINE lo == part[1]
<1> DEFINE hi == part[2]
<1> DEFINE mid == (lo + hi) \div 2
<1>1. lo \in 0 .. Len(lv) /\ hi \in -1 .. Len(lv) - 1
  BY DEF Parts
<1>2. /\ mid \in lo .. hi
      /\ <<mid + 1, hi>> \in Parts(Len(lv)) /\ <<lo, mid - 1>> \in Parts(Len(lv))
  BY <1>1, Halves
<1>3. f[part] = SearchStep(lv, side, price, f, part)
  BY DEF IsSearch
<1>4. ~(lo > hi) /\ lo <= hi
  BY <1>1
<1>5. f[part] = CASE lv[mid + 1].price = price -> mid
                  [] lv[mid + 1].price # price /\ Ahead(side, lv[mid + 1].price, price) ->
                         f[<<mid + 1, hi>>]
                  [] OTHER -> f[<<lo, mid - 1>>]
  <2>0. SearchStep(lv, side, price, f, part) =
            CASE lo > hi -> -(lo + 1)
              [] lo <= hi /\ lv[mid + 1].price = price -> mid
              [] lo <= hi /\ Ahead(side, lv[mid + 1].price, price) -> f[<<mid + 1, hi>>]
              [] OTHER -> f[<<lo, mid - 1>>]
    BY DEF SearchStep
  <2> HIDE DEF mid, lo, hi
  <2>1. CASE lv[mid + 1].price = price
    BY <1>3, <1>4, <2>0, <2>1 DEF Ahead
  <2>2. CASE lv[mid + 1].price # price
    BY <1>3, <1>4, <2>0, <2>2
  <2> QED
    BY <2>1, <2>2
<1> HIDE DEF mid
<1> QED
  BY <1>2, <1>5 DEF SplitsAt

\* From a part with the price in it or its place in it, the search finds that.
LEMMA SearchFinds ==
    ASSUME NEW lv \in Levels, NEW side \in Sides, NEW price \in Prices, Sorted(side, lv),
           NEW f, IsSearch(lv, side, price, f), NEW part \in Parts(Len(lv)),
           part[1] <= part[2] + 1,
           \A k \in 1 .. part[1] : Ahead(side, lv[k].price, price),
           \A k \in part[2] + 2 .. Len(lv) : Ahead(side, price, lv[k].price)
    PROVE  FoundIn(lv, side, price, part[1], part[2], f[part])
<1> DEFINE L == Len(lv)
<1> DEFINE Around(p) ==
        /\ p[1] <= p[2] + 1
        /\ \A k \in 1 .. p[1] : Ahead(side, lv[k].price, price)
        /\ \A k \in p[2] + 2 .. L : Ahead(side, price, lv[k].price)
<1> DEFINE Found(p) == FoundIn(lv, side, price, p[1], p[2], f[p])
<1> DEFINE Size(p) == p[2] + 1 - p[1]
<1> DEFINE Wrong == {p \in Parts(L) : Around(p) /\ ~Found(p)}
<1> DEFINE Sizes == {Size(p) : p \in Wrong}
<1>0. L \in Nat /\ price \in Nat /\ \A k \in 1 .. L : lv[k].price \in Nat
  BY LevelFacts, PricesAssumption
<1>s. \A j, k \in 1 .. L : j < k => Ahead(side, lv[j].price, lv[k].price)
  BY LevelFacts DEF Sorted
<1>1. \A p \in Parts(L) : p[1] \in 0 .. L /\ p[2] \in -1 .. L - 1 /\ Size(p) \in Int
  BY <1>0 DEF Parts
<1> SUFFICES ASSUME Wrong # {} PROVE FALSE
  OBVIOUS
<1>2. PICK p \in Wrong : \A q \in Wrong : Size(p) <= Size(q)
  <2>1. \A q \in Wrong : Size(q) \in Nat
    BY <1>1
  <2>2. Sizes \in SUBSET Nat /\ Sizes # {}
    BY <2>1
  <2> HIDE DEF Sizes
  <2>3. \E x \in Sizes : \A y \in Sizes : x <= y
    BY <2>2, LeastElement
  <2> QED
    BY <2>3 DEF Sizes
<1> DEFINE lo == p[1]
<1> DEFINE hi == p[2]
<1>3. p \in Parts(L) /\ Around(p) /\ ~Found(p) /\ lo \in 0 .. L /\ hi \in -1 .. L - 1
  BY <1>1, <1>2
<1>4. \A q \in Parts(L) : Around(q) /\ Size(q) < Size(p) => Found(q)
  <2> SUFFICES ASSUME NEW q \in Parts(L), Around(q), Size(q) < Size(p), ~Found(q) PROVE FALSE
    OBVIOUS
  <2>1. q \in Wrong
    OBVIOUS
  <2> HIDE DEF Wrong, Size, Found, Around
  <2> QED
    BY <1>1, <1>2, <1>3, <2>1
<1> HIDE DEF Wrong, Sizes
<1>5. CASE lo > hi
  <2>0. f[p] = SearchStep(lv, side, price, f, p)
    BY <1>3 DEF IsSearch
  <2>1. f[p] = -(lo + 1) /\ lo = hi + 1
    BY <1>3, <1>5, <2>0, SMTT(30) DEF SearchStep
  <2>2. f[p] < 0 /\ f[p] \in Int /\ InsertPos(f[p]) = lo
    BY <1>3, <2>1 DEF InsertPos
  <2>3. Found(p)
    BY <1>3, <2>1, <2>2 DEF FoundIn
  <2> QED
    BY <1>3, <2>3
<1>6. CASE lo <= hi
  <2> DEFINE q1(m) == <<m + 1, hi>>
  <2> DEFINE q2(m) == <<lo, m - 1>>
  <2>0. PICK m \in lo .. hi : SplitsAt(lv, side, price, f, p, m)
    BY <1>0, <1>3, <1>6, SearchSplits
  <2>1. /\ q1(m) \in Parts(L) /\ q2(m) \in Parts(L)
        /\ \/ lv[m + 1].price = price /\ f[p] = m
           \/ Ahead(side, lv[m + 1].price, price) /\ f[p] = f[q1(m)]
           \/ /\ lv[m + 1].price # price /\ ~Ahead(side, lv[m + 1].price, price)
              /\ f[p] = f[q2(m)]
    BY <2>0 DEF SplitsAt
  <2>2. m + 1 \in 1 .. L /\ m \in Nat
    BY <1>3, <2>1
  <2>3. CASE lv[m + 1].price = price /\ f[p] = m
    BY <1>3, <2>1, <2>3 DEF FoundIn
  <2>4. CASE Ahead(side, lv[m + 1].price, price) /\ f[p] = f[q1(m)]
    <3>1. \A k \in 1 .. m + 1 : Ahead(side, lv[k].price, price)
      <4> SUFFICES ASSUME NEW k \in 1 .. m, k # m + 1 PROVE Ahead(side, lv[k].price, price)
        BY <2>4, <2>2
      <4>1. k \in 1 .. L /\ Ahead(side, lv[k].price, lv[m + 1].price)
        BY <1>s, <1>0, <2>2
      <4> QED
        BY <1>0, <2>2, <2>4, <4>1, AheadOrder
    <3>2. q1(m)[1] = m + 1 /\ q1(m)[2] = hi
      OBVIOUS
    <3>3. Around(q1(m)) /\ Size(q1(m)) < Size(p)
      BY <1>3, <2>1, <3>1, <3>2
    <3>4. Found(q1(m))
      BY <1>4, <2>1, <3>3
    <3>5. FoundIn(lv, side, price, m + 1, hi, f[p])
      BY <2>4, <3>2, <3>4
    <3>6. m + 1 \in Int /\ lo <= m + 1 /\ {lo, hi} \subseteq Int
      BY <1>3, <2>2
    <3>7. FoundIn(lv, side, price, lo, hi, f[p])
      BY <3>5, <3>6, FoundInWider
    <3> QED
      BY <1>3, <3>7
  <2>5. CASE /\ lv[m + 1].price # price /\ ~Ahead(side, lv[m + 1].price, price)
             /\ f[p] = f[q2(m)]
    <3>1. \A k \in m + 1 .. L : Ahead(side, price, lv[k].price)
      <4>1. Ahead(side, price, lv[m + 1].price)
        BY <1>0, <2>2, <2>5, AheadOrder
      <4> SUFFICES ASSUME NEW k \in m + 1 .. L, k # m + 1 PROVE Ahead(side, price, lv[k].price)
        BY <4>1
      <4>2. k \in 1 .. L /\ Ahead(side, lv[m + 1].price, lv[k].price)
        BY <1>s, <1>0, <2>2
      <4> QED
        BY <1>0, <2>2, <4>1, <4>2, AheadOrder
    <3>2. q2(m)[1] = lo /\ q2(m)[2] = m - 1
      OBVIOUS
    <3>3. Around(q2(m)) /\ Size(q2(m)) < Size(p)
      BY <1>3, <2>1, <3>1, <3>2, SMTT(30)
    <3>4. Found(q2(m))
      BY <1>4, <2>1, <3>3
    <3>5. FoundIn(lv, side, price, lo, m - 1, f[p])
      BY <2>5, <3>2, <3>4
    <3>6. m - 1 \in Int /\ m - 1 <= hi /\ {lo, hi} \subseteq Int
      BY <1>3, <2>2
    <3>7. FoundIn(lv, side, price, lo, hi, f[p])
      BY <3>5, <3>6, FoundInWider
    <3> QED
      BY <1>3, <3>7
  <2> QED
    BY <2>1, <2>3, <2>4, <2>5
<1> QED
  BY <1>3, <1>5, <1>6

\* binary_find is right on every sorted array: the price, or the place it belongs to.
LEMMA Finds ==
    ASSUME NEW lv \in Levels, NEW side \in Sides, NEW price \in Prices, Sorted(side, lv)
    PROVE  FoundIn(lv, side, price, 0, Len(lv) - 1, BinaryFind(lv, side, price))
<1> DEFINE f == CHOOSE f : IsSearch(lv, side, price, f)
<1> DEFINE part == <<0, Len(lv) - 1>>
<1>1. Len(lv) \in Nat
  BY DEF Levels
<1>2. IsSearch(lv, side, price, f)
  BY <1>1, SearchExists
<1>3. BinaryFind(lv, side, price) = f[part]
  BY BinaryFindIsSearch
<1>4. part \in Parts(Len(lv)) /\ part[1] = 0 /\ part[2] = Len(lv) - 1
  BY <1>1 DEF Parts
<1> HIDE DEF f, part
<1>5. part[1] <= part[2] + 1 /\ 1 .. part[1] = {} /\ part[2] + 2 .. Len(lv) = {}
  BY <1>1, <1>4
<1>6. FoundIn(lv, side, price, part[1], part[2], f[part])
  BY <1>2, <1>4, <1>5, SearchFinds
<1> QED
  BY <1>3, <1>4, <1>6

-----------------------------------------------------------------------------
(* The two shifts, on arrays of levels.                                    *)

\* A concatenation, place by place.
LEMMA ConcatFacts ==
    ASSUME NEW T, NEW s \in Seq(T), NEW t \in Seq(T)
    PROVE  /\ s \o t \in Seq(T) /\ Len(s \o t) = Len(s) + Len(t)
           /\ \A k \in 1 .. Len(s) + Len(t) :
                  (s \o t)[k] = IF k <= Len(s) THEN s[k] ELSE t[k - Len(s)]
  OBVIOUS

\* The shift of an insertion, place by place.
LEMMA InsertAtFacts ==
    ASSUME NEW T, NEW s \in Seq(T), NEW i \in 1 .. Len(s) + 1, NEW e \in T
    PROVE  /\ InsertAt(s, i, e) \in Seq(T)
           /\ Len(InsertAt(s, i, e)) = Len(s) + 1
           /\ \A k \in 1 .. Len(s) + 1 :
                  InsertAt(s, i, e)[k] = IF k < i THEN s[k] ELSE IF k = i THEN e ELSE s[k - 1]
<1> DEFINE front == SubSeq(s, 1, i - 1)
<1> DEFINE back == SubSeq(s, i, Len(s))
<1>1. /\ front \in Seq(T) /\ Len(front) = i - 1
      /\ \A k \in 1 .. i - 1 : front[k] = s[k]
  OBVIOUS
<1>2. /\ back \in Seq(T) /\ Len(back) = Len(s) + 1 - i
      /\ \A k \in 1 .. Len(s) + 1 - i : back[k] = s[i + k - 1]
  OBVIOUS
<1>3. InsertAt(s, i, e) = (front \o <<e>>) \o back
  BY DEF InsertAt
<1> HIDE DEF front, back
<1> DEFINE head == front \o <<e>>
<1>4. /\ head \in Seq(T) /\ Len(head) = i
      /\ \A k \in 1 .. i : head[k] = IF k < i THEN s[k] ELSE e
  BY <1>1
<1> HIDE DEF head
<1>5. /\ head \o back \in Seq(T) /\ Len(head \o back) = Len(s) + 1
      /\ \A k \in 1 .. Len(s) + 1 : (head \o back)[k] = IF k <= i THEN head[k] ELSE back[k - i]
  <2> DEFINE all == head \o back
  <2>1. /\ all \in Seq(T) /\ Len(all) = Len(head) + Len(back)
        /\ \A k \in 1 .. Len(head) + Len(back) :
               all[k] = IF k <= Len(head) THEN head[k] ELSE back[k - Len(head)]
    BY <1>2, <1>4, ConcatFacts, Zenon
  <2>2. Len(head) + Len(back) = Len(s) + 1 /\ Len(head) = i
    BY <1>2, <1>4
  <2> HIDE DEF all
  <2>3. /\ all \in Seq(T) /\ Len(all) = Len(s) + 1
        /\ \A k \in 1 .. Len(s) + 1 : all[k] = IF k <= i THEN head[k] ELSE back[k - i]
    BY <2>1, <2>2
  <2> QED
    BY <2>3 DEF all
<1>6. \A k \in 1 .. Len(s) + 1 : k > i => back[k - i] = s[k - 1]
  BY <1>2
<1>7. InsertAt(s, i, e) = head \o back
  BY <1>3 DEF head
<1> DEFINE all == head \o back
<1>8. all \in Seq(T) /\ Len(all) = Len(s) + 1
  BY <1>5
<1>9. ASSUME NEW k \in 1 .. Len(s) + 1
      PROVE  all[k] = IF k < i THEN s[k] ELSE IF k = i THEN e ELSE s[k - 1]
  <2>1. all[k] = IF k <= i THEN head[k] ELSE back[k - i]
    BY <1>5
  <2> HIDE DEF all
  <2>2. CASE k <= i
    BY <1>4, <2>1, <2>2
  <2>3. CASE k > i
    BY <1>6, <2>1, <2>3
  <2> QED
    BY <2>2, <2>3
<1>10. InsertAt(s, i, e) = all
  BY <1>7
<1> HIDE DEF all
<1> QED
  BY <1>8, <1>9, <1>10

\* The shift of a removal, place by place.
LEMMA RemoveAtFacts ==
    ASSUME NEW T, NEW s \in Seq(T), NEW i \in 1 .. Len(s)
    PROVE  /\ RemoveAt(s, i) \in Seq(T)
           /\ Len(RemoveAt(s, i)) = Len(s) - 1
           /\ \A k \in 1 .. Len(s) - 1 : RemoveAt(s, i)[k] = IF k < i THEN s[k] ELSE s[k + 1]
<1> DEFINE front == SubSeq(s, 1, i - 1)
<1> DEFINE back == SubSeq(s, i + 1, Len(s))
<1>1. /\ front \in Seq(T) /\ Len(front) = i - 1
      /\ \A k \in 1 .. i - 1 : front[k] = s[k]
  OBVIOUS
<1>2. /\ back \in Seq(T) /\ Len(back) = Len(s) - i
      /\ \A k \in 1 .. Len(s) - i : back[k] = s[i + k]
  OBVIOUS
<1>3. RemoveAt(s, i) = front \o back
  BY DEF RemoveAt
<1> HIDE DEF front, back
<1>4. /\ front \o back \in Seq(T) /\ Len(front \o back) = Len(s) - 1
      /\ \A k \in 1 .. Len(s) - 1 : (front \o back)[k] = IF k < i THEN front[k] ELSE back[k - i + 1]
  <2> DEFINE all == front \o back
  <2>1. /\ all \in Seq(T) /\ Len(all) = Len(front) + Len(back)
        /\ \A k \in 1 .. Len(front) + Len(back) :
               all[k] = IF k <= Len(front) THEN front[k] ELSE back[k - Len(front)]
    BY <1>1, <1>2, ConcatFacts, Zenon
  <2>2. Len(front) + Len(back) = Len(s) - 1 /\ Len(front) = i - 1
    BY <1>1, <1>2
  <2> HIDE DEF all
  <2>3. \A k \in 1 .. Len(s) - 1 : k - i + 1 = k - (i - 1) /\ (k < i <=> k <= i - 1)
    OBVIOUS
  <2>4. /\ all \in Seq(T) /\ Len(all) = Len(s) - 1
        /\ \A k \in 1 .. Len(s) - 1 : all[k] = IF k < i THEN front[k] ELSE back[k - i + 1]
    BY <2>1, <2>2, <2>3
  <2> QED
    BY <2>4 DEF all
<1>5. \A k \in 1 .. Len(s) - 1 : k >= i => back[k - i + 1] = s[k + 1]
  BY <1>2
<1>6. \A k \in 1 .. Len(s) - 1 : k < i => front[k] = s[k]
  BY <1>1
<1>7. \A k \in 1 .. Len(s) - 1 : (front \o back)[k] = IF k < i THEN s[k] ELSE s[k + 1]
  BY <1>4, <1>5, <1>6
<1> QED
  BY <1>3, <1>4, <1>7

\* Facts about the array as a sequence and as a set.
LEMMA SortedFacts ==
    ASSUME NEW lv \in Levels, NEW side \in Sides, Sorted(side, lv)
    PROVE  /\ Range(lv) = {lv[k] : k \in 1 .. Len(lv)}
           /\ \A j, k \in 1 .. Len(lv) : j < k => Ahead(side, lv[j].price, lv[k].price)
           /\ \A j, k \in 1 .. Len(lv) : lv[j].price = lv[k].price => j = k
           /\ Range(lv) \in SUBSET LevelType
           /\ \A x, y \in Range(lv) : x.price = y.price => x = y
<1>1. /\ Len(lv) \in Nat /\ DOMAIN lv = 1 .. Len(lv)
      /\ \A k \in 1 .. Len(lv) : lv[k] \in LevelType /\ lv[k].price \in Nat
  BY LevelFacts
<1>2. Range(lv) = {lv[k] : k \in 1 .. Len(lv)}
  BY <1>1 DEF Range
<1>3. \A j, k \in 1 .. Len(lv) : j < k => Ahead(side, lv[j].price, lv[k].price)
  BY <1>1 DEF Sorted
<1>4. \A j, k \in 1 .. Len(lv) : lv[j].price = lv[k].price => j = k
  <2> SUFFICES ASSUME NEW j \in 1 .. Len(lv), NEW k \in 1 .. Len(lv), lv[j].price = lv[k].price,
                      j < k
               PROVE  FALSE
    BY <1>1
  <2> QED
    BY <1>1, <1>3, AheadOrder
<1> QED
  BY <1>1, <1>2, <1>3, <1>4

\* The level add_to_levels makes for a new price.
NewLevel(price, shares) ==
    [price |-> price, total_shares |-> shares, order_count |-> 1, partials |-> 0]

\* An order that joins a level leaves a level of the same price.
LEMMA JoinedType ==
    ASSUME NEW level \in LevelType, NEW shares \in Nat
    PROVE  Joined(level, shares) \in LevelType /\ Joined(level, shares).price = level.price
<1>1. \A x \in Nat : x % Word \in 0 .. Word - 1
  BY SizesAssumption, ModInRing
<1>2. level.total_shares + shares \in Nat /\ level.order_count + 1 \in Nat
  BY SizesAssumption DEF LevelType
<1> QED
  BY <1>1, <1>2 DEF Joined, LevelType

\* A new level is a level of its price.
LEMMA NewLevelType ==
    ASSUME NEW price \in Prices, NEW shares \in Shares
    PROVE  NewLevel(price, shares) \in LevelType /\ NewLevel(price, shares).price = price
  BY SizesAssumption DEF NewLevel, LevelType, Shares

\* A level is replaced by another of the same price.
LEMMA Replaced ==
    ASSUME NEW lv \in Levels, NEW side \in Sides, Sorted(side, lv), NEW i \in 1 .. Len(lv),
           NEW level \in LevelType, level.price = lv[i].price
    PROVE  LET lv2 == [lv EXCEPT ![i] = level]
           IN  /\ lv2 \in Levels /\ Sorted(side, lv2) /\ Len(lv2) = Len(lv)
               /\ Range(lv2) = (Range(lv) \ {lv[i]}) \union {level}
<1> DEFINE lv2 == [lv EXCEPT ![i] = level]
<1>1. Len(lv) \in Nat /\ lv \in Seq(LevelType) /\ DOMAIN lv = 1 .. Len(lv)
  BY LevelFacts DEF Levels
<1>2. lv2 \in Seq(LevelType) /\ Len(lv2) = Len(lv)
  BY <1>1
<1>3. \A k \in 1 .. Len(lv) : lv2[k] = IF k = i THEN level ELSE lv[k]
  BY <1>1
<1>4. DOMAIN lv2 = 1 .. Len(lv)
  BY <1>1, <1>2
<1> HIDE DEF lv2
<1>5. \A k \in 1 .. Len(lv) : lv2[k].price = lv[k].price
  BY <1>3
<1>6. Sorted(side, lv2)
  BY <1>1, <1>4, <1>5 DEF Sorted
<1>7. Range(lv2) = {lv2[k] : k \in 1 .. Len(lv)}
  BY <1>4 DEF Range
<1>8. Range(lv2) = (Range(lv) \ {lv[i]}) \union {level}
  <2>1. \A k \in 1 .. Len(lv) : k # i => lv[k] # lv[i]
    BY SortedFacts
  <2> QED
    BY <1>3, <1>7, <2>1, SortedFacts
<1> QED
  BY <1>2, <1>6, <1>8 DEF Levels, lv2

\* A level of a new price is put between those ahead of it and the others.
LEMMA Inserted ==
    ASSUME NEW lv \in Levels, NEW side \in Sides, Sorted(side, lv), NEW i \in 1 .. Len(lv) + 1,
           NEW level \in LevelType,
           \A k \in 1 .. i - 1 : Ahead(side, lv[k].price, level.price),
           \A k \in i .. Len(lv) : Ahead(side, level.price, lv[k].price)
    PROVE  LET lv2 == InsertAt(lv, i, level)
           IN  /\ lv2 \in Levels /\ Sorted(side, lv2) /\ Len(lv2) = Len(lv) + 1
               /\ Range(lv2) = Range(lv) \union {level}
<1> DEFINE lv2 == InsertAt(lv, i, level)
<1> DEFINE L == Len(lv)
<1>1. L \in Nat /\ lv \in Seq(LevelType) /\ DOMAIN lv = 1 .. L
  BY LevelFacts DEF Levels
<1>2. /\ lv2 \in Seq(LevelType) /\ Len(lv2) = L + 1
      /\ \A k \in 1 .. L + 1 : lv2[k] = IF k < i THEN lv[k] ELSE IF k = i THEN level ELSE lv[k - 1]
  BY <1>1, InsertAtFacts, SMTT(30)
<1>3. DOMAIN lv2 = 1 .. L + 1
  BY <1>1, <1>2
<1>4. \A j, k \in 1 .. L : j < k => Ahead(side, lv[j].price, lv[k].price)
  BY SortedFacts
<1> HIDE DEF lv2, L
<1>5. ASSUME NEW j \in 1 .. L + 1, NEW k \in 1 .. L + 1, j < k
      PROVE  Ahead(side, lv2[j].price, lv2[k].price)
  <2>1. CASE k < i
    <3>1. lv2[j] = lv[j] /\ lv2[k] = lv[k] /\ j \in 1 .. L /\ k \in 1 .. L
      BY <1>1, <1>2, <1>5, <2>1 DEF L
    <3> QED
      BY <1>4, <1>5, <3>1
  <2>2. CASE k = i
    BY <1>1, <1>2, <1>5, <2>2 DEF L
  <2>3. CASE j = i
    <3>1. lv2[j] = level /\ lv2[k] = lv[k - 1] /\ k - 1 \in i .. L
      BY <1>1, <1>2, <1>5, <2>3 DEF L
    <3> QED
      BY <3>1 DEF L
  <2>4. CASE j < i /\ k > i
    <3>1. lv2[j] = lv[j] /\ lv2[k] = lv[k - 1] /\ j \in 1 .. L /\ k - 1 \in 1 .. L /\ j < k - 1
      BY <1>1, <1>2, <1>5, <2>4 DEF L
    <3> QED
      BY <1>4, <3>1
  <2>5. CASE j > i
    <3>1. /\ lv2[j] = lv[j - 1] /\ lv2[k] = lv[k - 1]
          /\ j - 1 \in 1 .. L /\ k - 1 \in 1 .. L /\ j - 1 < k - 1
      BY <1>1, <1>2, <1>5, <2>5 DEF L
    <3> QED
      BY <1>4, <3>1
  <2> QED
    BY <1>1, <1>5, <2>1, <2>2, <2>3, <2>4, <2>5 DEF L
<1>6. Sorted(side, lv2)
  BY <1>3, <1>5 DEF Sorted
<1>7. Range(lv2) = {lv2[k] : k \in 1 .. L + 1} /\ Range(lv) = {lv[k] : k \in 1 .. L}
  BY <1>3, SortedFacts DEF Range, L
<1>8. \A k \in 1 .. L + 1 : lv2[k] \in Range(lv) \union {level}
  BY <1>1, <1>2, <1>7
<1>9. ASSUME NEW k \in 1 .. L PROVE lv[k] \in Range(lv2)
  <2>1. CASE k < i
    BY <1>1, <1>2, <1>7, <2>1
  <2>2. CASE k >= i
    <3>1. k + 1 \in 1 .. L + 1 /\ lv2[k + 1] = lv[k]
      BY <1>1, <1>2, <2>2, SMTT(30)
    <3> QED
      BY <1>7, <3>1
  <2> QED
    BY <1>1, <2>1, <2>2 DEF L
<1>10. level \in Range(lv2)
  BY <1>1, <1>2, <1>7 DEF L
<1> QED
  BY <1>2, <1>6, <1>7, <1>8, <1>9, <1>10, SMTT(30) DEF Levels, lv2, L

\* A level goes, and the others keep their order.
LEMMA Removed ==
    ASSUME NEW lv \in Levels, NEW side \in Sides, Sorted(side, lv), NEW i \in 1 .. Len(lv)
    PROVE  LET lv2 == RemoveAt(lv, i)
           IN  /\ lv2 \in Levels /\ Sorted(side, lv2) /\ Len(lv2) = Len(lv) - 1
               /\ Range(lv2) = Range(lv) \ {lv[i]}
<1> DEFINE lv2 == RemoveAt(lv, i)
<1> DEFINE L == Len(lv)
<1>1. L \in Nat /\ lv \in Seq(LevelType) /\ DOMAIN lv = 1 .. L
  BY LevelFacts DEF Levels
<1>2. /\ lv2 \in Seq(LevelType) /\ Len(lv2) = L - 1
      /\ \A k \in 1 .. L - 1 : lv2[k] = IF k < i THEN lv[k] ELSE lv[k + 1]
  BY <1>1, RemoveAtFacts
<1>3. DOMAIN lv2 = 1 .. L - 1
  BY <1>1, <1>2
<1>4. \A j, k \in 1 .. L : j < k => Ahead(side, lv[j].price, lv[k].price)
  BY SortedFacts
<1> HIDE DEF lv2, L
<1> DEFINE old(k) == IF k < i THEN k ELSE k + 1
<1>5. /\ \A k \in 1 .. L - 1 : lv2[k] = lv[old(k)] /\ old(k) \in 1 .. L /\ old(k) # i
      /\ \A j, k \in 1 .. L - 1 : j < k => old(j) < old(k)
  BY <1>1, <1>2 DEF L
<1>6. Sorted(side, lv2)
  <2> HIDE DEF old
  <2> QED
    BY <1>3, <1>4, <1>5 DEF Sorted
<1>7. Range(lv2) = {lv2[k] : k \in 1 .. L - 1} /\ Range(lv) = {lv[k] : k \in 1 .. L}
  BY <1>3, SortedFacts DEF Range, L
<1>8. \A k \in 1 .. L : k # i => lv[k] # lv[i]
  BY SortedFacts DEF L
<1>9. \A k \in 1 .. L - 1 : lv2[k] \in Range(lv) \ {lv[i]}
  <2> HIDE DEF old
  <2> QED
    BY <1>5, <1>7, <1>8
<1>10. ASSUME NEW k \in 1 .. L, k # i PROVE lv[k] \in Range(lv2)
  <2>1. CASE k < i
    <3>1. k \in 1 .. L - 1 /\ lv2[k] = lv[k]
      BY <1>1, <1>2, <2>1 DEF L
    <3> QED
      BY <1>7, <3>1
  <2>2. CASE k > i
    <3>1. k - 1 \in 1 .. L - 1 /\ lv2[k - 1] = lv[k]
      BY <1>1, <1>2, <2>2 DEF L
    <3> QED
      BY <1>7, <3>1
  <2> QED
    BY <1>1, <1>10, <2>1, <2>2 DEF L
<1>11. Range(lv2) = Range(lv) \ {lv[i]}
  BY <1>7, <1>9, <1>10
<1> QED
  BY <1>2, <1>6, <1>11 DEF Levels, lv2, L

-----------------------------------------------------------------------------
(* add_to_levels and remove_from_levels.                                   *)

\* A count taken modulo the word fits in it, also from below 0.
LEMMA IntModInWord ==
    ASSUME NEW Size \in Nat \ {0}, NEW a \in Int
    PROVE  a % Size \in 0 .. Size - 1
  BY Z3

\* The level remove_from_levels leaves when shares remain in it.
Reduced(level, shares, partial) ==
    [level EXCEPT !.total_shares = @ - shares, !.order_count = (@ - 1) % Word,
                  !.partials = (@ + partial) % Word]

\* Shares taken off a level leave a level of the same price.
LEMMA ReducedType ==
    ASSUME NEW level \in LevelType, NEW shares \in Nat, NEW partial \in Nat,
           ~UsesUp(level, shares)
    PROVE  /\ Reduced(level, shares, partial) \in LevelType
           /\ Reduced(level, shares, partial).price = level.price
<1>1. \A x \in Int : x % Word \in 0 .. Word - 1
  BY SizesAssumption, IntModInWord
<1>2. /\ level.total_shares - shares \in 0 .. Word - 1 /\ level.order_count - 1 \in Int
      /\ level.partials + partial \in Int
  BY SizesAssumption DEF LevelType, UsesUp
<1> QED
  BY <1>1, <1>2 DEF Reduced, LevelType

\* A well-formed array of one side.
Array(side, lv) == lv \in Levels /\ Sorted(side, lv) /\ Len(lv) <= MAX_LEVELS

\* What an Add makes of the levels: a level joined, a new one, or nothing when full.
LevelsAfterAdd(lv, price, shares, new) ==
    \/ \E level \in Range(lv) :
           /\ level.price = price
           /\ Range(new) = (Range(lv) \ {level}) \union {Joined(level, shares)}
           /\ Fits(lv, price)
    \/ /\ \A level \in Range(lv) : level.price # price
       /\ Range(new) = Range(lv) \union {NewLevel(price, shares)}
       /\ Fits(lv, price)
    \/ new = lv /\ ~Fits(lv, price)

\* add_to_levels keeps the array sorted, and changes just the level of the price.
LEMMA AddToLevelsFacts ==
    ASSUME NEW side \in Sides, NEW lv, Array(side, lv), NEW price \in Prices, NEW shares \in Shares
    PROVE  /\ Array(side, AddToLevels(lv, side, price, shares))
           /\ LevelsAfterAdd(lv, price, shares, AddToLevels(lv, side, price, shares))
<1> DEFINE idx == BinaryFind(lv, side, price)
<1> DEFINE level == NewLevel(price, shares)
<1> DEFINE new == AddToLevels(lv, side, price, shares)
<1>0. /\ lv \in Levels /\ Sorted(side, lv) /\ Len(lv) <= MAX_LEVELS
      /\ Len(lv) \in Nat /\ DOMAIN lv = 1 .. Len(lv) /\ price \in Nat
      /\ \A k \in 1 .. Len(lv) : lv[k] \in LevelType /\ lv[k].price \in Nat
      /\ MAX_LEVELS \in Nat
  BY LevelFacts, PricesAssumption, SizesAssumption DEF Array
<1>1. FoundIn(lv, side, price, 0, Len(lv) - 1, idx)
  BY <1>0, Finds
<1>2. new = CASE idx >= 0 -> [lv EXCEPT ![idx + 1] = Joined(@, shares)]
              [] idx < 0 /\ IsFull(lv) -> lv
              [] OTHER -> InsertAt(lv, InsertPos(idx) + 1, level)
  BY DEF AddToLevels, NewLevel
<1>3. Range(lv) = {lv[k] : k \in 1 .. Len(lv)}
  BY <1>0, SortedFacts
<1> HIDE DEF idx, level, new
<1>4. CASE idx \in 0 .. Len(lv) - 1 /\ lv[idx + 1].price = price
  <2> DEFINE i == idx + 1
  <2>1. i \in 1 .. Len(lv) /\ idx >= 0 /\ ~(idx < 0)
    BY <1>0, <1>4
  <2>2. new = [lv EXCEPT ![i] = Joined(lv[i], shares)]
    <3>1. new = [lv EXCEPT ![idx + 1] = Joined(@, shares)]
      BY <1>2, <2>1
    <3> QED
      BY <3>1
  <2> HIDE DEF i
  <2>3. Joined(lv[i], shares) \in LevelType /\ Joined(lv[i], shares).price = lv[i].price
    BY <1>0, <2>1, JoinedType DEF Shares
  <2>4. /\ new \in Levels /\ Sorted(side, new) /\ Len(new) = Len(lv)
        /\ Range(new) = (Range(lv) \ {lv[i]}) \union {Joined(lv[i], shares)}
    <3> DEFINE joined == Joined(lv[i], shares)
    <3>1. joined \in LevelType /\ joined.price = lv[i].price /\ new = [lv EXCEPT ![i] = joined]
      BY <2>2, <2>3
    <3> HIDE DEF joined
    <3>2. /\ new \in Levels /\ Sorted(side, new) /\ Len(new) = Len(lv)
          /\ Range(new) = (Range(lv) \ {lv[i]}) \union {joined}
      BY <1>0, <2>1, <3>1, Replaced
    <3> QED
      BY <3>2 DEF joined
  <2>5. lv[i] \in Range(lv) /\ lv[i].price = price /\ Fits(lv, price)
    BY <1>0, <1>3, <1>4, <2>1 DEF Fits, i
  <2>6. Array(side, new)
    BY <1>0, <2>4 DEF Array
  <2>7. LevelsAfterAdd(lv, price, shares, new)
    BY <2>4, <2>5 DEF LevelsAfterAdd
  <2> QED
    BY <2>6, <2>7 DEF new
<1>5. CASE /\ idx < 0 /\ idx \in Int /\ InsertPos(idx) \in 0 .. Len(lv)
           /\ \A k \in 1 .. InsertPos(idx) : Ahead(side, lv[k].price, price)
           /\ \A k \in InsertPos(idx) + 1 .. Len(lv) : Ahead(side, price, lv[k].price)
  <2> DEFINE i == InsertPos(idx) + 1
  <2>1. i \in 1 .. Len(lv) + 1 /\ i - 1 = InsertPos(idx)
    BY <1>0, <1>5
  <2>2. \A k \in 1 .. Len(lv) : lv[k].price # price
    <3> SUFFICES ASSUME NEW k \in 1 .. Len(lv) PROVE lv[k].price # price
      OBVIOUS
    <3>1. Ahead(side, lv[k].price, price) \/ Ahead(side, price, lv[k].price)
      BY <1>0, <1>5, <2>1
    <3> QED
      BY <1>0, <3>1, AheadOrder
  <2>3. Fits(lv, price) <=> ~IsFull(lv)
    BY <1>0, <2>2 DEF Fits
  <2>4. CASE IsFull(lv)
    <3>1. new = lv
      BY <1>2, <1>5, <2>4
    <3> QED
      BY <2>3, <2>4, <3>1 DEF LevelsAfterAdd, new
  <2>5. CASE ~IsFull(lv)
    <3>1. new = InsertAt(lv, i, level)
      BY <1>2, <1>5, <2>5
    <3>2. level \in LevelType /\ level.price = price
      BY NewLevelType DEF level
    <3>3. /\ \A k \in 1 .. i - 1 : Ahead(side, lv[k].price, level.price)
          /\ \A k \in i .. Len(lv) : Ahead(side, level.price, lv[k].price)
      BY <1>5, <2>1, <3>2
    <3> HIDE DEF i
    <3>4. /\ new \in Levels /\ Sorted(side, new) /\ Len(new) = Len(lv) + 1
          /\ Range(new) = Range(lv) \union {level}
      BY <1>0, <2>1, <3>1, <3>2, <3>3, Inserted
    <3>5. Len(new) <= MAX_LEVELS
      BY <1>0, <2>5, <3>4 DEF IsFull
    <3>6. \A x \in Range(lv) : x.price # price
      BY <1>3, <2>2
    <3> QED
      BY <2>3, <2>5, <3>4, <3>5, <3>6 DEF Array, LevelsAfterAdd, new, level
  <2> QED
    BY <2>4, <2>5
<1>6. Len(lv) - 1 + 1 = Len(lv)
  BY <1>0
<1> QED
  BY <1>1, <1>4, <1>5, <1>6 DEF FoundIn

\* What a removal makes of them.
LevelsAfterRemoval(lv, price, shares, partial, new) ==
    \/ new = lv /\ \A level \in Range(lv) : level.price # price
    \/ \E level \in Range(lv) :
           /\ level.price = price /\ UsesUp(level, shares)
           /\ Range(new) = Range(lv) \ {level}
    \/ \E level \in Range(lv) :
           /\ level.price = price /\ ~UsesUp(level, shares)
           /\ Range(new) = (Range(lv) \ {level}) \union {Reduced(level, shares, partial)}

\* remove_from_levels keeps the array sorted, and changes just the level of the price.
LEMMA RemoveFromLevelsFacts ==
    ASSUME NEW side \in Sides, NEW lv, Array(side, lv), NEW price \in Prices, NEW shares \in Nat,
           NEW partial \in Nat
    PROVE  /\ Array(side, RemoveFromLevels(lv, side, price, shares, partial))
           /\ LevelsAfterRemoval(lv, price, shares, partial,
                                 RemoveFromLevels(lv, side, price, shares, partial))
<1> DEFINE idx == BinaryFind(lv, side, price)
<1> DEFINE new == RemoveFromLevels(lv, side, price, shares, partial)
<1>0. /\ lv \in Levels /\ Sorted(side, lv) /\ Len(lv) <= MAX_LEVELS
      /\ Len(lv) \in Nat /\ DOMAIN lv = 1 .. Len(lv) /\ price \in Nat
      /\ \A k \in 1 .. Len(lv) : lv[k] \in LevelType /\ lv[k].price \in Nat
      /\ MAX_LEVELS \in Nat
  BY LevelFacts, PricesAssumption, SizesAssumption DEF Array
<1>1. FoundIn(lv, side, price, 0, Len(lv) - 1, idx)
  BY <1>0, Finds
<1>2. new = CASE idx < 0 -> lv
              [] idx >= 0 /\ UsesUp(lv[idx + 1], shares) -> RemoveAt(lv, idx + 1)
              [] OTHER -> [lv EXCEPT ![idx + 1].total_shares = @ - shares,
                                     ![idx + 1].order_count = (@ - 1) % Word,
                                     ![idx + 1].partials = (@ + partial) % Word]
  BY DEF RemoveFromLevels
<1>3. Range(lv) = {lv[k] : k \in 1 .. Len(lv)}
  BY <1>0, SortedFacts
<1> HIDE DEF idx, new
<1>4. CASE idx \in 0 .. Len(lv) - 1 /\ lv[idx + 1].price = price
  <2> DEFINE i == idx + 1
  <2>1. i \in 1 .. Len(lv) /\ idx >= 0 /\ ~(idx < 0)
    BY <1>0, <1>4
  <2>2. lv[i] \in Range(lv) /\ lv[i].price = price /\ lv[i] \in LevelType
    BY <1>0, <1>3, <1>4, <2>1
  <2>3. CASE UsesUp(lv[i], shares)
    <3>1. new = RemoveAt(lv, i)
      BY <1>2, <2>1, <2>3
    <3> HIDE DEF i
    <3>2. /\ new \in Levels /\ Sorted(side, new) /\ Len(new) = Len(lv) - 1
          /\ Range(new) = Range(lv) \ {lv[i]}
      BY <1>0, <2>1, <3>1, Removed
    <3>3. Len(new) <= MAX_LEVELS
      BY <1>0, <3>2
    <3> QED
      BY <2>2, <2>3, <3>2, <3>3 DEF Array, LevelsAfterRemoval, new
  <2>4. CASE ~UsesUp(lv[i], shares)
    <3>1. new = [lv EXCEPT ![i] = Reduced(lv[i], shares, partial)]
      <4>1. new = [lv EXCEPT ![idx + 1].total_shares = @ - shares,
                             ![idx + 1].order_count = (@ - 1) % Word,
                             ![idx + 1].partials = (@ + partial) % Word]
        BY <1>2, <2>1, <2>4
      <4> QED
        BY <1>0, <2>1, <2>2, <4>1 DEF Reduced, LevelType
    <3> HIDE DEF i
    <3>2. /\ Reduced(lv[i], shares, partial) \in LevelType
          /\ Reduced(lv[i], shares, partial).price = lv[i].price
      BY <2>2, <2>4, ReducedType
    <3> DEFINE level == Reduced(lv[i], shares, partial)
    <3> HIDE DEF level
    <3>3. /\ new \in Levels /\ Sorted(side, new) /\ Len(new) = Len(lv)
          /\ Range(new) = (Range(lv) \ {lv[i]}) \union {level}
      <4>1. level \in LevelType /\ level.price = lv[i].price /\ new = [lv EXCEPT ![i] = level]
        BY <3>1, <3>2 DEF level
      <4> QED
        BY <1>0, <2>1, <4>1, Replaced
    <3> QED
      BY <1>0, <2>2, <2>4, <3>3 DEF Array, LevelsAfterRemoval, new, level
  <2> QED
    BY <2>3, <2>4
<1>5. CASE /\ idx < 0 /\ idx \in Int /\ InsertPos(idx) \in 0 .. Len(lv)
           /\ \A k \in 1 .. InsertPos(idx) : Ahead(side, lv[k].price, price)
           /\ \A k \in InsertPos(idx) + 1 .. Len(lv) : Ahead(side, price, lv[k].price)
  <2>1. \A k \in 1 .. Len(lv) : lv[k].price # price
    <3> SUFFICES ASSUME NEW k \in 1 .. Len(lv) PROVE lv[k].price # price
      OBVIOUS
    <3>1. Ahead(side, lv[k].price, price) \/ Ahead(side, price, lv[k].price)
      BY <1>0, <1>5
    <3> QED
      BY <1>0, <3>1, AheadOrder
  <2>2. new = lv
    BY <1>2, <1>5
  <2>3. \A x \in Range(lv) : x.price # price
    BY <1>3, <2>1
  <2> QED
    BY <2>2, <2>3 DEF LevelsAfterRemoval, new
<1>6. Len(lv) - 1 + 1 = Len(lv)
  BY <1>0
<1> QED
  BY <1>1, <1>4, <1>5, <1>6 DEF FoundIn

\* The first level stands before every other.
LEMMA TopFacts ==
    ASSUME NEW side \in Sides, NEW lv, Array(side, lv)
    PROVE  /\ Top(lv) = 0 <=> Range(lv) = {}
           /\ lv = <<>> <=> Range(lv) = {}
           /\ Range(lv) # {} =>
                  \E level \in Range(lv) :
                      /\ level.price = Top(lv)
                      /\ \A x \in Range(lv) : x = level \/ Ahead(side, level.price, x.price)
           /\ Top(lv) \in Prices \union {0}
<1>0. /\ lv \in Levels /\ Sorted(side, lv) /\ lv \in Seq(LevelType)
      /\ Len(lv) \in Nat /\ DOMAIN lv = 1 .. Len(lv)
      /\ \A k \in 1 .. Len(lv) : lv[k] \in LevelType
  BY LevelFacts DEF Array, Levels
<1>1. Range(lv) = {lv[k] : k \in 1 .. Len(lv)}
  BY <1>0, SortedFacts
<1>2. CASE lv = <<>>
  <2>1. Len(lv) = 0 /\ Range(lv) = {}
    BY <1>1, <1>2
  <2> QED
    BY <1>2, <2>1 DEF Top
<1>3. CASE lv # <<>>
  <2>1. 1 \in 1 .. Len(lv)
    BY <1>0, <1>3
  <2>2. lv[1] \in Range(lv) /\ Top(lv) = lv[1].price /\ Top(lv) \in Prices /\ Top(lv) # 0
    BY <1>0, <1>1, <1>3, <2>1, PricesAssumption DEF Top, LevelType
  <2>3. ASSUME NEW x \in Range(lv) PROVE x = lv[1] \/ Ahead(side, lv[1].price, x.price)
    <3>1. PICK k \in 1 .. Len(lv) : x = lv[k]
      BY <1>1
    <3>2. CASE k = 1
      BY <3>1, <3>2
    <3>3. CASE 1 < k
      BY <1>0, <2>1, <3>1, <3>3, SortedFacts
    <3> QED
      BY <1>0, <3>2, <3>3
  <2> QED
    BY <1>3, <2>2, <2>3
<1> QED
  BY <1>2, <1>3

-----------------------------------------------------------------------------
(* An array of levels and the depth of its side.                           *)

\* What the live orders of one side add up to at each price: how many they are, and
\* their shares.
Depth(n, s) == /\ n \in [Prices -> Nat] /\ s \in [Prices -> Nat]
               /\ \A p \in Prices : n[p] = 0 <=> s[p] = 0

\* An array against that depth.
LevelsOk(side, n, s, lv, complete) ==
    /\ Array(side, lv)
    /\ \A level \in Range(lv) : level.total_shares \in 1 .. s[level.price]
    /\ complete => /\ \A p \in Prices : n[p] > 0 => \E level \in Range(lv) : level.price = p
                   /\ \A level \in Range(lv) :
                          /\ level.total_shares = s[level.price]
                          /\ level.order_count = (n[level.price] - level.partials) % Word

\* A best price against the array and the depth.
BestOk(side, n, lv, best, complete) ==
    /\ best = 0 => lv = <<>>
    /\ best # 0 => best \in Prices /\ n[best] > 0
    /\ lv # <<>> => ~Ahead(side, Top(lv), best)
    /\ complete => best = Top(lv)

\* A recalculated best price is right.
LEMMA TopIsBest ==
    ASSUME NEW side \in Sides, NEW n, NEW s, Depth(n, s), NEW lv, NEW complete \in BOOLEAN,
           LevelsOk(side, n, s, lv, complete)
    PROVE  BestOk(side, n, lv, Top(lv), complete)
<1>0. Array(side, lv) /\ Range(lv) \in SUBSET LevelType
  BY SortedFacts DEF LevelsOk, Array
<1>1. CASE Range(lv) = {}
  BY <1>0, <1>1, TopFacts DEF BestOk
<1>2. CASE Range(lv) # {}
  <2>1. PICK level \in Range(lv) : level.price = Top(lv)
    BY <1>0, <1>2, TopFacts
  <2>2. level.price \in Prices /\ level.price \in Nat /\ level.price # 0
    BY <1>0, PricesAssumption DEF LevelType
  <2>3. n[level.price] \in Nat /\ s[level.price] \in Nat /\ s[level.price] # 0
    BY <2>2 DEF LevelsOk, Depth
  <2>4. n[level.price] > 0
    BY <2>2, <2>3 DEF Depth
  <2>5. ~Ahead(side, Top(lv), Top(lv))
    BY <2>1, <2>2, AheadOrder
  <2> QED
    BY <2>1, <2>2, <2>4, <2>5 DEF BestOk
<1> QED
  BY <1>1, <1>2

\* After add_to_levels the array is right for the depth with one more order.
LEMMA AddToDepth ==
    ASSUME NEW side \in Sides, NEW n, NEW s, Depth(n, s), NEW lv, NEW complete \in BOOLEAN,
           LevelsOk(side, n, s, lv, complete),
           NEW price \in Prices, NEW shares \in Shares,
           NEW n2, NEW s2, Depth(n2, s2),
           \A p \in Prices : n2[p] = IF p = price THEN n[p] + 1 ELSE n[p],
           \A p \in Prices : s2[p] = IF p = price THEN s[p] + shares ELSE s[p],
           s2[price] < Word
    PROVE  LevelsOk(side, n2, s2, AddToLevels(lv, side, price, shares),
                    complete /\ Fits(lv, price))
<1> DEFINE new == AddToLevels(lv, side, price, shares)
<1> DEFINE complete2 == complete /\ Fits(lv, price)
<1>0. /\ Array(side, new) /\ LevelsAfterAdd(lv, price, shares, new)
      /\ Range(lv) \in SUBSET LevelType /\ \A x, y \in Range(lv) : x.price = y.price => x = y
  BY AddToLevelsFacts, SortedFacts DEF LevelsOk, Array
<1>1. /\ \A p \in Prices : n[p] \in Nat /\ s[p] \in Nat /\ n2[p] \in Nat /\ s2[p] \in Nat
      /\ Word \in Nat \ {0} /\ shares \in Nat /\ shares >= 1
  BY SizesAssumption DEF Depth, Shares
<1>2. \A x \in Range(lv) : /\ x.price \in Prices /\ x.total_shares \in 1 .. s[x.price]
                           /\ x.order_count \in Nat /\ x.partials \in Nat
                           /\ x.total_shares \in 0 .. Word - 1
  BY <1>0, <1>1 DEF LevelsOk, LevelType
<1> HIDE DEF new
<1>3. ASSUME NEW level \in Range(lv), level.price = price, Fits(lv, price),
             Range(new) = (Range(lv) \ {level}) \union {Joined(level, shares)}
      PROVE  LevelsOk(side, n2, s2, new, complete2)
  <2> DEFINE joined == Joined(level, shares)
  <2>1. level.total_shares + shares \in 1 .. s2[price] /\ level.total_shares + shares < Word
    BY <1>1, <1>2, <1>3
  <2>2. (level.total_shares + shares) % Word = level.total_shares + shares
    BY <1>1, <2>1
  <2>3. /\ joined.price = price /\ joined.total_shares = level.total_shares + shares
        /\ joined.order_count = (level.order_count + 1) % Word
        /\ joined.partials = level.partials
    BY <1>0, <1>3, <2>2 DEF Joined, LevelType
  <2> HIDE DEF joined
  <2>4. \A x \in Range(new) : x = joined \/ (x \in Range(lv) /\ x.price # price)
    BY <1>0, <1>3 DEF joined
  <2>5. ASSUME NEW x \in Range(new) PROVE x.total_shares \in 1 .. s2[x.price]
    BY <1>1, <1>2, <2>1, <2>3, <2>4
  <2>6. ASSUME complete PROVE \A p \in Prices : n2[p] > 0 => \E x \in Range(new) : x.price = p
    <3> SUFFICES ASSUME NEW p \in Prices, n2[p] > 0 PROVE \E x \in Range(new) : x.price = p
      OBVIOUS
    <3>1. CASE p = price
      BY <1>3, <2>3, <3>1 DEF joined
    <3>2. CASE p # price
      <4>1. PICK x \in Range(lv) : x.price = p
        BY <2>6, <3>2 DEF LevelsOk
      <4> QED
        BY <1>3, <3>2, <4>1
    <3> QED
      BY <3>1, <3>2
  <2>7. ASSUME complete, NEW x \in Range(new)
        PROVE  /\ x.total_shares = s2[x.price]
               /\ x.order_count = (n2[x.price] - x.partials) % Word
    <3>1. CASE x = joined
      <4>1. /\ level.total_shares = s[price]
            /\ level.order_count = (n[price] - level.partials) % Word
        BY <1>3, <2>7 DEF LevelsOk
      <4>2. (((n[price] - level.partials) % Word) + 1) % Word = (n[price] - level.partials + 1) % Word
        <5>1. n[price] - level.partials \in Int
          BY <1>1, <1>2
        <5> QED
          BY <1>1, <5>1, IntModShift
      <4>3. n[price] - level.partials + 1 = n2[price] - level.partials
        BY <1>1, <1>2
      <4> QED
        BY <2>3, <3>1, <4>1, <4>2, <4>3
    <3>2. CASE x \in Range(lv) /\ x.price # price
      BY <1>2, <2>7, <3>2 DEF LevelsOk
    <3> QED
      BY <2>4, <3>1, <3>2
  <2> QED
    BY <1>0, <2>5, <2>6, <2>7 DEF LevelsOk
<1>4. ASSUME \A x \in Range(lv) : x.price # price, Fits(lv, price),
             Range(new) = Range(lv) \union {NewLevel(price, shares)}
      PROVE  LevelsOk(side, n2, s2, new, complete2)
  <2> DEFINE level == NewLevel(price, shares)
  <2>1. /\ level.price = price /\ level.total_shares = shares /\ level.order_count = 1
        /\ level.partials = 0
    BY DEF NewLevel
  <2> HIDE DEF level
  <2>2. ASSUME NEW x \in Range(new) PROVE x.total_shares \in 1 .. s2[x.price]
    <3>1. CASE x = level
      BY <1>1, <2>1, <3>1
    <3>2. CASE x \in Range(lv)
      BY <1>1, <1>2, <1>4, <3>2
    <3> QED
      BY <1>4, <3>1, <3>2 DEF level
  <2>3. ASSUME complete PROVE \A p \in Prices : n2[p] > 0 => \E x \in Range(new) : x.price = p
    <3> SUFFICES ASSUME NEW p \in Prices, n2[p] > 0 PROVE \E x \in Range(new) : x.price = p
      OBVIOUS
    <3>1. CASE p = price
      BY <1>4, <2>1, <3>1 DEF level
    <3>2. CASE p # price
      <4>1. PICK x \in Range(lv) : x.price = p
        BY <2>3, <3>2 DEF LevelsOk
      <4> QED
        BY <1>4, <3>2, <4>1
    <3> QED
      BY <3>1, <3>2
  <2>4. ASSUME complete, NEW x \in Range(new)
        PROVE  /\ x.total_shares = s2[x.price]
               /\ x.order_count = (n2[x.price] - x.partials) % Word
    <3>1. CASE x = level
      <4>1. n[price] = 0
        BY <1>1, <1>4, <2>4 DEF LevelsOk
      <4>2. s[price] = 0
        BY <4>1 DEF Depth
      <4>3. n2[price] - level.partials = 1 /\ s2[price] = shares
        BY <1>1, <2>1, <4>1, <4>2
      <4>4. 1 % Word = 1
        BY <1>1, SizesAssumption
      <4> QED
        BY <2>1, <3>1, <4>3, <4>4
    <3>2. CASE x \in Range(lv)
      BY <1>2, <1>4, <2>4, <3>2 DEF LevelsOk
    <3> QED
      BY <1>4, <3>1, <3>2 DEF level
  <2> QED
    BY <1>0, <2>2, <2>3, <2>4 DEF LevelsOk
<1>5. ASSUME new = lv, ~Fits(lv, price)
      PROVE  LevelsOk(side, n2, s2, new, complete2)
  <2>1. ASSUME NEW x \in Range(lv) PROVE x.total_shares \in 1 .. s2[x.price]
    BY <1>1, <1>2
  <2> QED
    BY <1>0, <1>5, <2>1 DEF LevelsOk
<1> QED
  BY <1>0, <1>3, <1>4, <1>5 DEF LevelsAfterAdd, new

\* After remove_from_levels it is right for the depth without the shares.
LEMMA RemoveFromDepth ==
    ASSUME NEW side \in Sides, NEW n, NEW s, Depth(n, s), NEW lv, NEW complete \in BOOLEAN,
           LevelsOk(side, n, s, lv, complete),
           NEW price \in Prices, NEW shares \in Nat \ {0}, NEW partial \in {0, 1},
           NEW n2, NEW s2, Depth(n2, s2),
           \A p \in Prices : n2[p] = IF p = price THEN n[p] - (1 - partial) ELSE n[p],
           \A p \in Prices : s2[p] = IF p = price THEN s[p] - shares ELSE s[p],
           partial = 1 => s2[price] > 0
    PROVE  /\ LevelsOk(side, n2, s2, RemoveFromLevels(lv, side, price, shares, partial), complete)
           /\ \A x \in Range(RemoveFromLevels(lv, side, price, shares, partial)) :
                  \E y \in Range(lv) : y.price = x.price
<1> DEFINE new == RemoveFromLevels(lv, side, price, shares, partial)
<1>0. /\ Array(side, new) /\ LevelsAfterRemoval(lv, price, shares, partial, new)
      /\ Range(lv) \in SUBSET LevelType /\ \A x, y \in Range(lv) : x.price = y.price => x = y
  BY RemoveFromLevelsFacts, SortedFacts DEF LevelsOk, Array
<1>1. /\ \A p \in Prices : n[p] \in Nat /\ s[p] \in Nat /\ n2[p] \in Nat /\ s2[p] \in Nat
      /\ Word \in Nat \ {0}
  BY SizesAssumption DEF Depth
<1>2. \A x \in Range(lv) : /\ x.price \in Prices /\ x.total_shares \in 1 .. s[x.price]
                           /\ x.order_count \in Nat /\ x.partials \in Nat
                           /\ x.total_shares \in 0 .. Word - 1
  BY <1>0, <1>1 DEF LevelsOk, LevelType
<1> HIDE DEF new
<1>3. ASSUME new = lv, \A x \in Range(lv) : x.price # price
      PROVE  LevelsOk(side, n2, s2, new, complete)
  <2>1. ASSUME complete PROVE n[price] = 0 /\ s[price] = 0
    <3>1. n[price] = 0
      BY <1>1, <1>3, <2>1 DEF LevelsOk
    <3> QED
      BY <3>1 DEF Depth
  <2>2. ASSUME NEW x \in Range(lv) PROVE s2[x.price] = s[x.price] /\ n2[x.price] = n[x.price]
    BY <1>2, <1>3
  <2>3. ASSUME complete, NEW p \in Prices, n2[p] > 0 PROVE \E x \in Range(new) : x.price = p
    <3>1. p # price /\ n[p] > 0
      BY <1>1, <2>1, <2>3
    <3> QED
      BY <1>3, <2>3, <3>1 DEF LevelsOk
  <2>4. ASSUME complete, NEW x \in Range(new)
        PROVE  /\ x.total_shares = s2[x.price]
               /\ x.order_count = (n2[x.price] - x.partials) % Word
    BY <1>3, <2>2, <2>4 DEF LevelsOk
  <2> QED
    BY <1>0, <1>2, <1>3, <2>2, <2>3, <2>4 DEF LevelsOk
<1>4. ASSUME NEW level \in Range(lv), level.price = price, UsesUp(level, shares),
             Range(new) = Range(lv) \ {level}
      PROVE  LevelsOk(side, n2, s2, new, complete)
  <2>1. \A x \in Range(new) : x \in Range(lv) /\ x.price # price /\ x.price \in Prices
    BY <1>0, <1>2, <1>4
  <2>2. ASSUME complete PROVE n2[price] = 0
    <3>1. level.total_shares = s[price]
      BY <1>4, <2>2 DEF LevelsOk
    <3>2. s2[price] = 0
      BY <1>1, <1>4, <3>1 DEF UsesUp
    <3> QED
      BY <3>2 DEF Depth
  <2>3. ASSUME complete, NEW p \in Prices, n2[p] > 0 PROVE \E x \in Range(new) : x.price = p
    <3>1. p # price /\ n[p] > 0
      BY <1>1, <2>2, <2>3
    <3>2. PICK x \in Range(lv) : x.price = p
      BY <2>3, <3>1 DEF LevelsOk
    <3> QED
      BY <1>4, <3>1, <3>2
  <2>4. ASSUME NEW x \in Range(new) PROVE s2[x.price] = s[x.price] /\ n2[x.price] = n[x.price]
    BY <2>1
  <2>5. ASSUME complete, NEW x \in Range(new)
        PROVE  /\ x.total_shares = s2[x.price]
               /\ x.order_count = (n2[x.price] - x.partials) % Word
    BY <2>1, <2>4, <2>5 DEF LevelsOk
  <2> QED
    BY <1>0, <1>2, <2>1, <2>3, <2>4, <2>5 DEF LevelsOk
<1>5. ASSUME NEW level \in Range(lv), level.price = price, ~UsesUp(level, shares),
             Range(new) = (Range(lv) \ {level}) \union {Reduced(level, shares, partial)}
      PROVE  LevelsOk(side, n2, s2, new, complete)
  <2> DEFINE reduced == Reduced(level, shares, partial)
  <2>1. /\ reduced.price = price /\ reduced.total_shares = level.total_shares - shares
        /\ reduced.order_count = (level.order_count - 1) % Word
        /\ reduced.partials = (level.partials + partial) % Word
    BY <1>0, <1>5 DEF Reduced, LevelType
  <2> HIDE DEF reduced
  <2>2. level.total_shares - shares \in 1 .. s2[price]
    BY <1>1, <1>2, <1>5 DEF UsesUp
  <2>3. \A x \in Range(new) : x = reduced \/ (x \in Range(lv) /\ x.price # price)
    BY <1>0, <1>5 DEF reduced
  <2>4. ASSUME NEW x \in Range(new) PROVE x.total_shares \in 1 .. s2[x.price]
    BY <1>1, <1>2, <2>1, <2>2, <2>3
  <2>5. ASSUME complete, NEW p \in Prices, n2[p] > 0 PROVE \E x \in Range(new) : x.price = p
    <3>1. CASE p = price
      BY <1>5, <2>1, <3>1 DEF reduced
    <3>2. CASE p # price
      <4>1. n[p] > 0
        BY <1>1, <2>5, <3>2
      <4>2. PICK x \in Range(lv) : x.price = p
        BY <2>5, <4>1 DEF LevelsOk
      <4> QED
        BY <1>5, <3>2, <4>2
    <3> QED
      BY <3>1, <3>2
  <2>6. ASSUME complete, NEW x \in Range(new)
        PROVE  /\ x.total_shares = s2[x.price]
               /\ x.order_count = (n2[x.price] - x.partials) % Word
    <3>1. CASE x = reduced
      <4> DEFINE a == n[price] - level.partials
      <4>1. level.total_shares = s[price] /\ level.order_count = a % Word
        BY <1>5, <2>6 DEF LevelsOk
      <4>2. a \in Int /\ Word \in Nat \ {0} /\ n[price] \in Nat /\ level.partials \in Nat
        BY <1>1, <1>2
      <4> HIDE DEF a
      <4>3. ((a % Word) + (-1)) % Word = (a + (-1)) % Word
        <5>1. \A k \in Int : ((a % Word) + k) % Word = (a + k) % Word
          BY <4>2, IntModShift
        <5>2. -1 \in Int
          OBVIOUS
        <5> QED
          BY <5>1, <5>2
      <4>4. a % Word \in Int
        BY <4>2, IntModInWord
      <4>5. (a % Word) + (-1) = (a % Word) - 1 /\ a + (-1) = a - 1
        BY <4>2, <4>4
      <4>6. reduced.order_count = (a - 1) % Word
        BY <2>1, <4>1, <4>3, <4>5
      <4> DEFINE c == level.partials + partial
      <4>7. c \in Nat /\ n2[price] \in Int /\ n2[price] - c = a - 1
        BY <1>1, <4>2 DEF a
      <4> HIDE DEF c
      <4>8. (n2[price] - (c % Word)) % Word = (n2[price] - c) % Word
        BY <4>2, <4>7, IntModMinus
      <4>9. reduced.partials = c % Word /\ s2[price] = s[price] - shares
        BY <2>1 DEF c
      <4>10. reduced.order_count = (n2[price] - reduced.partials) % Word
        BY <4>6, <4>7, <4>8, <4>9
      <4> QED
        BY <2>1, <3>1, <4>1, <4>9, <4>10
    <3>2. CASE x \in Range(lv) /\ x.price # price
      BY <1>2, <2>6, <3>2 DEF LevelsOk
    <3> QED
      BY <2>3, <3>1, <3>2
  <2> QED
    BY <1>0, <2>4, <2>5, <2>6 DEF LevelsOk
<1>6. \A x \in Range(new) : \E y \in Range(lv) : y.price = x.price
  <2>1. ASSUME NEW level \in Range(lv), ~UsesUp(level, shares)
        PROVE  Reduced(level, shares, partial).price = level.price
    BY <1>0 DEF Reduced, LevelType
  <2> QED
    BY <1>0, <2>1 DEF LevelsAfterRemoval
<1> QED
  BY <1>0, <1>3, <1>4, <1>5, <1>6 DEF LevelsAfterRemoval, new

\* A best price of a live order that no level is ahead of is right.
LEMMA BestIsOk ==
    ASSUME NEW side \in Sides, NEW n, NEW s, Depth(n, s), NEW lv, NEW complete \in BOOLEAN,
           LevelsOk(side, n, s, lv, complete),
           NEW best \in Prices, n[best] > 0,
           \A x \in Range(lv) : ~Ahead(side, x.price, best)
    PROVE  BestOk(side, n, lv, best, complete)
<1>0. /\ Array(side, lv) /\ Range(lv) \in SUBSET LevelType /\ best \in Nat \ {0}
      /\ \A x \in Range(lv) : x.price \in Nat
  BY SortedFacts, PricesAssumption DEF LevelsOk, Array, LevelType
<1>1. lv # <<>> => ~Ahead(side, Top(lv), best)
  BY <1>0, TopFacts
<1>2. ASSUME complete PROVE best = Top(lv)
  <2>1. PICK x \in Range(lv) : x.price = best
    BY <1>2 DEF LevelsOk
  <2>2. PICK level \in Range(lv) :
            /\ level.price = Top(lv)
            /\ \A y \in Range(lv) : y = level \/ Ahead(side, level.price, y.price)
    BY <1>0, <2>1, TopFacts
  <2> QED
    BY <2>1, <2>2
<1> QED
  BY <1>0, <1>1, <1>2 DEF BestOk

\* No level is ahead of a right best price.
LEMMA NoneAhead ==
    ASSUME NEW side \in Sides, NEW n, NEW s, NEW lv, NEW complete \in BOOLEAN, NEW best \in Nat,
           LevelsOk(side, n, s, lv, complete), BestOk(side, n, lv, best, complete)
    PROVE  \A x \in Range(lv) : ~Ahead(side, x.price, best) /\ best # 0
<1>0. /\ Array(side, lv) /\ Range(lv) \in SUBSET LevelType
      /\ \A x \in Range(lv) : x.price \in Nat
  BY SortedFacts, PricesAssumption DEF LevelsOk, Array, LevelType
<1> SUFFICES ASSUME NEW x \in Range(lv) PROVE ~Ahead(side, x.price, best) /\ best # 0
  OBVIOUS
<1>1. PICK level \in Range(lv) :
          /\ level.price = Top(lv)
          /\ \A y \in Range(lv) : y = level \/ Ahead(side, level.price, y.price)
  BY <1>0, TopFacts
<1>2. lv # <<>>
  BY <1>0, TopFacts
<1>3. ~Ahead(side, level.price, best) /\ best # 0
  BY <1>1, <1>2 DEF BestOk
<1> QED
  BY <1>0, <1>1, <1>3, AheadOrder

\* The best price an Add raises is right after it.
LEMMA BestAfterAddIsOk ==
    ASSUME NEW side \in Sides, NEW n, NEW s, NEW lv, NEW complete \in BOOLEAN,
           NEW best \in Prices \union {0},
           LevelsOk(side, n, s, lv, complete), BestOk(side, n, lv, best, complete),
           NEW price \in Prices, NEW n2, NEW s2, Depth(n, s), Depth(n2, s2),
           \A p \in Prices : n2[p] = IF p = price THEN n[p] + 1 ELSE n[p],
           NEW new, NEW complete2 \in BOOLEAN, LevelsOk(side, n2, s2, new, complete2),
           \A x \in Range(new) : x.price = price \/ \E y \in Range(lv) : y.price = x.price
    PROVE  /\ BestOk(side, n2, new, BestAfterAdd(best, side, price), complete2)
           /\ BestAfterAdd(best, side, price) \in Prices
<1> DEFINE best2 == BestAfterAdd(best, side, price)
<1>0. /\ best \in Nat /\ price \in Nat \ {0}
      /\ \A x \in Range(lv) : x.price \in Nat
  <2>1. Array(side, lv)
    BY DEF LevelsOk
  <2>2. Range(lv) \in SUBSET LevelType
    BY <2>1, SortedFacts DEF Array
  <2>3. best \in Nat /\ price \in Nat \ {0}
    BY PricesAssumption
  <2>4. \A x \in LevelType : x.price \in Nat
    BY PricesAssumption DEF LevelType
  <2> QED
    BY <2>2, <2>3, <2>4
<1>1. best2 \in Prices /\ n2[best2] > 0
  <2>1. \A p \in Prices : n[p] \in Nat
    BY DEF Depth
  <2>2. best # 0 => n[best] > 0
    BY DEF BestOk
  <2> QED
    BY <2>1, <2>2 DEF BestAfterAdd
<1>2. \A x \in Range(lv) : ~Ahead(side, x.price, best) /\ best # 0
  BY <1>0, NoneAhead
<1>3. ASSUME NEW x \in Range(new) PROVE ~Ahead(side, x.price, best2)
  <2>1. CASE x.price = price
    BY <1>0, <2>1, AheadOrder DEF BestAfterAdd
  <2>2. CASE \E y \in Range(lv) : y.price = x.price
    <3>1. ~Ahead(side, x.price, best) /\ best # 0 /\ x.price \in Nat
      BY <1>0, <1>2, <2>2
    <3> QED
      BY <1>0, <3>1, AheadOrder DEF BestAfterAdd
  <2> QED
    BY <2>1, <2>2
<1> HIDE DEF best2
<1>4. BestOk(side, n2, new, best2, complete2)
  BY <1>1, <1>3, BestIsOk
<1> QED
  BY <1>1, <1>4 DEF best2

\* The best price is right after a removal elsewhere.
LEMMA BestStays ==
    ASSUME NEW side \in Sides, NEW n, NEW s, NEW lv, NEW complete \in BOOLEAN,
           NEW best \in Prices \union {0},
           LevelsOk(side, n, s, lv, complete), BestOk(side, n, lv, best, complete),
           NEW n2, NEW s2, Depth(n2, s2), NEW new, LevelsOk(side, n2, s2, new, complete),
           \A x \in Range(new) : \E y \in Range(lv) : y.price = x.price,
           best # 0 => n2[best] > 0
    PROVE  BestOk(side, n2, new, best, complete)
<1>0. best \in Nat
  BY PricesAssumption
<1>1. \A x \in Range(lv) : ~Ahead(side, x.price, best) /\ best # 0
  BY <1>0, NoneAhead
<1>2. \A x \in Range(new) : ~Ahead(side, x.price, best) /\ best # 0
  BY <1>1
<1>3. CASE best # 0
  BY <1>2, <1>3, BestIsOk
<1>4. CASE best = 0
  <2>1. Range(new) = {} /\ Array(side, new)
    BY <1>2, <1>4 DEF LevelsOk
  <2> QED
    BY <1>4, <2>1, TopFacts DEF BestOk
<1> QED
  BY <1>3, <1>4

-----------------------------------------------------------------------------
(* Shares of a set of orders, added up.                                    *)

\* Shares of a set of live orders, as SharesAt adds them up.
SharesOf(live, S) == MapThenSumSet(LAMBDA r : live[r].remaining_shares, S)

\* Orders of a set and the shares left of them.
Counted(live, S) == IsFiniteSet(S) /\ \A r \in S : live[r].remaining_shares \in Nat

SharesLeft(live, S) == [r \in S |-> live[r].remaining_shares]

\* The function the community module's sum is taken with.
IsShareSum(live, S, g) ==
    g = [s \in SUBSET S |->
            IF s = {} THEN 0
            ELSE live[CHOOSE x \in s : TRUE].remaining_shares + g[s \ {CHOOSE x \in s : TRUE}]]

LEMMA SharesOfIsSum ==
    ASSUME NEW live, NEW S
    PROVE  SharesOf(live, S) = (CHOOSE g : IsShareSum(live, S, g))[S]
  BY DEF SharesOf, MapThenSumSet, MapThenFoldSet, IsShareSum

\* It is the sum of the shares that are left.
LEMMA SharesOfIsTotal ==
    ASSUME NEW live, NEW S, Counted(live, S)
    PROVE  SharesOf(live, S) = Total(SharesLeft(live, S), S)
<1> DEFINE w == SharesLeft(live, S)
<1>1. Weighed(w, S) /\ \A r \in S : w[r] = live[r].remaining_shares
  BY DEF Weighed, Counted, SharesLeft
<1> HIDE DEF w
<1>2. ASSUME NEW g
      PROVE  IsSum(w, S, g) <=> IsShareSum(live, S, g)
  <2> DEFINE a == [s \in SUBSET S |-> SumStep(w, g, s)]
  <2> DEFINE b == [s \in SUBSET S |->
            IF s = {} THEN 0
            ELSE live[CHOOSE x \in s : TRUE].remaining_shares + g[s \ {CHOOSE x \in s : TRUE}]]
  <2>1. ASSUME NEW s \in SUBSET S
        PROVE  a[s] = b[s]
    <3>1. CASE s = {}
      BY <3>1 DEF SumStep
    <3>2. CASE s # {}
      <4>1. (CHOOSE x \in s : TRUE) \in S
        BY <3>2
      <4> QED
        BY <1>1, <3>2, <4>1 DEF SumStep
    <3> QED
      BY <3>1, <3>2
  <2>2. a = b
    BY <2>1
  <2> QED
    BY <2>2 DEF IsSum, IsShareSum
<1>3. \E g : IsShareSum(live, S, g)
  <2>1. \E g : IsSum(w, S, g)
    BY <1>1, SumExists DEF Weighed
  <2> QED
    BY <1>2, <2>1
<1> DEFINE h == CHOOSE g : IsShareSum(live, S, g)
<1>4. IsSum(w, S, h)
  <2>1. IsShareSum(live, S, h)
    BY <1>3
  <2> HIDE DEF h
  <2> QED
    BY <1>2, <2>1
<1>5. SharesOf(live, S) = h[S]
  BY SharesOfIsSum
<1> HIDE DEF h
<1> QED
  BY <1>1, <1>4, <1>5, TotalIs DEF w

\* What is needed of the sum.
LEMMA SharesOfFacts ==
    ASSUME NEW live, NEW S, Counted(live, S)
    PROVE  /\ SharesOf(live, S) \in Nat
           /\ S = {} => SharesOf(live, S) = 0
           /\ \A x \in S : SharesOf(live, S) = live[x].remaining_shares + SharesOf(live, S \ {x})
<1> DEFINE w == SharesLeft(live, S)
<1>1. Weighed(w, S) /\ \A r \in S : w[r] = live[r].remaining_shares
  BY DEF Weighed, Counted, SharesLeft
<1>2. SharesOf(live, S) = Total(w, S)
  BY SharesOfIsTotal
<1>3. ASSUME NEW x \in S PROVE SharesOf(live, S \ {x}) = Total(w, S \ {x})
  <2> DEFINE T == S \ {x}
  <2> DEFINE v == SharesLeft(live, T)
  <2>1. Counted(live, T)
    BY FS_RemoveElement DEF Counted
  <2>2. Weighed(v, T) /\ \A r \in T : v[r] = live[r].remaining_shares
    BY <2>1 DEF Weighed, Counted, SharesLeft
  <2>3. SharesOf(live, T) = Total(v, T)
    BY <2>1, SharesOfIsTotal
  <2>4. \A r \in T : w[r] = v[r]
    <3> HIDE DEF v, w
    <3> QED
      BY <1>1, <2>2
  <2> HIDE DEF T, v, w
  <2>5. Total(w, T) = Total(v, T)
    BY <2>2, <2>4, TotalSame
  <2> QED
    BY <2>3, <2>5 DEF T
<1> HIDE DEF w
<1> QED
  BY <1>1, <1>2, <1>3, TotalFacts

\* Orders that stay as they are keep their sum.
LEMMA SharesOfSame ==
    ASSUME NEW live, NEW live2, NEW S, Counted(live, S),
           \A r \in S : live2[r].remaining_shares = live[r].remaining_shares
    PROVE  SharesOf(live2, S) = SharesOf(live, S)
<1>1. Counted(live2, S)
  BY DEF Counted
<1>2. SharesLeft(live2, S) = SharesLeft(live, S)
  BY DEF SharesLeft
<1> QED
  BY <1>1, <1>2, SharesOfIsTotal

-----------------------------------------------------------------------------
(* Live orders and the depth they make.                                    *)

\* The live orders of a side at a price, how many they are, and what is left of them.
At(live, side, p) ==
    {r \in Refs : live[r] # None /\ live[r].side = side /\ live[r].price = p}

\* How many orders there are at each price of a side.
Orders(live, side) == [p \in Prices |-> Cardinality(At(live, side, p))]

\* And how many shares are left of them.
Volume(live, side) == [p \in Prices |-> SharesOf(live, At(live, side, p))]

\* A book keeps finitely many live orders.
LiveMap(live) ==
    /\ live \in [Refs -> LiveOrder \union {None}]
    /\ IsFiniteSet({r \in Refs : live[r] # None})

\* The orders at a price are finitely many, and each has shares left.
LEMMA AtIsCounted ==
    ASSUME NEW live, LiveMap(live), NEW side, NEW p
    PROVE  /\ Counted(live, At(live, side, p))
           /\ \A r \in At(live, side, p) : live[r] \in LiveOrder
           /\ \A r \in At(live, side, p) : live[r].remaining_shares \in Nat \ {0}
<1>1. At(live, side, p) \in SUBSET {r \in Refs : live[r] # None}
  BY DEF At
<1>2. IsFiniteSet(At(live, side, p))
  BY <1>1, FS_Subset DEF LiveMap
<1>3. \A r \in At(live, side, p) : live[r] \in LiveOrder
  BY DEF At, LiveMap
<1>4. \A o \in LiveOrder : o.remaining_shares \in Nat \ {0}
  BY SizesAssumption DEF LiveOrder, Shares
<1> QED
  BY <1>2, <1>3, <1>4 DEF Counted

\* Their number and their shares are natural numbers that are 0 together.
LEMMA DepthOfLive ==
    ASSUME NEW live, LiveMap(live), NEW side
    PROVE  Depth(Orders(live, side), Volume(live, side))
<1> SUFFICES ASSUME NEW p \in Prices
             PROVE  /\ Cardinality(At(live, side, p)) \in Nat
                    /\ SharesOf(live, At(live, side, p)) \in Nat
                    /\ Cardinality(At(live, side, p)) = 0 <=> SharesOf(live, At(live, side, p)) = 0
  BY DEF Depth, Orders, Volume
<1> DEFINE S == At(live, side, p)
<1>1. /\ Counted(live, S) /\ IsFiniteSet(S)
      /\ \A r \in S : live[r].remaining_shares \in Nat \ {0}
  BY AtIsCounted DEF Counted
<1> HIDE DEF S
<1>2. Cardinality(S) \in Nat /\ (Cardinality(S) = 0 <=> S = {})
  BY <1>1, FS_CardinalityType, FS_EmptySet
<1>3. SharesOf(live, S) \in Nat /\ (S = {} => SharesOf(live, S) = 0)
  BY <1>1, SharesOfFacts
<1>4. ASSUME NEW x \in S PROVE SharesOf(live, S) # 0
  <2>1. SharesOf(live, S) = live[x].remaining_shares + SharesOf(live, S \ {x})
    BY <1>1, SharesOfFacts
  <2>2. Counted(live, S \ {x})
    BY <1>1, FS_RemoveElement DEF Counted
  <2>3. SharesOf(live, S \ {x}) \in Nat
    BY <2>2, SharesOfFacts
  <2> QED
    BY <1>1, <2>1, <2>3
<1> QED
  BY <1>2, <1>3, <1>4 DEF S

\* From live to live2 only the depth at the side and price of an order changes.
DepthChanges(live, live2, at, orders, shares) ==
    \A side \in Sides : \A p \in Prices :
        /\ Orders(live2, side)[p] =
               IF side = at.side /\ p = at.price THEN Orders(live, side)[p] + orders
               ELSE Orders(live, side)[p]
        /\ Volume(live2, side)[p] =
               IF side = at.side /\ p = at.price THEN Volume(live, side)[p] + shares
               ELSE Volume(live, side)[p]

\* A new live order counts at its side and price.
LEMMA OrderBrought ==
    ASSUME NEW live, LiveMap(live), NEW ref \in Refs, live[ref] = None, NEW o \in LiveOrder,
           NEW live2, live2 = [live EXCEPT ![ref] = o]
    PROVE  LiveMap(live2) /\ DepthChanges(live, live2, o, 1, o.remaining_shares)
<1> DEFINE new == [live EXCEPT ![ref] = o]
<1>0. /\ o # None /\ live \in [Refs -> LiveOrder \union {None}]
      /\ o.remaining_shares \in Nat
  BY NoneAssumption, SizesAssumption DEF LiveMap, LiveOrder, Shares
<1>1. \A r \in Refs : new[r] = IF r = ref THEN o ELSE live[r]
  BY <1>0
<1>t. new \in [Refs -> LiveOrder \union {None}]
  BY <1>0
<1> HIDE DEF new
<1>2. LiveMap(new)
  <2>2. {r \in Refs : new[r] # None} = {r \in Refs : live[r] # None} \union {ref}
    BY <1>0, <1>1
  <2>3. IsFiniteSet({r \in Refs : live[r] # None} \union {ref})
    BY FS_AddElement DEF LiveMap
  <2> QED
    BY <1>t, <2>2, <2>3 DEF LiveMap
<1>3. ASSUME NEW side \in Sides, NEW p \in Prices
      PROVE  /\ Cardinality(At(new, side, p)) =
                    IF side = o.side /\ p = o.price THEN Cardinality(At(live, side, p)) + 1
                    ELSE Cardinality(At(live, side, p))
             /\ SharesOf(new, At(new, side, p)) =
                    IF side = o.side /\ p = o.price
                    THEN SharesOf(live, At(live, side, p)) + o.remaining_shares
                    ELSE SharesOf(live, At(live, side, p))
  <2> DEFINE S == At(live, side, p)
  <2> DEFINE S2 == At(new, side, p)
  <2>1. Counted(live, S) /\ Counted(new, S2) /\ IsFiniteSet(S)
    BY <1>2, AtIsCounted DEF Counted
  <2>2. \A r \in S : new[r] = live[r] /\ r # ref
    BY <1>1 DEF At
  <2>3. S2 = IF side = o.side /\ p = o.price THEN S \union {ref} ELSE S
    <3>1. \A r \in Refs : r # ref => (r \in S2 <=> r \in S)
      BY <1>1 DEF At
    <3>2. S \in SUBSET Refs /\ S2 \in SUBSET Refs /\ ref \notin S
      BY DEF At
    <3>3. ref \in S2 <=> side = o.side /\ p = o.price
      BY <1>0, <1>1 DEF At
    <3> HIDE DEF S, S2
    <3> QED
      BY <3>1, <3>2, <3>3
  <2> HIDE DEF S, S2
  <2>4. SharesOf(new, S) = SharesOf(live, S)
    <3>1. \A r \in S : new[r].remaining_shares = live[r].remaining_shares
      BY <2>2
    <3> QED
      BY <2>1, <3>1, SharesOfSame
  <2>5. CASE side = o.side /\ p = o.price
    <3>1. S2 = S \union {ref} /\ ref \notin S /\ ref \in S2 /\ S2 \ {ref} = S
      BY <2>2, <2>3, <2>5
    <3>2. Cardinality(S2) = Cardinality(S) + 1
      BY <2>1, <3>1, FS_AddElement
    <3>3. SharesOf(new, S2) = new[ref].remaining_shares + SharesOf(new, S)
      BY <2>1, <3>1, SharesOfFacts
    <3>4. new[ref] = o /\ SharesOf(live, S) \in Nat
      BY <1>1, <2>1, SharesOfFacts
    <3>5. SharesOf(new, S2) = SharesOf(live, S) + o.remaining_shares
      BY <1>0, <2>4, <3>3, <3>4
    <3> QED
      BY <2>5, <3>2, <3>5 DEF S, S2
  <2>6. CASE ~(side = o.side /\ p = o.price)
    BY <2>3, <2>4, <2>6 DEF S, S2
  <2> QED
    BY <2>5, <2>6
<1> QED
  BY <1>2, <1>3 DEF Orders, Volume, DepthChanges, new

\* The two, as numbers.
LEMMA DepthInNat ==
    ASSUME NEW live, LiveMap(live), NEW side \in Sides, NEW p \in Prices
    PROVE  Orders(live, side)[p] \in Nat /\ Volume(live, side)[p] \in Nat
  BY DepthOfLive DEF Depth

\* Changes can be taken back, and add up.
LEMMA DepthChangesBack ==
    ASSUME NEW live, LiveMap(live), NEW live2, NEW o, NEW k \in Int, NEW m \in Int,
           DepthChanges(live, live2, o, k, m)
    PROVE  DepthChanges(live2, live, o, -k, -m)
<1> SUFFICES ASSUME NEW side \in Sides, NEW p \in Prices
             PROVE  /\ Orders(live, side)[p] =
                           IF side = o.side /\ p = o.price THEN Orders(live2, side)[p] + (-k)
                           ELSE Orders(live2, side)[p]
                    /\ Volume(live, side)[p] =
                           IF side = o.side /\ p = o.price THEN Volume(live2, side)[p] + (-m)
                           ELSE Volume(live2, side)[p]
  BY DEF DepthChanges
<1> DEFINE n == Orders(live, side)[p]
<1> DEFINE s == Volume(live, side)[p]
<1>1. n \in Nat /\ s \in Nat
  BY DepthInNat
<1>2. /\ Orders(live2, side)[p] = IF side = o.side /\ p = o.price THEN n + k ELSE n
      /\ Volume(live2, side)[p] = IF side = o.side /\ p = o.price THEN s + m ELSE s
  BY DEF DepthChanges
<1> HIDE DEF n, s
<1> QED
  BY <1>1, <1>2 DEF n, s

\* Two changes at the same price add up.
LEMMA DepthChangesAdd ==
    ASSUME NEW live, LiveMap(live), NEW live1, NEW live2, NEW o, NEW o2,
           o2.side = o.side, o2.price = o.price,
           NEW k \in Int, NEW m \in Int, NEW k2 \in Int, NEW m2 \in Int,
           DepthChanges(live, live1, o, k, m), DepthChanges(live1, live2, o2, k2, m2)
    PROVE  DepthChanges(live, live2, o, k + k2, m + m2)
<1> SUFFICES ASSUME NEW side \in Sides, NEW p \in Prices
             PROVE  /\ Orders(live2, side)[p] =
                           IF side = o.side /\ p = o.price THEN Orders(live, side)[p] + (k + k2)
                           ELSE Orders(live, side)[p]
                    /\ Volume(live2, side)[p] =
                           IF side = o.side /\ p = o.price THEN Volume(live, side)[p] + (m + m2)
                           ELSE Volume(live, side)[p]
  BY DEF DepthChanges
<1> DEFINE n == Orders(live, side)[p]
<1> DEFINE s == Volume(live, side)[p]
<1> DEFINE n1 == Orders(live1, side)[p]
<1> DEFINE s1 == Volume(live1, side)[p]
<1>1. n \in Nat /\ s \in Nat
  BY DepthInNat
<1>2. /\ n1 = IF side = o.side /\ p = o.price THEN n + k ELSE n
      /\ s1 = IF side = o.side /\ p = o.price THEN s + m ELSE s
  BY DEF DepthChanges
<1>3. /\ Orders(live2, side)[p] = IF side = o.side /\ p = o.price THEN n1 + k2 ELSE n1
      /\ Volume(live2, side)[p] = IF side = o.side /\ p = o.price THEN s1 + m2 ELSE s1
  BY DEF DepthChanges
<1> HIDE DEF n, s, n1, s1
<1> QED
  BY <1>1, <1>2, <1>3 DEF n, s

\* An order that goes no longer counts there.
LEMMA OrderGone ==
    ASSUME NEW live, LiveMap(live), NEW ref \in Refs, live[ref] # None,
           NEW live2, live2 = [live EXCEPT ![ref] = None]
    PROVE  /\ LiveMap(live2) /\ live2[ref] = None
           /\ DepthChanges(live, live2, live[ref], -1, -live[ref].remaining_shares)
<1> DEFINE o == live[ref]
<1>0. /\ live \in [Refs -> LiveOrder \union {None}] /\ o \in LiveOrder
      /\ o.remaining_shares \in Int
  BY SizesAssumption DEF LiveMap, LiveOrder, Shares
<1>1. /\ live2 \in [Refs -> LiveOrder \union {None}] /\ live2[ref] = None
      /\ \A r \in Refs : live2[r] = IF r = ref THEN None ELSE live[r]
  BY <1>0
<1>2. LiveMap(live2)
  <2>1. {r \in Refs : live2[r] # None} = {r \in Refs : live[r] # None} \ {ref}
    BY <1>1
  <2>2. IsFiniteSet({r \in Refs : live[r] # None} \ {ref})
    BY FS_RemoveElement DEF LiveMap
  <2> QED
    BY <1>1, <2>1, <2>2 DEF LiveMap
<1>3. live = [live2 EXCEPT ![ref] = o]
  BY <1>0
<1> HIDE DEF o
<1>4. DepthChanges(live2, live, o, 1, o.remaining_shares)
  BY <1>0, <1>1, <1>2, <1>3, OrderBrought
<1>5. DepthChanges(live, live2, o, -1, -o.remaining_shares)
  BY <1>0, <1>2, <1>4, DepthChangesBack
<1> QED
  BY <1>1, <1>2, <1>5 DEF o

\* An order that is executed in part counts with what is left of it.
LEMMA OrderReduced ==
    ASSUME NEW live, LiveMap(live), NEW ref \in Refs, live[ref] # None, NEW left \in Shares,
           NEW live2, live2 = [live EXCEPT ![ref].remaining_shares = left]
    PROVE  /\ LiveMap(live2)
           /\ DepthChanges(live, live2, live[ref], 0, left - live[ref].remaining_shares)
<1> DEFINE lo == live[ref]
<1> DEFINE o == [lo EXCEPT !.remaining_shares = left]
<1> DEFINE live1 == [live EXCEPT ![ref] = None]
<1>0. live \in [Refs -> LiveOrder \union {None}] /\ lo \in LiveOrder
  BY DEF LiveMap
<1>1. /\ o \in LiveOrder /\ o.side = lo.side /\ o.price = lo.price /\ o.remaining_shares = left
      /\ left \in Int /\ lo.remaining_shares \in Int
  BY <1>0, SizesAssumption DEF LiveOrder, Shares
<1>2. live2 = [live1 EXCEPT ![ref] = o]
  BY <1>0
<1> HIDE DEF live1
<1>3. /\ LiveMap(live1) /\ live1[ref] = None
      /\ DepthChanges(live, live1, lo, -1, -lo.remaining_shares)
  BY OrderGone DEF live1
<1> HIDE DEF o, lo
<1>4. LiveMap(live2) /\ DepthChanges(live1, live2, o, 1, left)
  BY <1>1, <1>2, <1>3, OrderBrought
<1>5. DepthChanges(live, live2, lo, -1 + 1, -lo.remaining_shares + left)
  <2>1. -1 \in Int /\ 1 \in Int /\ -lo.remaining_shares \in Int
    BY <1>1
  <2> QED
    BY <1>1, <1>3, <1>4, <2>1, DepthChangesAdd
<1>6. -1 + 1 = 0 /\ -lo.remaining_shares + left = left - lo.remaining_shares
  BY <1>1
<1> QED
  BY <1>4, <1>5, <1>6 DEF lo

-----------------------------------------------------------------------------
(* Books, and what the handlers make of them.                              *)

\* The type of a book.
Books ==
    [live_orders_ : [Refs -> LiveOrder \union {None}], levels : [Sides -> Levels],
     best : [Sides -> Prices \union {0}], complete : BOOLEAN]

\* A book whose arrays the binary search can be used on.
Shape(b) ==
    /\ b \in Books /\ LiveMap(b.live_orders_)
    /\ \A side \in Sides : Array(side, b.levels[side])

\* A side of a book against its live orders.
SideOk(b, side) ==
    /\ LevelsOk(side, Orders(b.live_orders_, side), Volume(b.live_orders_, side),
                b.levels[side], b.complete)
    /\ BestOk(side, Orders(b.live_orders_, side), b.levels[side], b.best[side], b.complete)

\* The levels and the best prices are what the live orders make them.
Right(b) == \A side \in Sides : SideOk(b, side)

\* No level's shares are more than a word holds.
InWords(b) == \A side \in Sides : \A p \in Prices : Volume(b.live_orders_, side)[p] < Word

\* The book with one more order, with one less, and with less of one.
With(b, ref, o) ==
    [live_orders_ |-> [b.live_orders_ EXCEPT ![ref] = o],
     levels |-> [b.levels EXCEPT
         ![o.side] = AddToLevels(b.levels[o.side], o.side, o.price, o.remaining_shares)],
     best |-> [b.best EXCEPT ![o.side] = BestAfterAdd(b.best[o.side], o.side, o.price)],
     complete |-> b.complete /\ Fits(b.levels[o.side], o.price)]

\* The levels of its side without the shares of an order.
LevelsWithout(b, lo) ==
    RemoveFromLevels(b.levels[lo.side], lo.side, lo.price, lo.remaining_shares, 0)

\* The book with one order less.
Without(b, ref, lo) ==
    [live_orders_ |-> [b.live_orders_ EXCEPT ![ref] = None],
     levels |-> [b.levels EXCEPT ![lo.side] = LevelsWithout(b, lo)],
     best |-> [b.best EXCEPT
         ![lo.side] = BestAfterRemoval(b.best[lo.side], lo.price, LevelsWithout(b, lo))],
     complete |-> b.complete]

\* The book with some shares of an order less.
WithLess(b, ref, lo, shares) ==
    [live_orders_ |-> [b.live_orders_ EXCEPT ![ref].remaining_shares = lo.remaining_shares - shares],
     levels |-> [b.levels EXCEPT
         ![lo.side] = RemoveFromLevels(b.levels[lo.side], lo.side, lo.price, shares, 1)],
     best |-> b.best, complete |-> b.complete]

\* A book with these fields.
Fields(l, v, t, c) == [live_orders_ |-> l, levels |-> v, best |-> t, complete |-> c]

\* The fields of a book written out.
LEMMA FieldsOf ==
    ASSUME NEW l, NEW v, NEW t, NEW c,
           NEW b \in [live_orders_ : {l}, levels : {v}, best : {t}, complete : {c}]
    PROVE  b = Fields(l, v, t, c)
  BY DEF Fields

\* The updates the handlers make.
Updated(b, l, v, t, c) == [b EXCEPT !.live_orders_ = l, !.levels = v, !.best = t, !.complete = c]

\* An update of all fields is the book of the new ones.
LEMMA UpdatedFields ==
    ASSUME NEW b \in Books, NEW l, NEW v, NEW t, NEW c
    PROVE  Updated(b, l, v, t, c) = Fields(l, v, t, c)
<1>1. Updated(b, l, v, t, c) \in [live_orders_ : {l}, levels : {v}, best : {t}, complete : {c}]
  BY DEF Books, Updated
<1> QED
  BY <1>1, FieldsOf

\* The updates of the handlers, one field at a time.
LEMMA Updates ==
    ASSUME NEW b \in Books, NEW l, NEW v
    PROVE  /\ [b EXCEPT !.levels = v] = Fields(b.live_orders_, v, b.best, b.complete)
           /\ [b EXCEPT !.levels = v, !.live_orders_ = l] = Fields(l, v, b.best, b.complete)
<1>1. [b EXCEPT !.levels = v] = Fields(b.live_orders_, v, b.best, b.complete)
  BY DEF Books, Fields
<1>2. [b EXCEPT !.levels = v, !.live_orders_ = l] = Fields(l, v, b.best, b.complete)
  <2>1. [b EXCEPT !.levels = v, !.live_orders_ = l]
            \in [live_orders_ : {l}, levels : {v}, best : {b.best}, complete : {b.complete}]
    BY DEF Books
  <2> QED
    BY <2>1, FieldsOf
<1> QED
  BY <1>1, <1>2

\* A book after erase() and recalculate_bbo().
ErasedOf(l, v, t, c, ref, side, price) ==
    Fields([l EXCEPT ![ref] = None], v,
           [t EXCEPT ![side] = BestAfterRemoval(t[side], price, v[side])], c)

\* What those two leave in each field.
LEMMA ErasedFields ==
    ASSUME NEW l, NEW v, NEW t, NEW c, NEW ref, NEW side, NEW price,
           l[ref].side = side, l[ref].price = price
    PROVE  Erased(Fields(l, v, t, c), ref) = ErasedOf(l, v, t, c, ref, side, price)
<1> DEFINE b == Fields(l, v, t, c)
<1> DEFINE l2 == [l EXCEPT ![ref] = None]
<1> DEFINE t2 == [t EXCEPT ![side] = BestAfterRemoval(t[side], price, v[side])]
<1>0. b.live_orders_ = l /\ b.levels = v /\ b.best = t /\ b.complete = c
  BY DEF Fields
<1>1. Erased(b, ref) = [b EXCEPT !.live_orders_ = l2, !.best = t2]
  <2> HIDE DEF b
  <2> QED
    BY <1>0 DEF Erased
<1> HIDE DEF l2, t2
<1>2. [b EXCEPT !.live_orders_ = l2, !.best = t2]
          \in [live_orders_ : {l2}, levels : {v}, best : {t2}, complete : {c}]
  BY DEF Fields
<1>3. [b EXCEPT !.live_orders_ = l2, !.best = t2] = Fields(l2, v, t2, c)
  BY <1>2, FieldsOf
<1> QED
  BY <1>1, <1>3 DEF l2, t2, ErasedOf

\* Which of these a message makes of a book.
LEMMA AddIsWith ==
    ASSUME NEW b \in Books, NEW order \in Adds,
           NEW o, o = [side |-> order.side, price |-> order.price, remaining_shares |-> order.shares]
    PROVE  /\ o \in LiveOrder /\ order.order_ref \in Refs
           /\ handle_add(b, order) = With(b, order.order_ref, o)
<1> DEFINE new == [side |-> order.side, price |-> order.price, remaining_shares |-> order.shares]
<1> DEFINE ref == order.order_ref
<1> DEFINE l == [b.live_orders_ EXCEPT ![ref] = new]
<1> DEFINE v == [b.levels EXCEPT ![order.side] =
                     AddToLevels(b.levels[order.side], order.side, order.price, order.shares)]
<1> DEFINE t == [b.best EXCEPT ![order.side] =
                     BestAfterAdd(b.best[order.side], order.side, order.price)]
<1> DEFINE c == b.complete /\ Fits(b.levels[order.side], order.price)
<1>1. /\ ref \in Refs /\ new \in LiveOrder /\ new.side = order.side
      /\ new.price = order.price /\ new.remaining_shares = order.shares
  BY DEF Adds, LiveOrder
<1>2. handle_add(b, order) = Updated(b, l, v, t, c)
  BY DEF handle_add, Updated
<1>3. With(b, ref, new) = Fields(l, v, t, c)
  <2> HIDE DEF new
  <2> QED
    BY <1>1 DEF With, Fields
<1> HIDE DEF l, v, t, c
<1>4. handle_add(b, order) = Fields(l, v, t, c)
  <2>1. Updated(b, l, v, t, c) = Fields(l, v, t, c)
    BY UpdatedFields
  <2> QED
    BY <1>2, <2>1
<1> QED
  BY <1>1, <1>3, <1>4

\* A live order has a side, a price and shares left.
LEMMA LiveOrderFacts ==
    ASSUME NEW b \in Books, NEW ref \in Refs, IsLive(b, ref)
    PROVE  /\ b.live_orders_[ref] \in LiveOrder
           /\ b.live_orders_[ref].side \in Sides /\ b.live_orders_[ref].price \in Prices
           /\ b.live_orders_[ref].remaining_shares \in Nat \ {0}
  BY SizesAssumption DEF Books, IsLive, LiveOrder, Shares

\* A Delete takes the order and all its shares.
LEMMA DeleteIsWithout ==
    ASSUME NEW b \in Books, NEW order \in Deletes, IsLive(b, order.order_ref)
    PROVE  /\ order.order_ref \in Refs
           /\ handle_delete(b, order) = Without(b, order.order_ref, b.live_orders_[order.order_ref])
<1>1. order.order_ref \in Refs
  BY DEF Deletes
<1> DEFINE ref == order.order_ref
<1> DEFINE lo == b.live_orders_[ref]
<1> DEFINE v == [b.levels EXCEPT ![lo.side] = LevelsWithout(b, lo)]
<1>2. lo.side \in Sides /\ v[lo.side] = LevelsWithout(b, lo)
  BY <1>1, LiveOrderFacts DEF Books
<1>3. handle_delete(b, order) = Erased([b EXCEPT !.levels = v], ref)
  BY DEF handle_delete, LevelsWithout
<1> HIDE DEF v
<1>4. handle_delete(b, order) = Erased(Fields(b.live_orders_, v, b.best, b.complete), ref)
  BY <1>3, Updates
<1>5. handle_delete(b, order) =
          ErasedOf(b.live_orders_, v, b.best, b.complete, ref, lo.side, lo.price)
  BY <1>4, ErasedFields
<1> QED
  BY <1>1, <1>2, <1>5 DEF Without, ErasedOf, Fields, v

\* An Execute takes the order, or some of its shares and the order stays.
LEMMA ExecuteIsLess ==
    ASSUME NEW b \in Books, NEW order \in Executes, IsLive(b, order.order_ref)
    PROVE  LET ref == order.order_ref
               lo == b.live_orders_[ref]
           IN  /\ ref \in Refs
               /\ \/ handle_execute(b, order) = Without(b, ref, lo)
                  \/ \E shares \in 1 .. lo.remaining_shares - 1 :
                         handle_execute(b, order) = WithLess(b, ref, lo, shares)
<1> DEFINE ref == order.order_ref
<1> DEFINE lo == b.live_orders_[ref]
<1> DEFINE shares == Executed(lo, order.shares)
<1>1. ref \in Refs /\ order.shares \in Nat \ {0}
  BY SizesAssumption DEF Executes, Shares
<1>2. /\ lo \in LiveOrder /\ lo.side \in Sides /\ lo.price \in Prices
      /\ lo.remaining_shares \in Nat \ {0} /\ b.live_orders_ \in [Refs -> LiveOrder \union {None}]
  BY <1>1, LiveOrderFacts DEF Books
<1>3. shares \in 1 .. lo.remaining_shares
  BY <1>1, <1>2 DEF Executed
<1> DEFINE left == lo.remaining_shares - shares
<1> DEFINE partial == IF left = 0 THEN 0 ELSE 1
<1> DEFINE reduced == [b EXCEPT
            !.levels[lo.side] = RemoveFromLevels(@, lo.side, lo.price, shares, partial),
            !.live_orders_[ref].remaining_shares = left]
<1>4. handle_execute(b, order) = IF left = 0 THEN Erased(reduced, ref) ELSE reduced
  BY DEF handle_execute
<1> HIDE DEF shares, lo
<1>5. CASE left = 0
  <2>1. shares = lo.remaining_shares /\ partial = 0
    BY <1>2, <1>3, <1>5
  <2> DEFINE v == [b.levels EXCEPT ![lo.side] = LevelsWithout(b, lo)]
  <2> DEFINE l == [b.live_orders_ EXCEPT ![ref].remaining_shares = 0]
  <2>2. reduced = [b EXCEPT !.levels = v, !.live_orders_ = l]
    BY <1>5, <2>1 DEF LevelsWithout
  <2>3. v[lo.side] = LevelsWithout(b, lo)
    BY <1>2 DEF Books
  <2>4. /\ l[ref].side = lo.side /\ l[ref].price = lo.price
        /\ [l EXCEPT ![ref] = None] = [b.live_orders_ EXCEPT ![ref] = None]
    BY <1>1, <1>2 DEF lo, LiveOrder
  <2> HIDE DEF reduced, v, l
  <2>5. reduced = Fields(l, v, b.best, b.complete)
    BY <2>2, Updates
  <2>6. Erased(reduced, ref) =
            ErasedOf(l, v, b.best, b.complete, ref, lo.side, lo.price)
    <3>1. l[ref].side = lo.side /\ l[ref].price = lo.price
      BY <2>4
    <3> QED
      BY <2>5, <3>1, ErasedFields
  <2>7. Erased(reduced, ref) = Without(b, ref, lo)
    BY <2>3, <2>4, <2>6 DEF Without, ErasedOf, Fields, v
  <2> QED
    BY <1>1, <1>4, <1>5, <2>7 DEF lo
<1>6. CASE left # 0
  <2>1. shares \in 1 .. lo.remaining_shares - 1 /\ partial = 1
    BY <1>2, <1>3, <1>6
  <2> DEFINE v == [b.levels EXCEPT
          ![lo.side] = RemoveFromLevels(b.levels[lo.side], lo.side, lo.price, shares, 1)]
  <2> DEFINE l == [b.live_orders_ EXCEPT ![ref].remaining_shares = left]
  <2>2. reduced = WithLess(b, ref, lo, shares)
    <3>1. reduced = [b EXCEPT !.levels = v, !.live_orders_ = l]
      BY <2>1
    <3>2. WithLess(b, ref, lo, shares) = Fields(l, v, b.best, b.complete)
      BY DEF WithLess, Fields
    <3> HIDE DEF reduced, v, l
    <3> QED
      BY <3>1, <3>2, Updates
  <2> QED
    BY <1>1, <1>4, <1>6, <2>1, <2>2 DEF lo
<1> QED
  BY <1>5, <1>6

-----------------------------------------------------------------------------
(* Each of them keeps the shape.                                           *)

\* One more order keeps the shape.
LEMMA WithShape ==
    ASSUME NEW b, Shape(b), NEW ref \in Refs, ~IsLive(b, ref), NEW o \in LiveOrder
    PROVE  Shape(With(b, ref, o))
<1> DEFINE lv == AddToLevels(b.levels[o.side], o.side, o.price, o.remaining_shares)
<1>0. o.side \in Sides /\ o.price \in Prices /\ o.remaining_shares \in Shares
  BY DEF LiveOrder
<1>1. Array(o.side, lv) /\ lv \in Levels
  BY <1>0, AddToLevelsFacts DEF Shape, Array
<1>2. BestAfterAdd(b.best[o.side], o.side, o.price) \in Prices \union {0}
  BY <1>0 DEF Shape, Books, BestAfterAdd
<1>3. LiveMap([b.live_orders_ EXCEPT ![ref] = o])
  BY OrderBrought DEF Shape, IsLive
<1> HIDE DEF lv
<1>4. With(b, ref, o) \in Books
  <2>1. [b.live_orders_ EXCEPT ![ref] = o] \in [Refs -> LiveOrder \union {None}]
    BY <1>3 DEF LiveMap
  <2>2. [b.levels EXCEPT ![o.side] = lv] \in [Sides -> Levels]
    BY <1>1 DEF Shape, Books
  <2>3. [b.best EXCEPT ![o.side] = BestAfterAdd(b.best[o.side], o.side, o.price)]
            \in [Sides -> Prices \union {0}]
    BY <1>2 DEF Shape, Books
  <2>4. (b.complete /\ Fits(b.levels[o.side], o.price)) \in BOOLEAN
    OBVIOUS
  <2> QED
    BY <2>1, <2>2, <2>3, <2>4 DEF Books, With, lv
<1>5. \A side \in Sides : Array(side, With(b, ref, o).levels[side])
  <2>1. With(b, ref, o).levels = [b.levels EXCEPT ![o.side] = lv]
    BY DEF With, lv
  <2> QED
    BY <1>1, <2>1 DEF Shape, Books
<1> QED
  BY <1>3, <1>4, <1>5 DEF Shape, With

\* One order less keeps the shape.
LEMMA WithoutShape ==
    ASSUME NEW b, Shape(b), NEW ref \in Refs, IsLive(b, ref), NEW lo, lo = b.live_orders_[ref]
    PROVE  Shape(Without(b, ref, lo)) /\ Array(lo.side, LevelsWithout(b, lo))
<1> DEFINE lv == LevelsWithout(b, lo)
<1>0. lo.side \in Sides /\ lo.price \in Prices /\ lo.remaining_shares \in Nat
  BY LiveOrderFacts DEF Shape
<1>1. Array(lo.side, lv) /\ lv \in Levels
  BY <1>0, RemoveFromLevelsFacts DEF Shape, Array, LevelsWithout
<1> HIDE DEF lv
<1>2. BestAfterRemoval(b.best[lo.side], lo.price, lv) \in Prices \union {0}
  <2>1. b.best[lo.side] \in Prices \union {0}
    BY <1>0 DEF Shape, Books
  <2>2. Top(lv) \in Prices \union {0}
    BY <1>0, <1>1, TopFacts
  <2> QED
    BY <2>1, <2>2 DEF BestAfterRemoval
<1>3. LiveMap([b.live_orders_ EXCEPT ![ref] = None])
  BY OrderGone DEF Shape, IsLive
<1>4. Without(b, ref, lo) \in Books
  <2>1. [b.live_orders_ EXCEPT ![ref] = None] \in [Refs -> LiveOrder \union {None}]
    BY <1>3 DEF LiveMap
  <2>2. [b.levels EXCEPT ![lo.side] = lv] \in [Sides -> Levels]
    BY <1>1 DEF Shape, Books
  <2>3. [b.best EXCEPT ![lo.side] = BestAfterRemoval(b.best[lo.side], lo.price, lv)]
            \in [Sides -> Prices \union {0}]
    BY <1>2 DEF Shape, Books
  <2> QED
    BY <2>1, <2>2, <2>3 DEF Shape, Books, Without, lv
<1>5. \A side \in Sides : Array(side, Without(b, ref, lo).levels[side])
  <2>1. Without(b, ref, lo).levels = [b.levels EXCEPT ![lo.side] = lv]
    BY DEF Without, lv
  <2> QED
    BY <1>1, <2>1 DEF Shape, Books
<1> QED
  BY <1>1, <1>3, <1>4, <1>5 DEF Shape, Without, lv

\* Less of an order keeps the shape.
LEMMA WithLessShape ==
    ASSUME NEW b, Shape(b), NEW ref \in Refs, IsLive(b, ref), NEW lo, lo = b.live_orders_[ref],
           NEW shares \in 1 .. lo.remaining_shares - 1
    PROVE  Shape(WithLess(b, ref, lo, shares))
<1> DEFINE lv == RemoveFromLevels(b.levels[lo.side], lo.side, lo.price, shares, 1)
<1> DEFINE live == [b.live_orders_ EXCEPT ![ref].remaining_shares = lo.remaining_shares - shares]
<1>0. /\ lo \in LiveOrder /\ lo.side \in Sides /\ lo.price \in Prices
      /\ lo.remaining_shares \in Nat /\ shares \in Nat
  BY LiveOrderFacts DEF Shape
<1>1. Array(lo.side, lv) /\ lv \in Levels
  BY <1>0, RemoveFromLevelsFacts DEF Shape, Array
<1>2. LiveMap(live)
  <2>1. lo.remaining_shares - shares \in Shares
    BY <1>0, SizesAssumption DEF LiveOrder, Shares
  <2> QED
    BY <2>1, OrderReduced DEF Shape, IsLive
<1> HIDE DEF lv, live
<1>3. WithLess(b, ref, lo, shares) =
          [live_orders_ |-> live, levels |-> [b.levels EXCEPT ![lo.side] = lv],
           best |-> b.best, complete |-> b.complete]
  BY DEF WithLess, live, lv
<1>4. [b.levels EXCEPT ![lo.side] = lv] \in [Sides -> Levels]
  BY <1>1 DEF Shape, Books
<1>5. WithLess(b, ref, lo, shares) \in Books
  BY <1>2, <1>3, <1>4 DEF Shape, Books, LiveMap
<1>6. \A side \in Sides : Array(side, [b.levels EXCEPT ![lo.side] = lv][side])
  BY <1>1 DEF Shape, Books
<1> QED
  BY <1>2, <1>3, <1>5, <1>6 DEF Shape

-----------------------------------------------------------------------------
(* Each of the three operations keeps a book right.                        *)

\* The depth of the other side stays.
LEMMA OtherSide ==
    ASSUME NEW live, NEW live2, NEW at, NEW k, NEW m, DepthChanges(live, live2, at, k, m),
           NEW side \in Sides, side # at.side
    PROVE  Orders(live2, side) = Orders(live, side) /\ Volume(live2, side) = Volume(live, side)
<1>1. \A p \in Prices : /\ Orders(live2, side)[p] = Orders(live, side)[p]
                        /\ Volume(live2, side)[p] = Volume(live, side)[p]
  BY DEF DepthChanges
<1>2. /\ Orders(live2, side) = [p \in Prices |-> Orders(live2, side)[p]]
      /\ Orders(live, side) = [p \in Prices |-> Orders(live, side)[p]]
      /\ Volume(live2, side) = [p \in Prices |-> Volume(live2, side)[p]]
      /\ Volume(live, side) = [p \in Prices |-> Volume(live, side)[p]]
  BY DEF Orders, Volume
<1> QED
  BY <1>1, <1>2

\* What holds of a complete book holds of one that no longer is.
LEMMA LessComplete ==
    ASSUME NEW side, NEW n, NEW s, NEW lv, NEW best, NEW complete, NEW complete2,
           complete2 => complete,
           LevelsOk(side, n, s, lv, complete), BestOk(side, n, lv, best, complete)
    PROVE  LevelsOk(side, n, s, lv, complete2) /\ BestOk(side, n, lv, best, complete2)
  BY DEF LevelsOk, BestOk

\* The prices after an add_to_levels that found its side with room.
LEMMA AddedPrices ==
    ASSUME NEW side \in Sides, NEW lv, Array(side, lv), NEW price \in Prices, NEW shares \in Shares
    PROVE  \A x \in Range(AddToLevels(lv, side, price, shares)) :
               x.price = price \/ \E y \in Range(lv) : y.price = x.price
<1> DEFINE new == AddToLevels(lv, side, price, shares)
<1>1. LevelsAfterAdd(lv, price, shares, new) /\ Range(lv) \in SUBSET LevelType
  BY AddToLevelsFacts, SortedFacts DEF Array
<1>2. \A level \in LevelType : Joined(level, shares).price = level.price
  BY JoinedType DEF Shares
<1>3. NewLevel(price, shares).price = price
  BY DEF NewLevel
<1> HIDE DEF new
<1>4. \A x \in Range(new) : x.price = price \/ \E y \in Range(lv) : y.price = x.price
  BY <1>1, <1>2, <1>3 DEF LevelsAfterAdd
<1> QED
  BY <1>4 DEF new

\* One more order keeps a book right, as long as the totals fit in a word.
LEMMA WithRight ==
    ASSUME NEW b, Shape(b), Right(b), NEW ref \in Refs, ~IsLive(b, ref), NEW o \in LiveOrder,
           InWords(With(b, ref, o))
    PROVE  Right(With(b, ref, o))
<1> DEFINE b2 == With(b, ref, o)
<1> DEFINE live == b.live_orders_
<1> DEFINE live2 == b2.live_orders_
<1> DEFINE lv == b.levels[o.side]
<1> DEFINE new == AddToLevels(lv, o.side, o.price, o.remaining_shares)
<1>0. /\ o.side \in Sides /\ o.price \in Prices /\ o.remaining_shares \in Shares
      /\ b \in Books /\ LiveMap(live)
      /\ b.complete \in BOOLEAN /\ b2.complete \in BOOLEAN /\ (b2.complete => b.complete)
      /\ b.best[o.side] \in Prices \union {0}
  BY DEF LiveOrder, Shape, Books, With
<1>1. /\ b2.levels = [b.levels EXCEPT ![o.side] = new]
      /\ b2.best = [b.best EXCEPT ![o.side] = BestAfterAdd(b.best[o.side], o.side, o.price)]
      /\ b2.complete = (b.complete /\ Fits(lv, o.price))
      /\ live2 = [live EXCEPT ![ref] = o]
  BY DEF With
<1>2. LiveMap(live2) /\ DepthChanges(live, live2, o, 1, o.remaining_shares)
  BY <1>0, <1>1, OrderBrought DEF IsLive
<1>w. \A side \in Sides : \A p \in Prices : Volume(live2, side)[p] < Word
  BY DEF InWords
<1> SUFFICES ASSUME NEW side \in Sides PROVE SideOk(b2, side)
  BY DEF Right
<1>3. SideOk(b, side)
  BY DEF Right
<1>4. CASE side # o.side
  <2>1. b2.levels[side] = b.levels[side] /\ b2.best[side] = b.best[side]
    BY <1>0, <1>1, <1>4 DEF Books
  <2>2. Orders(live2, side) = Orders(live, side) /\ Volume(live2, side) = Volume(live, side)
    BY <1>2, <1>4, OtherSide
  <2> HIDE DEF b2
  <2> QED
    BY <1>0, <1>3, <2>1, <2>2, LessComplete DEF SideOk
<1>5. CASE side = o.side
  <2> DEFINE n == Orders(live, side)
  <2> DEFINE s == Volume(live, side)
  <2> DEFINE n2 == Orders(live2, side)
  <2> DEFINE s2 == Volume(live2, side)
  <2>1. Depth(n, s) /\ Depth(n2, s2)
    BY <1>0, <1>2, DepthOfLive
  <2>2. /\ \A p \in Prices : n2[p] = IF p = o.price THEN n[p] + 1 ELSE n[p]
        /\ \A p \in Prices : s2[p] = IF p = o.price THEN s[p] + o.remaining_shares ELSE s[p]
        /\ s2[o.price] < Word
    BY <1>0, <1>2, <1>5, <1>w DEF DepthChanges
  <2>3. /\ LevelsOk(side, n, s, lv, b.complete)
        /\ BestOk(side, n, lv, b.best[side], b.complete)
    BY <1>3, <1>5 DEF SideOk
  <2>4. \A x \in Range(new) : x.price = o.price \/ \E y \in Range(lv) : y.price = x.price
    BY <1>0, <2>3, <1>5, AddedPrices DEF LevelsOk
  <2>5. /\ b2.levels[side] = new
        /\ b2.best[side] = BestAfterAdd(b.best[side], side, o.price)
    BY <1>0, <1>1, <1>5 DEF Books
  <2> HIDE DEF n, s, n2, s2, b2, lv
  <2>6. LevelsOk(side, n2, s2, new, b2.complete)
    <3>1. LevelsOk(side, n2, s2, AddToLevels(lv, side, o.price, o.remaining_shares),
                   b.complete /\ Fits(lv, o.price))
      BY <1>0, <2>1, <2>2, <2>3, AddToDepth
    <3> QED
      BY <1>1, <1>5, <3>1
  <2> HIDE DEF new
  <2>7. BestOk(side, n2, new, BestAfterAdd(b.best[side], side, o.price), b2.complete)
    <3>1. b.best[side] \in Prices \union {0}
      BY <1>0, <1>5
    <3> QED
      BY <1>0, <2>1, <2>2, <2>3, <2>4, <2>6, <3>1, BestAfterAddIsOk
  <2> QED
    BY <2>5, <2>6, <2>7 DEF SideOk, n2, s2
<1> QED
  BY <1>4, <1>5

\* One order less keeps a book right.
LEMMA WithoutRight ==
    ASSUME NEW b, Shape(b), Right(b), NEW ref \in Refs, IsLive(b, ref),
           NEW lo, lo = b.live_orders_[ref]
    PROVE  Right(Without(b, ref, lo))
<1> DEFINE b2 == Without(b, ref, lo)
<1> DEFINE live == b.live_orders_
<1> DEFINE live2 == b2.live_orders_
<1> DEFINE lv == b.levels[lo.side]
<1> DEFINE new == RemoveFromLevels(lv, lo.side, lo.price, lo.remaining_shares, 0)
<1>0. /\ lo.side \in Sides /\ lo.price \in Prices /\ lo.remaining_shares \in Nat \ {0}
      /\ b \in Books /\ LiveMap(live) /\ live[ref] = lo /\ live[ref] # None
      /\ b.complete \in BOOLEAN /\ b.best[lo.side] \in Prices \union {0}
  BY LiveOrderFacts DEF Shape, Books, IsLive
<1>1. /\ b2.levels = [b.levels EXCEPT ![lo.side] = new]
      /\ b2.best = [b.best EXCEPT ![lo.side] = BestAfterRemoval(b.best[lo.side], lo.price, new)]
      /\ b2.complete = b.complete
      /\ live2 = [live EXCEPT ![ref] = None]
  BY DEF Without, LevelsWithout
<1>2. LiveMap(live2) /\ DepthChanges(live, live2, lo, -1, -lo.remaining_shares)
  BY <1>0, <1>1, OrderGone
<1> SUFFICES ASSUME NEW side \in Sides PROVE SideOk(b2, side)
  BY DEF Right
<1>3. SideOk(b, side)
  BY DEF Right
<1>4. CASE side # lo.side
  <2>1. b2.levels[side] = b.levels[side] /\ b2.best[side] = b.best[side]
    BY <1>0, <1>1, <1>4 DEF Books
  <2>2. Orders(live2, side) = Orders(live, side) /\ Volume(live2, side) = Volume(live, side)
    BY <1>2, <1>4, OtherSide
  <2> HIDE DEF b2
  <2> QED
    BY <1>1, <1>3, <2>1, <2>2 DEF SideOk
<1>5. CASE side = lo.side
  <2> DEFINE n == Orders(live, side)
  <2> DEFINE s == Volume(live, side)
  <2> DEFINE n2 == Orders(live2, side)
  <2> DEFINE s2 == Volume(live2, side)
  <2>1. Depth(n, s) /\ Depth(n2, s2)
    BY <1>0, <1>2, DepthOfLive
  <2>2. \A p \in Prices : n[p] \in Int /\ s[p] \in Int
    BY <2>1 DEF Depth
  <2>3. /\ \A p \in Prices : n2[p] = IF p = lo.price THEN n[p] - (1 - 0) ELSE n[p]
        /\ \A p \in Prices : s2[p] = IF p = lo.price THEN s[p] - lo.remaining_shares ELSE s[p]
    <3>1. /\ \A p \in Prices : n2[p] = IF p = lo.price THEN n[p] + (-1) ELSE n[p]
          /\ \A p \in Prices : s2[p] = IF p = lo.price THEN s[p] + (-lo.remaining_shares) ELSE s[p]
      BY <1>2, <1>5 DEF DepthChanges
    <3> HIDE DEF n, s, n2, s2
    <3> QED
      BY <1>0, <2>2, <3>1
  <2>4. /\ LevelsOk(side, n, s, lv, b.complete)
        /\ BestOk(side, n, lv, b.best[side], b.complete)
    BY <1>3, <1>5 DEF SideOk
  <2>5. /\ b2.levels[side] = new
        /\ b2.best[side] = BestAfterRemoval(b.best[side], lo.price, new)
    BY <1>0, <1>1, <1>5 DEF Books
  <2>6. b.best[side] \in Prices \union {0}
    BY <1>0, <1>5
  <2> HIDE DEF n, s, n2, s2, b2, lv
  <2>7. /\ LevelsOk(side, n2, s2, new, b.complete)
        /\ \A x \in Range(new) : \E y \in Range(lv) : y.price = x.price
    <3>1. 0 \in {0, 1} /\ (0 = 1 => s2[lo.price] > 0)
      OBVIOUS
    <3> QED
      BY <1>0, <1>5, <2>1, <2>3, <2>4, <3>1, RemoveFromDepth
  <2> HIDE DEF new
  <2>8. BestOk(side, n2, new, BestAfterRemoval(b.best[side], lo.price, new), b.complete)
    <3>1. CASE lo.price = b.best[side]
      BY <1>0, <2>1, <2>7, <3>1, TopIsBest DEF BestAfterRemoval
    <3>2. CASE lo.price # b.best[side]
      <4>1. b.best[side] # 0 => n2[b.best[side]] > 0
        BY <2>3, <2>4, <2>6, <3>2 DEF BestOk
      <4>2. BestOk(side, n2, new, b.best[side], b.complete)
        BY <1>0, <2>1, <2>4, <2>6, <2>7, <4>1, BestStays
      <4> QED
        BY <3>2, <4>2 DEF BestAfterRemoval
    <3> QED
      BY <3>1, <3>2
  <2> QED
    BY <1>1, <2>5, <2>7, <2>8 DEF SideOk, n2, s2
<1> QED
  BY <1>4, <1>5

\* Less of an order keeps a book right.
LEMMA WithLessRight ==
    ASSUME NEW b, Shape(b), Right(b), NEW ref \in Refs, IsLive(b, ref),
           NEW lo, lo = b.live_orders_[ref], NEW shares \in 1 .. lo.remaining_shares - 1
    PROVE  Right(WithLess(b, ref, lo, shares))
<1> DEFINE b2 == WithLess(b, ref, lo, shares)
<1> DEFINE live == b.live_orders_
<1> DEFINE live2 == b2.live_orders_
<1> DEFINE lv == b.levels[lo.side]
<1> DEFINE new == RemoveFromLevels(lv, lo.side, lo.price, shares, 1)
<1> DEFINE left == lo.remaining_shares - shares
<1>0. /\ lo.side \in Sides /\ lo.price \in Prices /\ lo.remaining_shares \in Nat \ {0}
      /\ b \in Books /\ LiveMap(live) /\ live[ref] = lo /\ live[ref] # None
      /\ b.complete \in BOOLEAN /\ b.best[lo.side] \in Prices \union {0}
      /\ lo \in LiveOrder
  BY LiveOrderFacts DEF Shape, Books, IsLive
<1>1. /\ b2.levels = [b.levels EXCEPT ![lo.side] = new]
      /\ b2.best = b.best /\ b2.complete = b.complete
      /\ live2 = [live EXCEPT ![ref].remaining_shares = left]
  BY DEF WithLess
<1>s. /\ shares \in Nat \ {0} /\ left \in Shares /\ left - lo.remaining_shares = -shares
  BY <1>0, SizesAssumption DEF LiveOrder, Shares
<1>2. LiveMap(live2) /\ DepthChanges(live, live2, lo, 0, -shares)
  <2> HIDE DEF left
  <2>1. LiveMap(live2) /\ DepthChanges(live, live2, lo, 0, left - lo.remaining_shares)
    BY <1>0, <1>1, <1>s, OrderReduced
  <2> QED
    BY <1>s, <2>1
<1> SUFFICES ASSUME NEW side \in Sides PROVE SideOk(b2, side)
  BY DEF Right
<1>3. SideOk(b, side)
  BY DEF Right
<1>4. CASE side # lo.side
  <2>1. b2.levels[side] = b.levels[side] /\ b2.best[side] = b.best[side]
    BY <1>0, <1>1, <1>4 DEF Books
  <2>2. Orders(live2, side) = Orders(live, side) /\ Volume(live2, side) = Volume(live, side)
    BY <1>2, <1>4, OtherSide
  <2> HIDE DEF b2
  <2> QED
    BY <1>1, <1>3, <2>1, <2>2 DEF SideOk
<1>5. CASE side = lo.side
  <2> DEFINE n == Orders(live, side)
  <2> DEFINE s == Volume(live, side)
  <2> DEFINE n2 == Orders(live2, side)
  <2> DEFINE s2 == Volume(live2, side)
  <2>1. Depth(n, s) /\ Depth(n2, s2)
    BY <1>0, <1>2, DepthOfLive
  <2>2. \A p \in Prices : n[p] \in Nat /\ s[p] \in Nat /\ n2[p] \in Nat /\ s2[p] \in Nat
    BY <2>1 DEF Depth
  <2>3. /\ \A p \in Prices : n2[p] = n[p]
        /\ \A p \in Prices : n2[p] = IF p = lo.price THEN n[p] - (1 - 1) ELSE n[p]
        /\ \A p \in Prices : s2[p] = IF p = lo.price THEN s[p] - shares ELSE s[p]
    <3>1. /\ \A p \in Prices : n2[p] = IF p = lo.price THEN n[p] + 0 ELSE n[p]
          /\ \A p \in Prices : s2[p] = IF p = lo.price THEN s[p] + (-shares) ELSE s[p]
      BY <1>2, <1>5 DEF DepthChanges
    <3> HIDE DEF n, s, n2, s2
    <3> QED
      BY <1>s, <2>2, <3>1
  <2>4. s2[lo.price] > 0
    <3>1. ref \in At(live, side, lo.price)
      BY <1>0, <1>5 DEF At
    <3>2. n[lo.price] # 0
      <4>1. Counted(live, At(live, side, lo.price))
        BY <1>0, AtIsCounted
      <4>2. Cardinality(At(live, side, lo.price)) # 0
        BY <3>1, <4>1, FS_EmptySet DEF Counted
      <4> QED
        BY <1>0, <4>2 DEF Orders
    <3> HIDE DEF n, s, n2, s2
    <3> QED
      BY <1>0, <2>1, <2>2, <2>3, <3>2 DEF Depth
  <2>5. /\ LevelsOk(side, n, s, lv, b.complete)
        /\ BestOk(side, n, lv, b.best[side], b.complete)
    BY <1>3, <1>5 DEF SideOk
  <2>6. b2.levels[side] = new /\ b2.best[side] = b.best[side]
    BY <1>0, <1>1, <1>5 DEF Books
  <2>7. b.best[side] \in Prices \union {0}
    BY <1>0, <1>5
  <2> HIDE DEF n, s, n2, s2, b2, lv
  <2>8. /\ LevelsOk(side, n2, s2, new, b.complete)
        /\ \A x \in Range(new) : \E y \in Range(lv) : y.price = x.price
    <3>1. 1 \in {0, 1} /\ (1 = 1 => s2[lo.price] > 0)
      BY <2>4
    <3> QED
      BY <1>0, <1>5, <1>s, <2>1, <2>3, <2>5, <3>1, RemoveFromDepth, SMTT(30)
  <2> HIDE DEF new
  <2>9. BestOk(side, n2, new, b.best[side], b.complete)
    <3>1. b.best[side] # 0 => n2[b.best[side]] > 0
      BY <2>3, <2>5, <2>7 DEF BestOk
    <3> QED
      BY <1>0, <2>1, <2>5, <2>7, <2>8, <3>1, BestStays
  <2> QED
    BY <1>1, <2>6, <2>8, <2>9 DEF SideOk, n2, s2
<1> QED
  BY <1>4, <1>5

-----------------------------------------------------------------------------
(* Recalculation, and Replace.                                             *)

\* Both best prices recalculated.
Recalculated(b) ==
    Fields(b.live_orders_, b.levels, [side \in Sides |-> Top(b.levels[side])], b.complete)

\* To recalculate both best prices does no harm.
LEMMA RecalculatedOk ==
    ASSUME NEW b, Shape(b)
    PROVE  /\ Shape(Recalculated(b))
           /\ Right(b) => Right(Recalculated(b))
<1> DEFINE t == [side \in Sides |-> Top(b.levels[side])]
<1> DEFINE b2 == Recalculated(b)
<1>0. /\ b2.live_orders_ = b.live_orders_ /\ b2.levels = b.levels /\ b2.best = t
      /\ b2.complete = b.complete
  BY DEF Recalculated, Fields
<1>1. t \in [Sides -> Prices \union {0}]
  BY TopFacts DEF Shape
<1>2. b2 \in Books
  <2> HIDE DEF t
  <2> QED
    BY <1>1 DEF Recalculated, Fields, Shape, Books, t
<1> HIDE DEF b2
<1>3. Shape(b2)
  BY <1>0, <1>2 DEF Shape
<1>4. ASSUME Right(b), NEW side \in Sides PROVE SideOk(b2, side)
  <2>1. LevelsOk(side, Orders(b.live_orders_, side), Volume(b.live_orders_, side),
                 b.levels[side], b.complete)
    BY <1>4 DEF Right, SideOk
  <2>2. Depth(Orders(b.live_orders_, side), Volume(b.live_orders_, side))
    BY DepthOfLive DEF Shape
  <2>3. b.complete \in BOOLEAN
    BY DEF Shape, Books
  <2>4. BestOk(side, Orders(b.live_orders_, side), b.levels[side], Top(b.levels[side]), b.complete)
    BY <2>1, <2>2, <2>3, TopIsBest
  <2>5. b2.best[side] = Top(b.levels[side])
    BY <1>0
  <2> QED
    BY <1>0, <2>1, <2>4, <2>5 DEF SideOk
<1> QED
  BY <1>3, <1>4 DEF Right, b2

\* A Replace is a removal, an Add and a recalculation.
LEMMA ReplaceIsWithoutThenWith ==
    ASSUME NEW b, Shape(b), NEW order \in Replaces, IsLive(b, order.order_ref),
           NEW lo, lo = b.live_orders_[order.order_ref],
           NEW o, o = [side |-> lo.side, price |-> order.price, remaining_shares |-> order.shares]
    PROVE  /\ order.order_ref \in Refs /\ order.new_order_ref \in Refs /\ o \in LiveOrder
           /\ handle_replace(b, order) =
                  Recalculated(With(Without(b, order.order_ref, lo), order.new_order_ref, o))
<1> DEFINE ref == order.order_ref
<1> DEFINE old == b.live_orders_[ref]
<1> DEFINE new == [side |-> old.side, price |-> order.price, remaining_shares |-> order.shares]
<1> DEFINE b1 == Without(b, ref, old)
<1> DEFINE b2 == With(b1, order.new_order_ref, new)
<1> DEFINE without == LevelsWithout(b, old)
<1> DEFINE levels == [b.levels EXCEPT ![old.side] =
                          AddToLevels(without, old.side, order.price, order.shares)]
<1> DEFINE l == [b.live_orders_ EXCEPT ![ref] = None, ![order.new_order_ref] = new]
<1>0. /\ ref \in Refs /\ order.new_order_ref \in Refs /\ order.price \in Prices
      /\ order.shares \in Shares /\ b \in Books
  BY DEF Replaces, Shape
<1>1. old.side \in Sides
  BY <1>0, LiveOrderFacts
<1>2. /\ new \in LiveOrder /\ new.side = old.side /\ new.price = order.price
      /\ new.remaining_shares = order.shares
  BY <1>0, <1>1 DEF LiveOrder
<1>3. handle_replace(b, order) =
          Fields(l, levels, [side \in Sides |-> Top(levels[side])],
                 b.complete /\ Fits(without, order.price))
  BY DEF handle_replace, LevelsWithout, Fields
<1> HIDE DEF old, without, new
<1>4. /\ b1.levels = [b.levels EXCEPT ![old.side] = without]
      /\ b1.live_orders_ = [b.live_orders_ EXCEPT ![ref] = None]
      /\ b1.complete = b.complete
  BY DEF Without, without
<1> HIDE DEF b1
<1>5. b1.levels[old.side] = without
  BY <1>0, <1>1, <1>4 DEF Books
<1>6. /\ b2.levels = [b1.levels EXCEPT ![old.side] =
                          AddToLevels(without, old.side, order.price, order.shares)]
      /\ b2.live_orders_ = [b1.live_orders_ EXCEPT ![order.new_order_ref] = new]
      /\ b2.complete = (b.complete /\ Fits(without, order.price))
  BY <1>2, <1>4, <1>5 DEF With
<1> HIDE DEF b2
<1>7. b2.levels = levels
  BY <1>4, <1>6
<1>8. b2.live_orders_ = l
  BY <1>4, <1>6
<1> HIDE DEF levels, l
<1>9. handle_replace(b, order) = Recalculated(b2)
  BY <1>3, <1>6, <1>7, <1>8 DEF Recalculated
<1> QED
  BY <1>0, <1>2, <1>9 DEF b1, b2, old, new

-----------------------------------------------------------------------------
(* The steps.                                                              *)

\* The message of a step, on the book as it is.
Fresh(b, order) ==
    /\ order.type = "Add" => ~IsLive(b, order.order_ref)
    /\ order.type = "Replace" /\ order.new_order_ref # order.order_ref =>
           ~IsLive(b, order.new_order_ref)

\* What a message makes of a well-formed book is one, and is right if the book was and
\* no total has outgrown its word.
Kept(b, b2) == Shape(b2) /\ (Right(b) /\ InWords(b2) => Right(b2))

\* An Add of a reference that is not live.
LEMMA AddKept ==
    ASSUME NEW b, Shape(b), NEW order \in Adds, Fresh(b, order)
    PROVE  Kept(b, Applied(b, order))
<1> DEFINE o == [side |-> order.side, price |-> order.price, remaining_shares |-> order.shares]
<1>1. order.type = "Add"
  BY DEF Adds
<1>2. Applied(b, order) = handle_add(b, order)
  BY <1>1 DEF Applied
<1>3. /\ o \in LiveOrder /\ order.order_ref \in Refs
      /\ handle_add(b, order) = With(b, order.order_ref, o)
  BY AddIsWith DEF Shape
<1>4. ~IsLive(b, order.order_ref)
  BY <1>1 DEF Fresh
<1> HIDE DEF o
<1> QED
  BY <1>2, <1>3, <1>4, WithShape, WithRight DEF Kept

\* An Execute.
LEMMA ExecuteKept ==
    ASSUME NEW b, Shape(b), NEW order \in Executes
    PROVE  Kept(b, Applied(b, order))
<1> DEFINE ref == order.order_ref
<1> DEFINE lo == b.live_orders_[ref]
<1>1. order.type = "Execute"
  BY DEF Executes
<1>2. CASE ~IsLive(b, ref)
  BY <1>1, <1>2 DEF Applied, Kept
<1>3. CASE IsLive(b, ref)
  <2>1. Applied(b, order) = handle_execute(b, order)
    BY <1>1, <1>3 DEF Applied
  <2>2. /\ ref \in Refs
        /\ \/ handle_execute(b, order) = Without(b, ref, lo)
           \/ \E shares \in 1 .. lo.remaining_shares - 1 :
                  handle_execute(b, order) = WithLess(b, ref, lo, shares)
    BY <1>3, ExecuteIsLess DEF Shape
  <2> HIDE DEF ref
  <2>3. CASE handle_execute(b, order) = Without(b, ref, lo)
    BY <1>3, <2>1, <2>2, <2>3, WithoutShape, WithoutRight DEF Kept
  <2>4. ASSUME NEW shares \in 1 .. lo.remaining_shares - 1,
               handle_execute(b, order) = WithLess(b, ref, lo, shares)
        PROVE  Kept(b, Applied(b, order))
    BY <1>3, <2>1, <2>2, <2>4, WithLessShape, WithLessRight DEF Kept
  <2> QED
    BY <2>2, <2>3, <2>4
<1> QED
  BY <1>2, <1>3

\* A Delete.
LEMMA DeleteKept ==
    ASSUME NEW b, Shape(b), NEW order \in Deletes
    PROVE  Kept(b, Applied(b, order))
<1> DEFINE ref == order.order_ref
<1>1. order.type = "Delete"
  BY DEF Deletes
<1>2. CASE ~IsLive(b, ref)
  BY <1>1, <1>2 DEF Applied, Kept
<1>3. CASE IsLive(b, ref)
  <2>1. Applied(b, order) = handle_delete(b, order)
    BY <1>1, <1>3 DEF Applied
  <2>2. ref \in Refs /\ handle_delete(b, order) = Without(b, ref, b.live_orders_[ref])
    BY <1>3, DeleteIsWithout DEF Shape
  <2> HIDE DEF ref
  <2> QED
    BY <1>3, <2>1, <2>2, WithoutShape, WithoutRight DEF Kept
<1> QED
  BY <1>2, <1>3

\* A Replace by a reference that is not live, or by its own.
LEMMA ReplaceKept ==
    ASSUME NEW b, Shape(b), NEW order \in Replaces, Fresh(b, order)
    PROVE  Kept(b, Applied(b, order))
<1> DEFINE ref == order.order_ref
<1> DEFINE lo == b.live_orders_[ref]
<1> DEFINE o == [side |-> lo.side, price |-> order.price, remaining_shares |-> order.shares]
<1> DEFINE b1 == Without(b, ref, lo)
<1> DEFINE b2 == With(b1, order.new_order_ref, o)
<1>1. order.type = "Replace"
  BY DEF Replaces
<1>2. CASE ~IsLive(b, ref)
  BY <1>1, <1>2 DEF Applied, Kept
<1>3. CASE IsLive(b, ref)
  <2>1. Applied(b, order) = handle_replace(b, order)
    BY <1>1, <1>3 DEF Applied
  <2>2. /\ ref \in Refs /\ order.new_order_ref \in Refs /\ o \in LiveOrder
        /\ handle_replace(b, order) = Recalculated(b2)
    BY <1>3, ReplaceIsWithoutThenWith
  <2>3. Shape(b1) /\ (Right(b) => Right(b1))
    BY <1>3, <2>2, WithoutShape, WithoutRight
  <2>4. ~IsLive(b1, order.new_order_ref)
    <3>1. b1.live_orders_ = [b.live_orders_ EXCEPT ![ref] = None]
      BY DEF Without
    <3>2. order.new_order_ref # ref => ~IsLive(b, order.new_order_ref)
      BY <1>1 DEF Fresh
    <3> HIDE DEF b1
    <3> QED
      BY <2>2, <3>1, <3>2 DEF Shape, Books, IsLive
  <2> HIDE DEF ref, lo, o, b1
  <2>5. Shape(b2) /\ (Right(b) /\ InWords(b2) => Right(b2))
    BY <2>2, <2>3, <2>4, WithShape, WithRight
  <2> HIDE DEF b2
  <2>6. InWords(Recalculated(b2)) => InWords(b2)
    BY DEF InWords, Recalculated, Fields
  <2>7. Kept(b, Recalculated(b2))
    BY <2>5, <2>6, RecalculatedOk DEF Kept
  <2> QED
    BY <2>1, <2>2, <2>7
<1> QED
  BY <1>2, <1>3

\* A step of the feed.
LEMMA NextKept ==
    ASSUME Shape(book), [Next]_book
    PROVE  Kept(book, book')
<1>1. CASE UNCHANGED book
  BY <1>1 DEF Kept
<1>2. ASSUME NEW order \in Adds, apply(order) PROVE Kept(book, book')
  BY <1>2, AddKept DEF apply, FreshRefs, Fresh
<1>3. ASSUME NEW order \in Executes, apply(order) PROVE Kept(book, book')
  BY <1>3, ExecuteKept DEF apply
<1>4. ASSUME NEW order \in Deletes, apply(order) PROVE Kept(book, book')
  BY <1>4, DeleteKept DEF apply
<1>5. ASSUME NEW order \in Replaces, apply(order) PROVE Kept(book, book')
  BY <1>5, ReplaceKept DEF apply, FreshRefs, Fresh
<1> QED
  BY <1>1, <1>2, <1>3, <1>4, <1>5 DEF Next

\* The book the feed starts with.
LEMMA EmptyOk == Shape(Empty) /\ Right(Empty)
<1> DEFINE live == [r \in Refs |-> None]
<1>0. Empty = Fields(live, [side \in Sides |-> <<>>], [side \in Sides |-> 0], TRUE)
  BY DEF Empty, Fields
<1>1. LiveMap(live)
  <2>1. {r \in Refs : live[r] # None} = {}
    OBVIOUS
  <2> QED
    BY <2>1, FS_EmptySet DEF LiveMap
<1>2. /\ Empty.live_orders_ = live /\ Empty.complete = TRUE
      /\ \A side \in Sides : Empty.levels[side] = <<>> /\ Empty.best[side] = 0
  BY DEF Empty
<1>3. \A side \in Sides : Array(side, <<>>) /\ Range(<<>>) = {} /\ Top(<<>>) = 0
  BY SizesAssumption DEF Array, Levels, Sorted, Range, Top
<1>4. Empty \in Books
  <2>1. live \in [Refs -> LiveOrder \union {None}]
    OBVIOUS
  <2>2. [side \in Sides |-> <<>>] \in [Sides -> Levels]
    BY DEF Levels
  <2> HIDE DEF live
  <2> QED
    BY <1>0, <2>1, <2>2 DEF Books, Fields
<1>5. Shape(Empty)
  BY <1>1, <1>2, <1>3, <1>4 DEF Shape
<1>6. ASSUME NEW side \in Sides PROVE SideOk(Empty, side)
  <2>1. \A p \in Prices : Orders(live, side)[p] = 0
    <3>1. \A p \in Prices : At(live, side, p) = {}
      BY DEF At
    <3> QED
      BY <3>1, FS_EmptySet DEF Orders
  <2>2. LevelsOk(side, Orders(live, side), Volume(live, side), <<>>, TRUE)
    BY <1>3, <2>1 DEF LevelsOk
  <2>3. BestOk(side, Orders(live, side), <<>>, 0, TRUE)
    BY <1>3 DEF BestOk
  <2> QED
    BY <1>2, <2>2, <2>3 DEF SideOk
<1> QED
  BY <1>5, <1>6 DEF Right

-----------------------------------------------------------------------------
(* The theorems.                                                           *)

\* The shape is the type and the order of the arrays.
LEMMA ShapeIsTyped == Shape(book) => TypeOK /\ LevelsSorted
  BY DEF Shape, Books, Array, Levels, Sorted, TypeOK, LevelsSorted

(* The fields of a book keep their types: every total and count fits in    *)
(* its word, every array in its MAX_LEVELS places.                         *)
THEOREM BookTypeCorrect == Spec => []TypeOK
<1>1. Init => Shape(book)
  BY EmptyOk DEF Init
<1>2. Shape(book) /\ [Next]_book => Shape(book)'
  BY NextKept DEF Kept
<1> QED
  BY <1>1, <1>2, ShapeIsTyped, PTL DEF Spec

(* The arrays binary_find searches stay sorted, through every shift and    *)
(* whatever the totals do.                                                 *)
THEOREM BookStaysSorted == Spec => []LevelsSorted
<1>1. Init => Shape(book)
  BY EmptyOk DEF Init
<1>2. Shape(book) /\ [Next]_book => Shape(book)'
  BY NextKept DEF Kept
<1> QED
  BY <1>1, <1>2, ShapeIsTyped, PTL DEF Spec

\* The shares of the live orders at a price fit in the 32-bit total of a level. The
\* code does not check it: nothing it says of its levels holds beyond.
NoOverflow == \A side \in Sides : \A p \in Prices : SharesAt(side, p) < Word

\* The inductive invariant.
Inv == Shape(book) /\ Right(book)

\* SharesAt of the properties is that sum.
LEMMA SharesAreVolume == ASSUME NEW side \in Sides, NEW p \in Prices
                        PROVE  SharesAt(side, p) = Volume(book.live_orders_, side)[p]
<1>1. LiveAt(side, p) = At(book.live_orders_, side, p)
  BY DEF LiveAt, At, IsLive
<1> QED
  BY <1>1 DEF SharesAt, SharesOf, Volume

\* The bound on the totals of the steps is that of the theorems.
LEMMA WordsSuffice == NoOverflow => InWords(book)
  BY SharesAreVolume DEF NoOverflow, InWords

\* The inductive step: no total may outgrow its word in it.
LEMMA InvStep == Inv /\ InWords(book)' /\ [Next]_book => Inv'
  BY NextKept DEF Inv, Kept

(* Levels and best prices are those of the live orders, of all of them     *)
(* while no level was dropped and of some of them afterwards.              *)
THEOREM BookInvariance == Spec /\ []NoOverflow => []Inv
<1>1. Init => Inv
  BY EmptyOk DEF Init, Inv
<1> QED
  BY <1>1, InvStep, WordsSuffice, PTL DEF Spec

\* The five properties follow.
LEMMA InvImplies ==
    Inv => /\ LevelsMirrorLiveOrders /\ CountBehindByPartials /\ BestIsFirstLevel
           /\ LevelsNeverOverstate /\ BestIsLive
<1> SUFFICES ASSUME Inv
             PROVE  /\ LevelsMirrorLiveOrders /\ CountBehindByPartials /\ BestIsFirstLevel
                    /\ LevelsNeverOverstate /\ BestIsLive
  OBVIOUS
<1> DEFINE live == book.live_orders_
<1>1. \A side \in Sides : \A p \in Prices :
          /\ LiveAt(side, p) = At(live, side, p)
          /\ SharesAt(side, p) = Volume(live, side)[p]
          /\ Cardinality(LiveAt(side, p)) = Orders(live, side)[p]
          /\ LiveAt(side, p) # {} <=> Orders(live, side)[p] > 0
  <2> SUFFICES ASSUME NEW side \in Sides, NEW p \in Prices
               PROVE  /\ LiveAt(side, p) = At(live, side, p)
                      /\ SharesAt(side, p) = Volume(live, side)[p]
                      /\ Cardinality(LiveAt(side, p)) = Orders(live, side)[p]
                      /\ LiveAt(side, p) # {} <=> Orders(live, side)[p] > 0
    OBVIOUS
  <2>1. LiveAt(side, p) = At(live, side, p)
    BY DEF LiveAt, At, IsLive
  <2>2. SharesAt(side, p) = Volume(live, side)[p]
    BY SharesAreVolume
  <2>3. Cardinality(LiveAt(side, p)) = Orders(live, side)[p]
    BY <2>1 DEF Orders
  <2>4. IsFiniteSet(At(live, side, p))
    BY AtIsCounted DEF Inv, Shape, Counted
  <2>5. LiveAt(side, p) # {} <=> Orders(live, side)[p] > 0
    BY <2>1, <2>3, <2>4, FS_EmptySet, FS_CardinalityType
  <2> QED
    BY <2>1, <2>2, <2>3, <2>5
<1>2. ASSUME NEW side \in Sides
      PROVE  /\ SideOk(book, side) /\ Range(book.levels[side]) \in SUBSET LevelType
             /\ book.best[side] \in Prices \union {0}
             /\ Depth(Orders(live, side), Volume(live, side))
             /\ \A level \in Range(book.levels[side]) :
                    level.price \in Prices /\ level.total_shares \in Nat
  <2>1. Array(side, book.levels[side]) /\ SideOk(book, side) /\ book.best[side] \in Prices \union {0}
    BY DEF Inv, Shape, Right, Books
  <2>2. Range(book.levels[side]) \in SUBSET LevelType
    BY <2>1, SortedFacts DEF Array
  <2>3. Depth(Orders(live, side), Volume(live, side))
    BY DepthOfLive DEF Inv, Shape
  <2>4. \A level \in LevelType : level.price \in Prices /\ level.total_shares \in Nat
    BY SizesAssumption DEF LevelType
  <2> QED
    BY <2>1, <2>2, <2>3, <2>4
<1> HIDE DEF live
<1>3. LevelsNeverOverstate
  BY <1>1, <1>2 DEF LevelsNeverOverstate, SideOk, LevelsOk, live
<1>4. BestIsLive
  BY <1>1, <1>2 DEF BestIsLive, SideOk, BestOk, live
<1>5. BestIsFirstLevel
  BY <1>2 DEF BestIsFirstLevel, BBOIsAlwaysFirstLevel, SideOk, BestOk
<1>6. CountBehindByPartials
  <2> SUFFICES ASSUME book.complete, NEW side \in Sides,
                      NEW level \in Range(book.levels[side])
               PROVE  level.order_count =
                          (Cardinality(LiveAt(side, level.price)) - level.partials) % Word
    BY DEF CountBehindByPartials
  <2> DEFINE n == Orders(live, side)
  <2>1. LevelsOk(side, n, Volume(live, side), book.levels[side], TRUE)
    BY <1>2 DEF SideOk, live
  <2> HIDE DEF n
  <2>2. level.order_count = (n[level.price] - level.partials) % Word
    BY <2>1 DEF LevelsOk
  <2>3. Cardinality(LiveAt(side, level.price)) = n[level.price]
    BY <1>1, <1>2 DEF n
  <2> QED
    BY <2>2, <2>3, Zenon
<1>7. LevelsMirrorLiveOrders
  <2> SUFFICES ASSUME book.complete, NEW side \in Sides
               PROVE  /\ {level.price : level \in Range(book.levels[side])} =
                             {p \in Prices : LiveAt(side, p) # {}}
                      /\ \A level \in Range(book.levels[side]) :
                             level.total_shares = SharesAt(side, level.price)
    BY DEF LevelsMirrorLiveOrders
  <2> DEFINE lv == book.levels[side]
  <2>1. LevelsOk(side, Orders(live, side), Volume(live, side), lv, TRUE)
    BY <1>2 DEF SideOk, live
  <2> HIDE DEF lv
  <2>2. \A level \in Range(lv) : level.total_shares = Volume(live, side)[level.price]
    BY <2>1 DEF LevelsOk
  <2>3. \A p \in Prices : LiveAt(side, p) # {} => \E level \in Range(lv) : level.price = p
    BY <1>1, <2>1 DEF LevelsOk
  <2>4. ASSUME NEW level \in Range(lv) PROVE LiveAt(side, level.price) # {}
    <3>1. level.price \in Prices /\ level.total_shares \in 1 .. Volume(live, side)[level.price]
      BY <1>2, <2>1, <2>4 DEF LevelsOk, lv
    <3>2. Volume(live, side)[level.price] \in Nat /\ Orders(live, side)[level.price] \in Nat
          /\ (Orders(live, side)[level.price] = 0 <=> Volume(live, side)[level.price] = 0)
      BY <1>2, <3>1 DEF Depth
    <3>3. Orders(live, side)[level.price] > 0
      BY <3>1, <3>2
    <3> QED
      BY <1>1, <3>1, <3>3
  <2>5. \A level \in Range(lv) : level.price \in Prices
    BY <1>2 DEF lv
  <2> QED
    BY <1>1, <2>2, <2>3, <2>4, <2>5 DEF lv
<1> QED
  BY <1>3, <1>4, <1>5, <1>6, <1>7

(* Until an Add finds its side full there is a level for exactly the       *)
(* prices with a live order, with the shares that are left of them.        *)
THEOREM LevelsAreLiveOrders == Spec /\ []NoOverflow => []LevelsMirrorLiveOrders
  BY BookInvariance, InvImplies, PTL

(* Until then order_count is behind by exactly the partial executions its  *)
(* level has seen, modulo the word, also after it has wrapped.             *)
THEOREM CountIsBehind == Spec /\ []NoOverflow => []CountBehindByPartials
  BY BookInvariance, InvImplies, PTL

(* Until then the best price that Add raises and a removal recalculates is *)
(* the price of the first level.                                           *)
THEOREM BestIsTop == Spec /\ []NoOverflow => []BestIsFirstLevel
  BY BookInvariance, InvImplies, PTL

(* A level never has more shares than the live orders at its price, also   *)
(* after levels were dropped.                                              *)
THEOREM NoSharesInvented == Spec /\ []NoOverflow => []LevelsNeverOverstate
  BY BookInvariance, InvImplies, PTL

(* The best price is that of a live order, at or ahead of the first level, *)
(* and 0 only without levels; also after levels were dropped.              *)
THEOREM BestHasAnOrder == Spec /\ []NoOverflow => []BestIsLive
  BY BookInvariance, InvImplies, PTL

-----------------------------------------------------------------------------
(* When the totals fit.                                                    *)

\* A product, one more of a factor.
LEMMA ProductStep ==
    ASSUME NEW m \in Nat, NEW n \in Nat
    PROVE  m * (n + 1) = m * n + m /\ m * n \in Nat
  BY Z3

\* A product grows with a factor.
LEMMA ProductGrows ==
    ASSUME NEW m \in Nat, NEW n \in Nat, NEW k \in Nat, n <= k
    PROVE  m * n <= m * k
  BY Z3

\* Orders of at most m shares have at most m shares each.
LEMMA SharesBounded ==
    ASSUME NEW live, NEW S, Counted(live, S), NEW m \in Nat,
           \A r \in S : live[r].remaining_shares <= m
    PROVE  SharesOf(live, S) <= m * Cardinality(S)
<1> DEFINE Within(T) == SharesOf(live, T) <= m * Cardinality(T)
<1> DEFINE Wrong == {T \in SUBSET S : ~Within(T)}
<1> DEFINE Sizes == {Cardinality(T) : T \in Wrong}
<1> SUFFICES ASSUME Wrong # {} PROVE FALSE
  OBVIOUS
<1>1. \A T \in SUBSET S : Counted(live, T) /\ IsFiniteSet(T) /\ Cardinality(T) \in Nat
  BY FS_Subset, FS_CardinalityType DEF Counted
<1>2. PICK T \in Wrong : \A U \in Wrong : Cardinality(T) <= Cardinality(U)
  <2>1. Sizes \in SUBSET Nat /\ Sizes # {}
    BY <1>1
  <2> HIDE DEF Sizes
  <2>2. \E x \in Sizes : \A y \in Sizes : x <= y
    BY <2>1, LeastElement
  <2> HIDE DEF Wrong
  <2> QED
    BY <2>2 DEF Sizes
<1>3. T \in SUBSET S /\ ~Within(T)
  OBVIOUS
<1>4. \A U \in SUBSET S : Cardinality(U) < Cardinality(T) => Within(U)
  <2> SUFFICES ASSUME NEW U \in SUBSET S, Cardinality(U) < Cardinality(T), ~Within(U) PROVE FALSE
    OBVIOUS
  <2>1. U \in Wrong
    OBVIOUS
  <2> HIDE DEF Wrong, Within
  <2> QED
    BY <1>1, <1>2, <1>3, <2>1
<1> HIDE DEF Wrong, Sizes
<1>5. /\ SharesOf(live, T) \in Nat
      /\ T = {} => SharesOf(live, T) = 0
      /\ \A x \in T : SharesOf(live, T) = live[x].remaining_shares + SharesOf(live, T \ {x})
  BY <1>1, <1>3, SharesOfFacts
<1>6. PICK x \in T : TRUE
  <2>1. CASE T = {}
    <3>1. Cardinality(T) = 0 /\ SharesOf(live, T) = 0
      BY <1>5, <2>1, FS_EmptySet
    <3> QED
      BY <1>3, <3>1
  <2> QED
    BY <2>1
<1> DEFINE U == T \ {x}
<1>7. /\ U \in SUBSET S /\ Cardinality(U) = Cardinality(T) - 1 /\ Cardinality(U) \in Nat
      /\ Cardinality(T) \in Nat
  BY <1>1, <1>3, <1>6, FS_RemoveElement
<1>8. SharesOf(live, U) \in Nat /\ SharesOf(live, T) = live[x].remaining_shares + SharesOf(live, U)
  <2> HIDE DEF U
  <2>1. SharesOf(live, U) \in Nat
    BY <1>1, <1>7, SharesOfFacts
  <2> QED
    BY <1>5, <1>6, <2>1 DEF U
<1>9. live[x].remaining_shares \in Nat /\ live[x].remaining_shares <= m
  BY <1>3, <1>6 DEF Counted
<1> DEFINE n == Cardinality(U)
<1>10. SharesOf(live, U) <= m * n
  BY <1>4, <1>7
<1>11. m * (n + 1) = m * n + m /\ m * n \in Nat
  BY <1>7, ProductStep
<1>12. n + 1 = Cardinality(T)
  BY <1>7
<1> HIDE DEF U, n
<1>13. SharesOf(live, T) <= m * (n + 1)
  BY <1>8, <1>9, <1>10, <1>11
<1> QED
  BY <1>3, <1>12, <1>13

(* The totals fit whenever all references together could not outgrow a     *)
(* word: the case of the instance TLC checks.                              *)
THEOREM FewOrdersFit ==
    ASSUME IsFiniteSet(Refs), MaxShares * Cardinality(Refs) < Word
    PROVE  Spec => []NoOverflow
<1>1. Init => Shape(book)
  BY EmptyOk DEF Init
<1>2. Shape(book) /\ [Next]_book => Shape(book)'
  BY NextKept DEF Kept
<1>3. Shape(book) => NoOverflow
  <2> SUFFICES ASSUME Shape(book), NEW side \in Sides, NEW p \in Prices
               PROVE  SharesAt(side, p) < Word
    BY DEF NoOverflow
  <2> DEFINE live == book.live_orders_
  <2> DEFINE S == At(live, side, p)
  <2>1. LiveMap(live)
    BY DEF Shape
  <2>2. Counted(live, S) /\ \A r \in S : live[r] \in LiveOrder
    BY <2>1, AtIsCounted
  <2>3. \A r \in S : live[r].remaining_shares <= MaxShares
    BY <2>2, SizesAssumption DEF LiveOrder, Shares
  <2>4. S \in SUBSET Refs
    BY DEF At
  <2>5. SharesAt(side, p) = SharesOf(live, S)
    BY SharesAreVolume DEF Volume
  <2> HIDE DEF live, S
  <2>6. MaxShares \in Nat /\ Word \in Nat
    BY SizesAssumption
  <2>7. SharesOf(live, S) \in Nat /\ SharesOf(live, S) <= MaxShares * Cardinality(S)
    BY <2>2, <2>3, <2>6, SharesBounded, SharesOfFacts
  <2>8. /\ Cardinality(S) \in Nat /\ Cardinality(Refs) \in Nat
        /\ Cardinality(S) <= Cardinality(Refs)
    BY <2>4, FS_Subset, FS_CardinalityType
  <2>9. MaxShares * Cardinality(S) <= MaxShares * Cardinality(Refs)
    BY <2>6, <2>8, ProductGrows
  <2>10. MaxShares * Cardinality(S) \in Nat /\ MaxShares * Cardinality(Refs) \in Nat
    BY <2>6, <2>8, ProductStep
  <2> QED
    BY <2>5, <2>6, <2>7, <2>9, <2>10
<1> QED
  BY <1>1, <1>2, <1>3, PTL DEF Spec

=============================================================================
