------------------------- MODULE RingsAndSequences -------------------------
(***************************************************************************)
(* The lemmas the components' proofs share. Rings: position & Mask, that   *)
(* is position % Capacity, tells apart any two positions that are less     *)
(* than Capacity apart. Sequences: what appending does to the set of       *)
(* elements and to their order, and where an element may move within a     *)
(* concatenation without changing it. Sums: adding up over a finite set    *)
(* element by element, in whatever order, gives one number.                *)
(***************************************************************************)
EXTENDS SequenceTheorems, WellFoundedInduction, FiniteSetTheorems, TLAPS

\* A masked position is an index of the ring (journal_, slots_).
LEMMA ModInRing ==
    ASSUME NEW Size \in Nat \ {0}, NEW a \in Nat
    PROVE  a % Size \in 0 .. Size - 1
  BY Z3

\* A position below the size of the ring is its own index.
LEMMA ModSmall ==
    ASSUME NEW Size \in Nat \ {0}, NEW a \in 0 .. Size - 1
    PROVE  a % Size = a
  BY Z3

\* Division with remainder.
LEMMA DivMod ==
    ASSUME NEW Size \in Nat \ {0}, NEW a \in Nat
    PROVE  a = Size * (a \div Size) + (a % Size) /\ a \div Size \in Nat
  BY Z3

\* Multiples of the size are at least the size apart.
LEMMA MultiplesApart ==
    ASSUME NEW Size \in Nat \ {0}, NEW p \in Int, NEW q \in Int, p > q
    PROVE  Size * p >= Size * q + Size
  BY Z3

\* Two positions less than the size apart have different indexes.
LEMMA ModDistinct ==
    ASSUME NEW Size \in Nat \ {0}, NEW a \in Nat, NEW b \in Nat,
           a < b, b < a + Size
    PROVE  a % Size # b % Size
<1> SUFFICES ASSUME a % Size = b % Size PROVE FALSE
  OBVIOUS
<1>1. a = Size * (a \div Size) + (a % Size) /\ a \div Size \in Nat
  BY DivMod
<1>2. b = Size * (b \div Size) + (b % Size) /\ b \div Size \in Nat
  BY DivMod
<1>3. /\ Size * (a \div Size) \in Nat
      /\ Size * (b \div Size) \in Nat
      /\ a % Size \in Nat
  BY <1>1, <1>2, ModInRing
<1>4. Size * (b \div Size) - Size * (a \div Size) = b - a
  BY <1>1, <1>2, <1>3
<1>5. CASE (b \div Size) > (a \div Size)
  <2>1. Size * (b \div Size) >= Size * (a \div Size) + Size
    BY <1>5, MultiplesApart, <1>1, <1>2
  <2> QED  BY <2>1, <1>4, <1>3
<1>6. CASE (b \div Size) = (a \div Size)
  BY <1>6, <1>4, <1>3
<1>7. CASE (b \div Size) < (a \div Size)
  <2>1. Size * (a \div Size) >= Size * (b \div Size) + Size
    BY <1>7, MultiplesApart, <1>1, <1>2
  <2> QED  BY <2>1, <1>4, <1>3
<1> QED
  BY <1>5, <1>6, <1>7, <1>1, <1>2

\* A remainder is the only one of its division.
LEMMA RemainderIsUnique ==
    ASSUME NEW Size \in Nat \ {0}, NEW k \in Int, NEW r \in 0 .. Size - 1
    PROVE  (Size * k + r) % Size = r
<1> DEFINE a == Size * k + r
<1>1. a \in Int
  BY Z3
<1>2. /\ a = Size * (a \div Size) + (a % Size) /\ a \div Size \in Int
      /\ a % Size \in 0 .. Size - 1
  <2> HIDE DEF a
  <2> QED
    BY <1>1, Z3
<1> DEFINE q == a \div Size
<1>3. CASE q = k
  <2>1. Size * q = Size * k
    BY <1>3
  <2>2. Size * k \in Int
    BY Z3
  <2> HIDE DEF q
  <2>3. Size * k + r = Size * k + (a % Size)
    BY <1>2, <2>1 DEF q
  <2> QED
    BY <1>2, <2>2, <2>3
<1>4. CASE q > k
  <2>1. Size * q >= Size * k + Size /\ Size * k \in Int /\ Size * q \in Int
    BY <1>2, <1>4, MultiplesApart, Z3
  <2> QED
    BY <1>2, <2>1
<1>5. CASE k > q
  <2>1. Size * k >= Size * q + Size
    BY <1>2, <1>5, MultiplesApart
  <2>2. Size * k \in Int /\ Size * q \in Int
    BY <1>2, Z3
  <2> QED
    BY <1>2, <2>1, <2>2
<1> QED
  BY <1>2, <1>3, <1>4, <1>5

\* A remainder may be taken before something is added.
LEMMA IntModShift ==
    ASSUME NEW Size \in Nat \ {0}, NEW a \in Int, NEW c \in Int
    PROVE  ((a % Size) + c) % Size = (a + c) % Size
<1> DEFINE b == (a % Size) + c
<1> DEFINE q == a \div Size
<1> DEFINE t == b \div Size
<1>1. /\ a = Size * q + (a % Size) /\ q \in Int /\ a % Size \in Int
  BY Z3
<1>2. b \in Int
  BY <1>1
<1>3. /\ b = Size * t + (b % Size) /\ t \in Int /\ b % Size \in 0 .. Size - 1
  <2> HIDE DEF b
  <2> QED
    BY <1>2, Z3
<1>4. Size * (q + t) = Size * q + Size * t
  <2> HIDE DEF q, t
  <2> QED
    BY <1>1, <1>3, Z3
<1>5. Size * q \in Int /\ Size * t \in Int
  <2> HIDE DEF q, t
  <2> QED
    BY <1>1, <1>3, Z3
<1>6. a + c = Size * (q + t) + (b % Size)
  <2>1. a + c = Size * q + b
    BY <1>1, <1>5
  <2> HIDE DEF b, q, t
  <2> QED
    BY <1>2, <1>3, <1>4, <1>5, <2>1
<1> DEFINE k == q + t
<1> DEFINE rest == b % Size
<1>7. k \in Int /\ rest \in 0 .. Size - 1 /\ a + c = Size * k + rest
  <2> HIDE DEF b, q, t
  <2> QED
    BY <1>1, <1>3, <1>6
<1>8. (a + c) % Size = rest
  <2> HIDE DEF k, rest
  <2>1. (Size * k + rest) % Size = rest
    BY <1>7, RemainderIsUnique
  <2> QED
    BY <1>7, <2>1
<1> QED
  BY <1>8

\* A remainder may be taken before it is subtracted.
LEMMA IntModMinus ==
    ASSUME NEW Size \in Nat \ {0}, NEW a \in Int, NEW c \in Nat
    PROVE  (a - (c % Size)) % Size = (a - c) % Size
<1> DEFINE q == c \div Size
<1> DEFINE r == c % Size
<1> DEFINE b == a - c
<1> DEFINE t == b \div Size
<1>1. c = Size * q + r /\ q \in Int /\ r \in Int
  BY Z3
<1>2. b \in Int
  OBVIOUS
<1>3. b = Size * t + (b % Size) /\ t \in Int /\ b % Size \in 0 .. Size - 1
  <2> HIDE DEF b
  <2> QED
    BY <1>2, Z3
<1>4. /\ Size * (q + t) = Size * q + Size * t
      /\ Size * q \in Int /\ Size * t \in Int
  <2> HIDE DEF q, t
  <2> QED
    BY <1>1, <1>3, Z3
<1>5. a - r = Size * (q + t) + (b % Size)
  <2>1. a - r = b + Size * q
    <3> HIDE DEF q, r
    <3> QED
      BY <1>1, <1>4
  <2> HIDE DEF b, q, r, t
  <2> QED
    BY <1>2, <1>3, <1>4, <2>1
<1> DEFINE k == q + t
<1> DEFINE rest == b % Size
<1>6. k \in Int /\ rest \in 0 .. Size - 1 /\ a - r = Size * k + rest
  <2> HIDE DEF b, q, t, r
  <2> QED
    BY <1>1, <1>3, <1>5
<1>7. (a - r) % Size = rest
  <2> HIDE DEF k, rest, r
  <2>1. (Size * k + rest) % Size = rest
    BY <1>6, RemainderIsUnique
  <2> QED
    BY <1>6, <2>1
<1> QED
  BY <1>7

-----------------------------------------------------------------------------

\* A sequence has the appended element besides those it had.
LEMMA RangeAppend ==
    ASSUME NEW S, NEW seq \in Seq(S), NEW e \in S
    PROVE  Range(Append(seq, e)) = Range(seq) \union {e}
<1>1. /\ Append(seq, e) \in Seq(S) /\ Len(Append(seq, e)) = Len(seq) + 1
      /\ \A k \in 1 .. Len(seq) : Append(seq, e)[k] = seq[k]
      /\ Append(seq, e)[Len(seq) + 1] = e
      /\ Len(seq) \in Nat
  BY AppendProperties, LenProperties
<1>2. Range(Append(seq, e)) = {Append(seq, e)[k] : k \in 1 .. Len(seq) + 1}
  BY <1>1, RangeEquality
<1>3. Range(seq) = {seq[k] : k \in 1 .. Len(seq)}
  BY RangeEquality
<1> QED
  BY <1>1, <1>2, <1>3

\* The empty sequence has no elements.
LEMMA RangeEmpty == Range(<<>>) = {}
<1>1. <<>> \in Seq({}) /\ Len(<<>>) = 0
  BY EmptySeq
<1>2. DOMAIN <<>> = {}
  BY <1>1, LenProperties
<1> QED
  BY <1>2 DEF Range

\* The elements grow from the front to the back.
Ascending(seq) == \A j, k \in DOMAIN seq : j < k => seq[j] < seq[k]

\* It stays so when something larger than all of them is appended.
LEMMA AscendingAppend ==
    ASSUME NEW S \in SUBSET Int, NEW seq \in Seq(S), NEW e \in S, Ascending(seq),
           \A s \in Range(seq) : s < e
    PROVE  Ascending(Append(seq, e))
<1>1. /\ Len(seq) \in Nat /\ DOMAIN seq = 1 .. Len(seq)
      /\ DOMAIN Append(seq, e) = 1 .. Len(seq) + 1
      /\ \A k \in 1 .. Len(seq) : Append(seq, e)[k] = seq[k]
      /\ Append(seq, e)[Len(seq) + 1] = e
  BY AppendProperties, LenProperties
<1>2. \A k \in 1 .. Len(seq) : seq[k] < e
  BY <1>1 DEF Range
<1> QED
  BY <1>1, <1>2 DEF Ascending

\* The head of one part may be the end of the part before it,
LEMMA MoveHead ==
    ASSUME NEW S, NEW front \in Seq(S), NEW rest \in Seq(S), rest # <<>>
    PROVE  (front \o <<Head(rest)>>) \o Tail(rest) = front \o rest
<1>1. /\ Head(rest) \in S /\ Tail(rest) \in Seq(S) /\ Len(Tail(rest)) = Len(rest) - 1
      /\ \A k \in 1 .. Len(Tail(rest)) : Tail(rest)[k] = rest[k + 1]
      /\ Len(rest) \in Nat \ {0} /\ Head(rest) = rest[1]
  BY HeadTailProperties, EmptySeq
<1>2. /\ <<Head(rest)>> \in Seq(S) /\ Len(<<Head(rest)>>) = 1
      /\ <<Head(rest)>>[1] = Head(rest)
  BY <1>1
<1>3. /\ <<Head(rest)>> \o Tail(rest) \in Seq(S)
      /\ Len(<<Head(rest)>> \o Tail(rest)) = Len(rest)
      /\ \A k \in 1 .. Len(rest) :
            (<<Head(rest)>> \o Tail(rest))[k] =
                IF k <= 1 THEN <<Head(rest)>>[k] ELSE Tail(rest)[k - 1]
  BY <1>1, <1>2, ConcatProperties
<1>4. ASSUME NEW k \in 1 .. Len(rest) PROVE (<<Head(rest)>> \o Tail(rest))[k] = rest[k]
  <2>1. CASE k = 1
    BY <1>1, <1>2, <1>3, <2>1
  <2>2. CASE k # 1
    <3>1. k - 1 \in 1 .. Len(Tail(rest)) /\ ~(k <= 1) /\ (k - 1) + 1 = k
      BY <1>1, <2>2
    <3> QED
      BY <1>1, <1>3, <3>1
  <2> QED
    BY <2>1, <2>2
<1>5. <<Head(rest)>> \o Tail(rest) = rest
  BY <1>3, <1>4, SeqEqual
<1> QED
  BY <1>1, <1>2, <1>5, ConcatAssociative

\* and an element between two parts the end of the first.
LEMMA MoveBetween ==
    ASSUME NEW S, NEW front \in Seq(S), NEW e \in S, NEW rest \in Seq(S)
    PROVE  front \o (<<e>> \o rest) = Append(front, e) \o rest
<1>1. <<e>> \in Seq(S)
  OBVIOUS
<1>2. (front \o <<e>>) \o rest = front \o (<<e>> \o rest)
  BY <1>1, ConcatAssociative
<1> QED
  BY <1>2, AppendIsConcat

\* What is appended to the last part is appended to the whole.
LEMMA AppendLast ==
    ASSUME NEW S, NEW front \in Seq(S), NEW rest \in Seq(S), NEW e \in S
    PROVE  front \o Append(rest, e) = Append(front \o rest, e)
<1>1. <<e>> \in Seq(S) /\ front \o rest \in Seq(S)
  BY ConcatProperties
<1>2. (front \o rest) \o <<e>> = front \o (rest \o <<e>>)
  BY <1>1, ConcatAssociative
<1> QED
  BY <1>1, <1>2, AppendIsConcat

\* In an ascending sequence what precedes an element is what is smaller.
LEMMA PrecedingIsSmaller ==
    ASSUME NEW S \in SUBSET Int, NEW front \in Seq(S), NEW e \in S, NEW rest \in Seq(S),
           Ascending(Append(front, e) \o rest)
    PROVE  /\ e \in Range(Append(front, e) \o rest)
           /\ e \notin Range(front)
           /\ \A s \in Range(Append(front, e) \o rest) : s < e => s \in Range(front)
<1> DEFINE whole == Append(front, e) \o rest
<1>0. Ascending(whole)
  OBVIOUS
<1>1. /\ Append(front, e) \in Seq(S) /\ Len(Append(front, e)) = Len(front) + 1
      /\ \A k \in 1 .. Len(front) : Append(front, e)[k] = front[k]
      /\ Append(front, e)[Len(front) + 1] = e
      /\ Len(front) \in Nat /\ Len(rest) \in Nat
  BY AppendProperties, LenProperties
<1>2. /\ whole \in Seq(S) /\ Len(whole) = Len(front) + 1 + Len(rest)
      /\ \A k \in 1 .. Len(front) + 1 + Len(rest) :
            whole[k] = IF k <= Len(front) + 1 THEN Append(front, e)[k]
                                              ELSE rest[k - (Len(front) + 1)]
  BY <1>1, ConcatProperties
<1> HIDE DEF whole
<1>3. \A k \in 1 .. Len(front) + 1 : whole[k] = Append(front, e)[k]
  BY <1>1, <1>2
<1>4. /\ \A k \in 1 .. Len(front) : whole[k] = front[k]
      /\ whole[Len(front) + 1] = e
  BY <1>1, <1>3
<1>5. DOMAIN whole = 1 .. Len(front) + 1 + Len(rest) /\ DOMAIN front = 1 .. Len(front)
  BY <1>2, LenProperties
<1>6. \A k \in 1 .. Len(front) + 1 + Len(rest) : whole[k] \in Int
  BY <1>2, ElementOfSeq
<1>7. e \in Range(whole)
  BY <1>1, <1>4, <1>5 DEF Range
<1>8. ASSUME NEW k \in 1 .. Len(front) PROVE front[k] # e
  <2>1. k \in DOMAIN whole /\ Len(front) + 1 \in DOMAIN whole /\ k < Len(front) + 1
    BY <1>1, <1>5
  <2>2. whole[k] < whole[Len(front) + 1]
    BY <1>0, <2>1 DEF Ascending
  <2> QED
    BY <1>4, <1>6, <2>1, <2>2, <1>5
<1>9. ASSUME NEW k \in DOMAIN whole, whole[k] < e PROVE whole[k] \in Range(front)
  <2>1. ~(Len(front) + 1 < k)
    <3> SUFFICES ASSUME Len(front) + 1 < k PROVE FALSE
      OBVIOUS
    <3>1. Len(front) + 1 \in DOMAIN whole
      BY <1>1, <1>5
    <3>2. e < whole[k]
      BY <1>0, <1>4, <3>1 DEF Ascending
    <3>3. whole[k] \in Int /\ e \in Int
      BY <1>5, <1>6
    <3> QED
      BY <1>9, <3>2, <3>3
  <2>2. k # Len(front) + 1
    BY <1>4, <1>9
  <2>3. k \in 1 .. Len(front)
    BY <1>1, <1>5, <2>1, <2>2
  <2> QED
    BY <1>4, <1>5, <2>3 DEF Range
<1>10. /\ e \in Range(whole) /\ e \notin Range(front)
       /\ \A s \in Range(whole) : s < e => s \in Range(front)
  BY <1>5, <1>7, <1>8, <1>9 DEF Range
<1> QED
  BY <1>10 DEF whole
-----------------------------------------------------------------------------
\* The order of the naturals, as a relation.
NatLess == {pair \in Nat \X Nat : pair[1] < pair[2]}

\* A nonempty set of naturals has a least element.
LEMMA LeastElement ==
    ASSUME NEW S \in SUBSET Nat, S # {}
    PROVE  \E x \in S : \A y \in S : x <= y
<1>1. IsWellFoundedOn(NatLess, Nat)
  BY NatLessThanWellFounded DEF OpToRel, NatLess
<1>2. \E x \in S : \A y \in S : ~(<<y, x>> \in NatLess)
  BY <1>1, WFMin
<1>3. ASSUME NEW x \in Nat, NEW y \in Nat, ~(<<y, x>> \in NatLess) PROVE x <= y
  <2>1. <<y, x>> \in Nat \X Nat /\ <<y, x>>[1] = y /\ <<y, x>>[2] = x
    OBVIOUS
  <2>2. ~(y < x)
    BY <2>1, <1>3 DEF NatLess
  <2> QED  BY <2>2
<1> QED
  BY <1>2, <1>3

-----------------------------------------------------------------------------
(* Sums over finite sets, as MapThenSumSet of the community modules takes  *)
(* them: a function defined at once for all subsets, which picks the       *)
(* elements in an order nobody knows.                                      *)

\* One step of the sum, with g for the rest.
SumStep(weight, g, s) ==
    IF s = {} THEN 0 ELSE weight[CHOOSE x \in s : TRUE] + g[s \ {CHOOSE x \in s : TRUE}]

\* The sum as a function of the set.
IsSum(weight, S, g) == g = [s \in SUBSET S |-> SumStep(weight, g, s)]

Total(weight, S) == (CHOOSE g : IsSum(weight, S, g))[S]

\* A set without one of its elements.
LEMMA OneLess ==
    ASSUME NEW S, IsFiniteSet(S), NEW s \in SUBSET S
    PROVE  /\ IsFiniteSet(s) /\ Cardinality(s) \in Nat
           /\ Cardinality(s) = 0 <=> s = {}
           /\ \A x \in s : /\ s \ {x} \in SUBSET S
                           /\ Cardinality(s \ {x}) = Cardinality(s) - 1
           /\ s # {} => (CHOOSE x \in s : TRUE) \in s
<1>1. IsFiniteSet(s)
  BY FS_Subset
<1>2. Cardinality(s) \in Nat /\ (Cardinality(s) = 0 <=> s = {})
  BY <1>1, FS_CardinalityType, FS_EmptySet
<1>3. ASSUME NEW x \in s PROVE Cardinality(s \ {x}) = Cardinality(s) - 1
  BY <1>1, FS_RemoveElement
<1>4. \A x \in s : s \ {x} \in SUBSET S
  OBVIOUS
<1>5. s # {} => (CHOOSE x \in s : TRUE) \in s
  BY Zenon
<1> QED
  BY <1>1, <1>2, <1>3, <1>4, <1>5

\* There is such a function for every finite set.
LEMMA SumExists ==
    ASSUME NEW weight, NEW S, IsFiniteSet(S)
    PROVE  \E g : IsSum(weight, S, g)
<1> DEFINE Step(g, s) == SumStep(weight, g, s)
<1> DEFINE Size(s) == Cardinality(s)
<1> DEFINE Upto(g, n) == \A s \in SUBSET S : Size(s) < n => g[s] = Step(g, s)
<1> DEFINE Missing == {n \in Nat : ~\E g : Upto(g, n)}
<1>0. \A s \in SUBSET S : Size(s) \in Nat /\ Size(s) <= Size(S)
  BY OneLess, FS_Subset
<1>l. ASSUME NEW g, NEW h, NEW s \in SUBSET S,
             \A t \in SUBSET S : Size(t) < Size(s) => g[t] = h[t]
      PROVE  Step(g, s) = Step(h, s)
  <2>1. CASE s = {}
    BY <2>1 DEF SumStep
  <2>2. CASE s # {}
    <3> DEFINE x == CHOOSE x \in s : TRUE
    <3>1. x \in s
      BY <2>2, OneLess
    <3>2. s \ {x} \in SUBSET S /\ Size(s \ {x}) < Size(s)
      <4> HIDE DEF x
      <4> QED
        BY <1>0, <3>1, OneLess
    <3>3. g[s \ {x}] = h[s \ {x}]
      BY <1>l, <3>2
    <3> QED
      BY <2>2, <3>3 DEF SumStep
  <2> QED
    BY <2>1, <2>2
<1> HIDE DEF Step, Size
<1>1. \A n \in Nat : \E g : Upto(g, n)
  <2> SUFFICES ASSUME Missing # {} PROVE FALSE
    OBVIOUS
  <2>1. PICK n \in Missing : \A m \in Missing : n <= m
    <3> HIDE DEF Missing
    <3>1. Missing \in SUBSET Nat
      BY DEF Missing
    <3> QED
      BY <3>1, LeastElement
  <2>2. CASE n = 0
    <3> DEFINE g == 0
    <3>1. Upto(g, 0)
      BY <1>0
    <3> QED
      BY <2>1, <2>2, <3>1
  <2>3. CASE n # 0
    <3>1. n - 1 \in Nat /\ n - 1 \notin Missing
      BY <2>1, <2>3
    <3>2. PICK g : Upto(g, n - 1)
      BY <3>1
    <3> DEFINE h == [s \in SUBSET S |-> IF Size(s) < n - 1 THEN g[s] ELSE Step(g, s)]
    <3>3. \A s \in SUBSET S : h[s] = IF Size(s) < n - 1 THEN g[s] ELSE Step(g, s)
      OBVIOUS
    <3> HIDE DEF h
    <3>4. ASSUME NEW s \in SUBSET S, Size(s) < n
          PROVE  h[s] = Step(h, s)
      <4>1. \A t \in SUBSET S : Size(t) < Size(s) => g[t] = h[t]
        BY <1>0, <3>1, <3>3, <3>4
      <4>2. Step(g, s) = Step(h, s)
        BY <4>1, <1>l
      <4>3. h[s] = Step(g, s)
        BY <3>2, <3>3
      <4> QED
        BY <4>2, <4>3
    <3>5. Upto(h, n)
      BY <3>4
    <3> QED
      BY <2>1, <3>5
  <2> QED
    BY <2>2, <2>3
<1>s. Size(S) \in Nat
  BY <1>0
<1>2. PICK g : Upto(g, Size(S) + 1)
  BY <1>1, <1>s
<1> DEFINE h == [s \in SUBSET S |-> Step(g, s)]
<1>3. \A s \in SUBSET S : g[s] = h[s]
  BY <1>0, <1>2
<1>4. \A s \in SUBSET S : Step(g, s) = Step(h, s)
  <2> HIDE DEF h
  <2> QED
    BY <1>3, <1>l
<1>5. h = [s \in SUBSET S |-> Step(h, s)]
  <2> DEFINE k == [s \in SUBSET S |-> Step(h, s)]
  <2>1. \A s \in SUBSET S : h[s] = k[s]
    <3> HIDE DEF h, k
    <3> QED BY <1>4 DEF h, k
  <2> QED
    BY <2>1
<1> QED
  BY <1>5 DEF IsSum, Step

\* A finite set of things to add up.
Weighed(weight, S) == IsFiniteSet(S) /\ \A x \in S : weight[x] \in Nat

\* The sum does not depend on the order it is taken in, nor on what is outside the set.
LEMMA SumFacts ==
    ASSUME NEW weight, NEW S, Weighed(weight, S), NEW g, IsSum(weight, S, g)
    PROVE  \A s \in SUBSET S :
               g[s] \in Nat /\ \A x \in s : g[s] = weight[x] + g[s \ {x}]
<1> DEFINE Right(s) == g[s] \in Nat /\ \A x \in s : g[s] = weight[x] + g[s \ {x}]
<1> DEFINE Wrong == {s \in SUBSET S : ~Right(s)}
<1> DEFINE Sizes == {Cardinality(s) : s \in Wrong}
<1> SUFFICES ASSUME Wrong # {} PROVE FALSE
  OBVIOUS
<1>0. \A x \in S : weight[x] \in Nat
  BY DEF Weighed
<1>f. IsFiniteSet(S)
  BY DEF Weighed
<1>1. PICK s \in Wrong : \A t \in Wrong : Cardinality(s) <= Cardinality(t)
  <2>1. \A t \in Wrong : Cardinality(t) \in Nat
    BY <1>f, OneLess
  <2>2. Sizes \in SUBSET Nat /\ Sizes # {}
    BY <2>1
  <2> HIDE DEF Sizes
  <2>3. \E x \in Sizes : \A y \in Sizes : x <= y
    BY <2>2, LeastElement
  <2> QED
    BY <2>3 DEF Sizes
<1>2. s \in SUBSET S /\ ~Right(s)
  BY <1>1
<1>3. ASSUME NEW t \in SUBSET S, Cardinality(t) < Cardinality(s) PROVE Right(t)
  <2> SUFFICES ASSUME ~Right(t) PROVE FALSE
    OBVIOUS
  <2>1. t \in Wrong
    OBVIOUS
  <2>2. Cardinality(s) \in Nat /\ Cardinality(t) \in Nat
    BY <1>2, <1>f, OneLess
  <2> HIDE DEF Wrong, Right
  <2> QED
    BY <1>1, <1>3, <2>1, <2>2
<1>4. g[s] = SumStep(weight, g, s)
  BY <1>2 DEF IsSum
<1> HIDE DEF Wrong, Sizes
<1>5. CASE s = {}
  BY <1>2, <1>4, <1>5 DEF SumStep
<1>6. CASE s # {}
  <2> DEFINE c == CHOOSE x \in s : TRUE
  <2>1. c \in s
    BY <1>2, <1>6, <1>f, OneLess
  <2>2. g[s] = weight[c] + g[s \ {c}]
    BY <1>4, <1>6 DEF SumStep
  <2> HIDE DEF c
  <2>3. \A x \in s : s \ {x} \in SUBSET S /\ Cardinality(s \ {x}) < Cardinality(s)
    BY <1>2, <1>f, OneLess
  <2>4. \A x \in s : Right(s \ {x})
    <3> HIDE DEF Right
    <3> QED
      BY <1>3, <2>3
  <2>5. g[s] \in Nat
    <3>1. Right(s \ {c})
      <4> HIDE DEF Right
      <4> QED
        BY <2>1, <2>4
    <3>2. g[s \ {c}] \in Nat /\ weight[c] \in Nat
      BY <1>0, <1>2, <2>1, <3>1
    <3> QED
      BY <2>2, <3>2
  <2>6. ASSUME NEW x \in s PROVE g[s] = weight[x] + g[s \ {x}]
    <3>1. CASE x = c
      BY <2>2, <3>1
    <3>2. CASE x # c
      <4>1. g[s \ {c}] = weight[x] + g[(s \ {c}) \ {x}]
        BY <2>1, <2>4, <3>2
      <4>2. g[s \ {x}] = weight[c] + g[(s \ {x}) \ {c}]
        BY <2>1, <2>4, <3>2
      <4>3. (s \ {c}) \ {x} = (s \ {x}) \ {c}
        OBVIOUS
      <4>4. (s \ {x}) \ {c} \in SUBSET S /\ c \in s \ {x}
        BY <1>2, <2>1, <3>2
      <4> DEFINE t == s \ {x}
      <4> DEFINE u == t \ {c}
      <4>5. t \in SUBSET S /\ c \in t /\ u \in SUBSET S
        BY <1>2, <4>4
      <4>6. Cardinality(t) < Cardinality(s) /\ Cardinality(s) \in Nat /\ Cardinality(t) \in Nat
        BY <1>2, <1>f, <2>3, <4>5, OneLess
      <4>7. Cardinality(u) < Cardinality(t) /\ Cardinality(u) \in Nat
        <5> HIDE DEF t
        <5> QED
          BY <1>f, <4>5, <4>6, OneLess
      <4>8. g[u] \in Nat
        <5>1. Right(u)
          <6> HIDE DEF Right, u, t
          <6> QED
            BY <1>3, <4>5, <4>6, <4>7
        <5> QED
          BY <5>1
      <4>9. weight[x] \in Nat /\ weight[c] \in Nat
        BY <1>0, <1>2, <2>1
      <4>10. g[s \ {c}] = weight[x] + g[u]
        BY <4>1, <4>3
      <4> QED
        BY <2>2, <4>2, <4>8, <4>9, <4>10
    <3> QED
      BY <3>1, <3>2
  <2> QED
    BY <1>2, <2>5, <2>6
<1> QED
  BY <1>5, <1>6

\* Weights that agree on a set give it the same sum.
LEMMA SumsAgree ==
    ASSUME NEW weight, NEW S, Weighed(weight, S), NEW g, IsSum(weight, S, g),
           NEW weight2, NEW S2, Weighed(weight2, S2), NEW h, IsSum(weight2, S2, h),
           NEW t \in SUBSET (S \intersect S2),
           \A x \in t : weight2[x] = weight[x]
    PROVE  g[t] = h[t]
<1> DEFINE Wrong == {s \in SUBSET t : g[s] # h[s]}
<1> DEFINE Sizes == {Cardinality(s) : s \in Wrong}
<1> SUFFICES ASSUME Wrong # {} PROVE FALSE
  OBVIOUS
<1>0. IsFiniteSet(S) /\ IsFiniteSet(S2) /\ t \in SUBSET S /\ t \in SUBSET S2
  BY DEF Weighed
<1>1. PICK s \in Wrong : \A u \in Wrong : Cardinality(s) <= Cardinality(u)
  <2>1. \A u \in Wrong : Cardinality(u) \in Nat
    BY <1>0, OneLess
  <2>2. Sizes \in SUBSET Nat /\ Sizes # {}
    BY <2>1
  <2> HIDE DEF Sizes
  <2>3. \E x \in Sizes : \A y \in Sizes : x <= y
    BY <2>2, LeastElement
  <2> QED
    BY <2>3 DEF Sizes
<1>2. s \in SUBSET S /\ s \in SUBSET S2 /\ s \in SUBSET t /\ g[s] # h[s]
  BY <1>0, <1>1
<1>3. CASE s = {}
  BY <1>2, <1>3 DEF IsSum, SumStep
<1>4. CASE s # {}
  <2>1. PICK x \in s : TRUE
    BY <1>4
  <2>2. /\ g[s] = weight[x] + g[s \ {x}]
        /\ h[s] = weight2[x] + h[s \ {x}]
    BY <1>2, SumFacts
  <2>3. Cardinality(s \ {x}) < Cardinality(s) /\ Cardinality(s) \in Nat /\ Cardinality(s \ {x}) \in Nat
    BY <1>0, <1>2, OneLess
  <2>4. s \ {x} \notin Wrong
    <3> HIDE DEF Wrong
    <3> QED
      BY <1>1, <2>3
  <2>5. g[s \ {x}] = h[s \ {x}]
    BY <1>2, <2>4
  <2> QED
    BY <1>2, <2>2, <2>5
<1> QED
  BY <1>3, <1>4

\* What is needed of the sum.
LEMMA TotalFacts ==
    ASSUME NEW weight, NEW S, Weighed(weight, S)
    PROVE  /\ Total(weight, S) \in Nat
           /\ S = {} => Total(weight, S) = 0
           /\ \A x \in S : Total(weight, S) = weight[x] + Total(weight, S \ {x})
<1> DEFINE g == CHOOSE g : IsSum(weight, S, g)
<1>1. IsSum(weight, S, g)
  BY SumExists DEF Weighed
<1>2. Total(weight, S) = g[S]
  BY DEF Total
<1> HIDE DEF g
<1>3. S \in SUBSET S
  OBVIOUS
<1>4. S = {} => g[S] = 0
  BY <1>1, <1>3 DEF IsSum, SumStep
<1>5. ASSUME NEW x \in S PROVE Total(weight, S \ {x}) = g[S \ {x}]
  <2> DEFINE T == S \ {x}
  <2> DEFINE h == CHOOSE h : IsSum(weight, T, h)
  <2>1. Weighed(weight, T)
    BY FS_RemoveElement DEF Weighed
  <2>2. IsSum(weight, T, h)
    BY <2>1, SumExists DEF Weighed
  <2>3. Total(weight, T) = h[T]
    BY DEF Total
  <2>4. T \in SUBSET (T \intersect S)
    OBVIOUS
  <2> HIDE DEF T, h
  <2>5. h[T] = g[T]
    BY <1>1, <2>1, <2>2, <2>4, SumsAgree
  <2> QED
    BY <2>3, <2>5 DEF T
<1>6. g[S] \in Nat /\ \A x \in S : g[S] = weight[x] + g[S \ {x}]
  BY <1>1, <1>3, SumFacts
<1> QED
  BY <1>2, <1>4, <1>5, <1>6

\* Any function that fits gives the sum.
LEMMA TotalIs ==
    ASSUME NEW weight, NEW S, Weighed(weight, S), NEW g, IsSum(weight, S, g)
    PROVE  g[S] = Total(weight, S)
<1> DEFINE h == CHOOSE h : IsSum(weight, S, h)
<1>1. IsSum(weight, S, h)
  BY SumExists DEF Weighed
<1>2. Total(weight, S) = h[S]
  BY DEF Total
<1> HIDE DEF h
<1>3. S \in SUBSET (S \intersect S)
  OBVIOUS
<1>4. g[S] = h[S]
  BY <1>1, <1>3, SumsAgree
<1> QED
  BY <1>2, <1>4

\* Things that keep their weights keep their sum.
LEMMA TotalSame ==
    ASSUME NEW weight, NEW weight2, NEW S, Weighed(weight, S),
           \A x \in S : weight2[x] = weight[x]
    PROVE  Total(weight2, S) = Total(weight, S)
<1> DEFINE g == CHOOSE g : IsSum(weight, S, g)
<1> DEFINE h == CHOOSE h : IsSum(weight2, S, h)
<1>0. Weighed(weight2, S) /\ S \in SUBSET (S \intersect S)
  BY DEF Weighed
<1>1. IsSum(weight, S, g) /\ IsSum(weight2, S, h)
  BY <1>0, SumExists DEF Weighed
<1>2. Total(weight, S) = g[S] /\ Total(weight2, S) = h[S]
  BY DEF Total
<1> HIDE DEF g, h
<1>3. g[S] = h[S]
  BY <1>0, <1>1, SumsAgree
<1> QED
  BY <1>2, <1>3

=============================================================================
