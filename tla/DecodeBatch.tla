----------------------------- MODULE DecodeBatch -----------------------------
(***************************************************************************)
(* The code that works on groups of four: decode_add_orders_simd and       *)
(* filter_tickers_simd of SimdDecoder (include/simd_decoder.h), and the    *)
(* scans of decoded orders that experiment 1 (src/experiments.cpp) times.  *)
(* They are functions of their arguments, so they are operators here.      *)
(*                                                                         *)
(* Bytes of a message are symbols, <<message, field, place>>, so the model *)
(* says which byte ends up where. Vector registers are sequences of lanes  *)
(* or bytes, lowest first.                                                 *)
(***************************************************************************)
EXTENDS Integers, SequencesExt

Lanes == 4

-----------------------------------------------------------------------------
(* decode_add_orders_simd(msgs, n, output). Only price and shares are in   *)
(* another byte order than the host's; the other fields are copied.        *)

\* load_u32_be: the four bytes as they lie in memory.
Load(msg, field) == [k \in 1 .. 4 |-> <<msg, field, k>>]

\* __builtin_bswap32
swap32(bytes) == Reverse(bytes)

\* What the scalar code makes of one message.
Scalar(msg) ==
    [msg |-> msg, ticker |-> msg, price |-> swap32(Load(msg, "price")),
     shares |-> swap32(Load(msg, "shares"))]

\* The loop of experiment 1 that decodes without vectors.
decode_sequentially(n) == [k \in 1 .. n |-> Scalar(k - 1)]

\* _mm_set_epi8 takes the highest byte first.
bswap_mask == <<12, 13, 14, 15, 8, 9, 10, 11, 4, 5, 6, 7, 0, 1, 2, 3>>

\* The mask is taken lowest byte first.
Shuffle_MaskBackwards(register) ==
    [b \in 1 .. 16 |-> register[bswap_mask[b] + 1]]

\* _mm_shuffle_epi8; vrev32q_u8 does the same.
Shuffle(register) == [b \in 1 .. 16 |-> register[bswap_mask[17 - b] + 1]]

\* One field of the messages i .. i + 3, gathered, swapped and stored.
Stored(i, field) ==
    Shuffle(Load(i, field) \o Load(i + 1, field)
                \o Load(i + 2, field) \o Load(i + 3, field))

\* _mm256_set_epi64x takes the highest lane first: whose ticker is in which lane.
Tickers(i) == Reverse(<<i + 3, i + 2, i + 1, i>>)

Lane(register, j) == SubSeq(register, 4 * j + 1, 4 * j + 4)

\* What the vector code makes of message i + j of the group at i.
Vector(i, j) ==
    [msg |-> i + j, ticker |-> Tickers(i)[j + 1], price |-> Lane(Stored(i, "price"), j),
     shares |-> Lane(Stored(i, "shares"), j)]

\* The values of i in "for (; i + 4 <= n; i += 4)".
GroupStarts(n) == {i \in 0 .. n - 1 : i % Lanes = 0 /\ i + Lanes <= n}

\* output: the groups, then the scalar tail.
decode_add_orders_simd(n) ==
    LET grouped == Lanes * Cardinality(GroupStarts(n))
    IN  [k \in 1 .. Max({n, grouped}) |->
            IF k <= grouped
            THEN Vector(((k - 1) \div Lanes) * Lanes, (k - 1) % Lanes)
            ELSE Scalar(k - 1)]

-----------------------------------------------------------------------------
(* filter_tickers_simd(orders, n, target_key): a word with a bit set for   *)
(* every match, here the set of its bits. Only the plain build has a tail. *)

\* The mask is shifted by the place in the batch, not in the word.
filter_avx2_Unwrapped(keys, target, width) ==
    {bit \in 0 .. width - 1 :
        \E i \in GroupStarts(Len(keys)), j \in 0 .. Lanes - 1 :
            keys[i + j + 1] = target /\ bit = i + j}

\* match_mask |= mask << (i % 32); what is shifted out of the word is lost.
filter_avx2(keys, target, width) ==
    {bit \in 0 .. width - 1 :
        \E i \in GroupStarts(Len(keys)), j \in 0 .. Lanes - 1 :
            keys[i + j + 1] = target /\ bit = (i % width) + j}

\* match_mask |= 1u << ((i + j) % 32)
filter_neon(keys, target, width) ==
    {bit \in 0 .. width - 1 :
        \E i \in GroupStarts(Len(keys)), j \in 0 .. Lanes - 1 :
            keys[i + j + 1] = target /\ bit = (i + j) % width}

filter_scalar(keys, target, width) ==
    {(i - 1) % width : i \in {i \in DOMAIN keys : keys[i] = target}}

-----------------------------------------------------------------------------
(* Experiment 1: how many orders of one ticker are above a price, scanning *)
(* an array of orders, an array per field, and vectors of each field.      *)

Above(ticker, price, target, threshold) == ticker = target /\ price > threshold

scan_aos(orders, target, threshold) ==
    Cardinality({k \in DOMAIN orders :
        Above(orders[k].ticker_key, orders[k].price, target, threshold)})

scan_soa(tickers, prices, target, threshold) ==
    Cardinality({k \in DOMAIN tickers : Above(tickers[k], prices[k], target, threshold)})

\* Left to the scalar tail: the places no group covers.
TailOf_None(n) == {}

TailOf(n) == Lanes * Cardinality(GroupStarts(n)) + 1 .. n

\* The groups and the tail; exceeding are the places of the prices that the vector
\* comparison finds above the threshold.
ScanVectors(tickers, prices, target, threshold, exceeding) ==
    LET n == Len(tickers)
        tmask(i) == {j \in 0 .. Lanes - 1 : tickers[i + j + 1] = target}
        pmask(i) == {j \in 0 .. Lanes - 1 : i + j + 1 \in exceeding}
    IN  MapThenSumSet(LAMBDA i : Cardinality(tmask(i) \intersect pmask(i)), GroupStarts(n))
        + Cardinality({k \in TailOf(n) : Above(tickers[k], prices[k], target, threshold)})

\* vcgtq_u32 compares unsigned words.
scan_neon(tickers, prices, target, threshold) ==
    ScanVectors(tickers, prices, target, threshold,
                {k \in DOMAIN prices : prices[k] > threshold})

\* A word of the given size read as a two's complement number.
Signed(w, size) == IF w < size \div 2 THEN w ELSE w - size

\* _mm_cmpgt_epi32 compares signed words.
scan_avx2(tickers, prices, target, threshold, size) ==
    ScanVectors(tickers, prices, target, threshold,
                {k \in DOMAIN prices : Signed(prices[k], size) > Signed(threshold, size)})

=============================================================================
