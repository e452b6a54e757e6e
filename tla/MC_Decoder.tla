----------------------------- MODULE MC_Decoder -----------------------------
(* An instance of DecodeStream on every buffer of at most MaxStream bytes. *)
(* The same buffers serve as inputs of the functions of DecodeBatch and    *)
(* LatencyTracker, once each, when the walk has returned.                  *)
EXTENDS DecodeStream, DecodeBatch, LatencyTracker

CONSTANTS MaxStream, Width

\* The mask of the ticker filter has the bits of whole groups: 32 in the code.
ASSUME WidthAssumption == Width \in Nat \ {0} /\ Width % Lanes = 0

MCStreams == BoundedSeq(Bytes, MaxStream)

\* Messages of type 1 are two bytes long, of type 2 one byte.
MCMinSize == [t \in Handled |-> IF t = 1 THEN 2 ELSE 1]

(* The vectorised decoder gives what decoding message by message gives,    *)
(* for every number of messages (that of the bytes in the buffer): the     *)
(* shuffle reverses each lane and no more, and the tail takes up where the *)
(* groups end.                                                             *)
BatchIsScalar ==
    returned =>
        decode_add_orders_simd(Len(stream)) = decode_sequentially(Len(stream))

(* The ticker filter, given the bytes of the buffer for ticker keys,       *)
(* answers the same on every build when the batch is made of whole groups, *)
(* even past the width of the mask where bits are shared. (Otherwise the   *)
(* vector builds do not look at the tail.)                                 *)
FilterSameOnEveryBuild ==
    returned /\ Len(stream) % Lanes = 0 =>
        /\ filter_avx2(stream, 1, Width) = filter_scalar(stream, 1, Width)
        /\ filter_neon(stream, 1, Width) = filter_scalar(stream, 1, Width)

(* The scans of experiment 1 count the same orders on every build and in   *)
(* every layout. The bytes of the buffer are tickers, and read backwards   *)
(* the prices, words of two bits. The signed comparison of the AVX2 build  *)
(* agrees as long as no price reaches the sign bit; beyond, it only misses *)
(* orders.                                                                 *)
ScansAgree ==
    returned =>
        LET n == Len(stream)
            prices == [k \in 1 .. n |-> stream[n + 1 - k]]
            orders == [k \in 1 .. n |-> [ticker_key |-> stream[k], price |-> prices[k]]]
            matches == scan_aos(orders, 1, 0)
            avx2 == scan_avx2(stream, prices, 1, 0, 4)
        IN  /\ scan_soa(stream, prices, 1, 0) = matches
            /\ scan_neon(stream, prices, 1, 0) = matches
            /\ avx2 <= matches
            /\ (\A k \in 1 .. n : prices[k] < 2) => avx2 = matches

(* Every percentile that is printed is one, of the samples that were kept, *)
(* whatever the order they were recorded in. The bytes are the latencies   *)
(* or, in experiment 4, the times they are taken from.                     *)
PercentileIsRank ==
    returned /\ stream # <<>> =>
        \A kept \in {Recorded(stream, MaxStream - 1), Latencies(Reverse(stream), stream)} :
            \A p \in {<<1, 2>>, <<9, 10>>, <<99, 100>>, <<1, 1>>} :
                kept # <<>> =>
                    IsPercentile(percentile(sort_samples(kept), p[1], p[2]), kept, p[1], p[2])
=============================================================================
