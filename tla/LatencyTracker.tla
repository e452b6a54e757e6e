--------------------------- MODULE LatencyTracker ---------------------------
(***************************************************************************)
(* struct LatencyTracker of include/pipeline.h: the latencies one thread   *)
(* has sampled, of which the first MAX_SAMPLES are kept, and the           *)
(* percentiles main.cpp prints of them. Experiment 4 takes its percentiles *)
(* from a vector in the same way. The tracker is used by one thread at a   *)
(* time, so its operations are functions. A percentile p is num / den.     *)
(***************************************************************************)
EXTENDS Integers, SequencesExt

\* record(ns) for every latency of a run, in turn. The full array keeps its first
\* samples and drops the new ones.
Recorded(latencies, MAX_SAMPLES) ==
    SubSeq(latencies, 1, Min({Len(latencies), MAX_SAMPLES}))

\* Experiment 4: the times of the messages that were read after they were published.
Latencies(publish_times, consume_times) ==
    LET later == SelectSeq([k \in DOMAIN consume_times |-> k],
                           LAMBDA k : consume_times[k] > publish_times[k])
    IN  [j \in DOMAIN later |-> consume_times[later[j]] - publish_times[later[j]]]

sort_samples(samples) == SortSeq(samples, LAMBDA a, b : a < b)

\* idx is rounded up.
Place_Up(count, num, den) == (num * count + den - 1) \div den

\* idx, from 0
Place(count, num, den) == (num * count) \div den

percentile(samples, num, den) ==
    LET count == Len(samples)
        idx == Place(count, num, den)
    IN  IF count = 0 THEN 0 ELSE samples[Min({idx, count - 1}) + 1]

(* What a percentile means, whatever the order the latencies came in: the  *)
(* least sample with more than p of all the samples at or below it; for    *)
(* p = 1 the largest.                                                      *)
IsPercentile(value, samples, num, den) ==
    LET atMost(v) == Cardinality({k \in DOMAIN samples : samples[k] <= v})
        above(v) == den * atMost(v) > num * Len(samples) \/ atMost(v) = Len(samples)
    IN  /\ value \in Range(samples)
        /\ above(value)
        /\ \A v \in Range(samples) : v < value => ~above(v)
=============================================================================
