-------------------------- MODULE SampleStatistics --------------------------
(***************************************************************************)
(* What is computed from the samples of a metric: the histogram of         *)
(* symbiomon_metric_dump_histogram (src/src/client.c) and the values of    *)
(* symbiomon_provider_metric_reduce and of its batched variant             *)
(* (src/src/provider.c).  How the values reach the store is in Reduction.  *)
(*                                                                         *)
(* A value is an integer number of units, Scale of them to one; the        *)
(* rounding of doubles is not modelled.                                    *)
(***************************************************************************)
EXTENDS Integers, SequencesExt

CONSTANTS
  Values,      \* sample values, in units
  Scale,       \* units in 1.0
  Large,       \* the constant 9999999999, in units
  Buckets,     \* values of num_buckets
  MaxSamples   \* bound: samples in the buffer

ASSUME ValuesAssumption == \A v \in Values : v \in Int /\ v < Large /\ -Large < v
ASSUME BucketsAssumption == Buckets \subseteq Nat
ASSUME UnitsAssumption == Scale \in Nat \ {0} /\ Large \in Nat /\ MaxSamples \in Nat

VARIABLES
  type,     \* of the metric
  buffer,   \* the values of its samples
  hist,     \* the last histogram
  reduced,  \* the values the reductions gave last
  up        \* the process runs

statVars == <<type, buffer, hist, reduced, up>>

SumOf(s) == FoldLeft(LAMBDA sum, v : sum + v, 0, s)

(* What a loop over s leaves in max or min, started from a constant. *)
Largest(from, s) == Max(ToSet(s) \cup {from})
Smallest(from, s) == Min(ToSet(s) \cup {from})

NoHist == [at |-> 0, lo |-> 0, hi |-> 0, counts |-> << >>, over |-> 0]
NoValues == [at |-> 0, SUM |-> 0, MIN |-> 0, MAX |-> 0, BATCHED |-> 0, ANOMALY |-> {}]

StatInit ==
  /\ type \in {"COUNTER", "TIMER", "GAUGE"}
  /\ buffer = << >>
  /\ hist = NoHist
  /\ reduced = NoValues
  /\ up = TRUE

(* symbiomon_metric_update, as far as it decides what values occur.  A counter's
   value is compared, before the mutex is taken, with the sample that was the newest
   then, or with none in an empty buffer, and its sign is not looked at: of the ULTs
   that found the buffer empty each adds what it has, so no order of the values is
   assumed. *)
Update(v) ==
  /\ up
  /\ Len(buffer) < MaxSamples
  /\ type = "TIMER" => v >= 0
  /\ buffer' = Append(buffer, v)
  /\ UNCHANGED <<type, hist, reduced, up>>

-----------------------------------------------------------------------------
(* ((val - min) / (max - min)) * num_buckets, cut to an integer; val >= min. *)
Bucket(v, lo, hi, n) == ((v - lo) * n) \div (hi - lo)

(***************************************************************************)
(* symbiomon_metric_dump_histogram.  max starts from 0, min from a large   *)
(* number.  over counts the samples whose bucket is past the last one: the *)
(* code increments what lies behind the array, and the file does not have  *)
(* them.  With no buckets at all that is every sample.  When max equals    *)
(* min the index is an undefined conversion of 0/0, and the process may    *)
(* end.                                                                    *)
(***************************************************************************)
DumpHistogram(n) ==
  LET lo == Smallest(Large * 1000, buffer)
      hi == Largest(0, buffer)
      In(k) == Cardinality({i \in DOMAIN buffer : Bucket(buffer[i], lo, hi, n) = k})
  IN
  /\ up
  /\ \/ /\ hi > lo \/ buffer = << >>
        /\ hist' = [at |-> Len(buffer), lo |-> lo, hi |-> hi,
                    counts |-> [k \in 1 .. n |-> In(k - 1)], over |-> In(n)]
        /\ UNCHANGED up
     \/ buffer # << >> /\ hi = lo /\ up' = FALSE /\ UNCHANGED hist
  /\ UNCHANGED <<type, buffer, reduced>>

-----------------------------------------------------------------------------
Newest == Last(buffer)

Minimum_ZeroBased ==   \* mutant: the minimum of a gauge started from zero
  IF type = "GAUGE" THEN Smallest(0, buffer) ELSE Newest

(* REDUCTION_OP_MIN and MAX: a gauge's extreme value, the newest value of others. *)
Minimum == IF type = "GAUGE" THEN Smallest(Large, buffer) ELSE Newest

Maximum == IF type = "GAUGE" THEN Largest(-Large, buffer) ELSE Newest

(* REDUCTION_OP_MAX of the batched variant, whatever the type. *)
BatchedMaximum == Largest(-Large, buffer)

(* How far the sample at place i is from the average, times Len(buffer). *)
Deviation(i) == Len(buffer) * buffer[i] - SumOf(buffer)

(* The sum of squared deviations, times Len(buffer)^2; the code calls it sd. *)
Deviations == SumOf([i \in DOMAIN buffer |-> Deviation(i) * Deviation(i)])

(* REDUCTION_OP_ANOMALY: the samples, by their places, farther than 3 * sd from
   the average. *)
Outliers ==
  {i \in DOMAIN buffer :
     \/ Deviation(i) * Len(buffer) * Scale < -(3 * Deviations)
     \/ Deviation(i) * Len(buffer) * Scale > 3 * Deviations}

(* The values for the samples there are; the average is SUM by their number. *)
Reduce ==
  /\ up
  /\ buffer # << >>
  /\ reduced' = [at |-> Len(buffer), SUM |-> SumOf(buffer), MIN |-> Minimum, MAX |-> Maximum,
                 BATCHED |-> BatchedMaximum, ANOMALY |-> Outliers]
  /\ UNCHANGED <<type, buffer, hist, up>>

StatNext ==
  \/ \E v \in Values : Update(v)
  \/ \E n \in Buckets : DumpHistogram(n)
  \/ Reduce

StatSpec == StatInit /\ [][StatNext]_statVars

-----------------------------------------------------------------------------
Dumped == SubSeq(buffer, 1, hist.at)
Reduced == SubSeq(buffer, 1, reduced.at)

(* Every variable has its type. *)
StatTypeOK ==
  /\ type \in {"COUNTER", "TIMER", "GAUGE"}
  /\ buffer \in Seq(Values)
  /\ hist.lo \in Int /\ hist.hi \in Int /\ hist.over \in Nat
  /\ hist.counts \in Seq(Nat)
  /\ hist.at \in 0 .. Len(buffer) /\ reduced.at \in 0 .. Len(buffer)
  /\ Len(buffer) <= MaxSamples
  /\ up \in BOOLEAN

(* The histogram loses no sample but those equal to the largest value, or all if
   it has no bucket, which are counted behind the array: every other one is in a
   bucket that is there.  Samples that are all negative are not lost, for max
   starts from 0 (client.c:192-211). *)
OnlyLargestOverflows ==
  hist.at > 0 =>
    /\ SumOf(hist.counts) + hist.over = hist.at
    /\ hist.over = IF hist.counts = << >> THEN hist.at
                   ELSE Cardinality({i \in DOMAIN Dumped : Dumped[i] = hist.hi})

(* The index is undefined only when the samples are all the same value, and that
   not negative (client.c:194-209). *)
UndefinedOnlyIfEqual ==
  ~up => buffer[1] >= 0 /\ \A i \in DOMAIN buffer : buffer[i] = buffer[1]

(* A gauge's MIN and MAX are samples that bound all others, and its average lies
   between them: the constants the loops start from never win (provider.c:423-461). *)
GaugeExtremes ==
  type = "GAUGE" /\ reduced.at > 0 =>
    /\ reduced.MIN \in ToSet(Reduced) /\ reduced.MAX \in ToSet(Reduced)
    /\ \A i \in DOMAIN Reduced : reduced.MIN <= Reduced[i] /\ Reduced[i] <= reduced.MAX
    /\ reduced.MIN * reduced.at <= reduced.SUM /\ reduced.SUM <= reduced.MAX * reduced.at

(* The batched variant takes the maximum of every type: for gauges that is what
   MAX gives.  For counters and timers MAX is the newest sample, which the batched
   maximum is never below but may be above, for counters too when two ULTs have
   updated them (provider.c:447-461, 578-583). *)
BatchedAgrees ==
  reduced.at > 0 =>
    /\ type = "GAUGE" => reduced.BATCHED = reduced.MAX
    /\ reduced.BATCHED >= reduced.MAX

(* A sample that ANOMALY reports is within a third of the average: 3 * sd, with
   sd a sum of squares, bounds no sample farther away (provider.c:491-501). *)
AnomaliesNear ==
  \A i \in reduced.ANOMALY :
    LET d == reduced.at * Reduced[i] - reduced.SUM IN
    3 * d < reduced.at * Scale /\ -(3 * d) < reduced.at * Scale

(* What reductions and histograms give at the edges of their computations: a
   gauge's extremes, the two variants of the maximum, the samples ANOMALY can
   report, and the samples a histogram counts outside its buckets
   (client.c:192-221, provider.c:389-501, 578-591). *)
StatInv ==
  /\ StatTypeOK /\ GaugeExtremes /\ BatchedAgrees /\ AnomaliesNear
  /\ OnlyLargestOverflows /\ UndefinedOnlyIfEqual
=============================================================================
