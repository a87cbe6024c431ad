--------------------------- MODULE FeatureComputer ---------------------------
(***************************************************************************)
(* What layer1/feature_store/feature_computers.py computes from a rolling  *)
(* window and the calibration baseline, as far as a detector reads it.  A  *)
(* window is a sequence of [metrics, at], oldest first; metrics are in     *)
(* whole units of the source, times in seconds.  Averages are in           *)
(* hundredths, rounded down.  A z-score is known by the thresholds of the  *)
(* detectors that it passes, which integers tell exactly.                  *)
(***************************************************************************)
EXTENDS Integers, Sequences, FiniteSets

Has(entry, metric) == metric \in DOMAIN entry.metrics

\* all_keys
Carried(w) == UNION {DOMAIN w[i].metrics : i \in DOMAIN w}

\* The values of a metric; an event that does not carry it counts as 0.
Values(w, metric) ==
  [i \in DOMAIN w |-> IF Has(w[i], metric) THEN w[i].metrics[metric] ELSE 0]

Total(values) ==
  LET sum[n \in 0..Len(values)] == IF n = 0 THEN 0 ELSE sum[n - 1] + values[n]
  IN sum[Len(values)]

Squares(values) == [i \in DOMAIN values |-> values[i] * values[i]]

\* seq[-n:]
Latest(seq, n) == SubSeq(seq, IF Len(seq) > n THEN Len(seq) - n + 1 ELSE 1, Len(seq))

\* short_ma (n = 5) and long_ma (n = 20)
Average(values, n) ==
  LET recent == Latest(values, n) IN (100 * Total(recent)) \div Len(recent)

\* n^2 times the squared distance of the latest value from the mean, and n^2
\* times the variance.
Distance(values) ==
  LET d == Len(values) * values[Len(values)] - Total(values) IN d * d
Variance(values) == Len(values) * Total(Squares(values)) - Total(values) * Total(values)

\* Variant: the mean and the deviation are those of the values before.
MutBeyond(values, t) ==
  LET past == SubSeq(values, 1, Len(values) - 1)
      d    == Len(past) * values[Len(values)] - Total(past) IN
  past # <<>> /\ Variance(past) > 0 /\ d * d >= t * t * Variance(past)

\* |z| >= t for the latest value, 0 if all values are equal ...
Beyond(values, t) == Variance(values) > 0 /\ Distance(values) >= t * t * Variance(values)

\* ... and in hundredths, the least value that passes the same thresholds.
ZScore(w, metric) ==
  LET v == Values(w, metric) IN
  IF metric \notin Carried(w) \/ ~Beyond(v, 2) THEN 0
  ELSE IF Beyond(v, 5) THEN 500
  ELSE IF Beyond(v, 4) THEN 400
  ELSE IF Beyond(v, 3) THEN 300
  ELSE IF Distance(v) > 4 * Variance(v) THEN 201 ELSE 200

MovingAverage(w, metric, n) == IF metric \in Carried(w) THEN Average(Values(w, metric), n) ELSE 0

\* _silence_duration, at the time now of the wall clock.
SilenceDuration(w, now) ==
  LET active == {i \in DOMAIN w : Has(w[i], "messages_per_second")
                                  /\ w[i].metrics["messages_per_second"] > 0}
      last   == CHOOSE i \in active : \A j \in active : j <= i
  IN IF active = {} THEN 9999 ELSE IF now > w[last].at THEN now - w[last].at ELSE 0

\* Variant: every reading of the window counts.
MutLastMinute(w) == {i \in DOMAIN w : Has(w[i], "auth_failures_per_min")}

\* The readings of the minute before the latest event.
LastMinute(w) ==
  {i \in DOMAIN w : w[i].at >= w[Len(w)].at - 60 /\ Has(w[i], "auth_failures_per_min")}

\* _auth_rate
AuthRate(w) ==
  LET minute == LastMinute(w)
      rates  == [i \in DOMAIN w |->
                   IF i \in minute THEN w[i].metrics["auth_failures_per_min"] ELSE 0]
  IN IF minute = {} THEN 0 ELSE (100 * Total(rates)) \div Cardinality(minute)

Least(values)    == CHOOSE x \in {values[i] : i \in DOMAIN values} : \A i \in DOMAIN values : x <= values[i]
Greatest(values) == CHOOSE x \in {values[i] : i \in DOMAIN values} : \A i \in DOMAIN values : x >= values[i]

\* np.histogram over ten equal bins between the extremes of expected, the last
\* one closed.
Histogram(values, expected) ==
  LET low == Least(expected)
      high == Greatest(expected)
      InBin(x, b) == /\ 10 * (x - low) >= (b - 1) * (high - low)
                     /\ 10 * (x - low) < b * (high - low) \/ (b = 10 /\ x = high)
  IN [b \in 1..10 |-> Cardinality({i \in DOMAIN values : InBin(values[i], b)})]

\* Proportions in percent of the counted values, at least 1 each.
Clipped(counts) ==
  LET n == Total(counts) IN
  [b \in 1..10 |-> IF 100 * counts[b] < n THEN n ELSE 100 * counts[b]]

\* _psi, as far as whether it is 0: a bin adds (a - e) ln(a / e), which is 0 for
\* equal proportions only.  If no value is within the range of the baseline the
\* proportions are 0/0, and max(0.0, nan) is 0.0.
NoShift(actual, expected) ==
  LET a == Histogram(actual, expected)
      e == Histogram(expected, expected) IN
  \/ Least(expected) = Greatest(expected)
  \/ Total(a) = 0
  \/ \A b \in 1..10 : Clipped(a)[b] * Total(Clipped(e)) = Clipped(e)[b] * Total(Clipped(a))
=============================================================================
