------------------------------- MODULE Scoring -------------------------------
(***************************************************************************)
(* From the metrics that events carry to the verdicts of the detectors:    *)
(* the rolling windows of the Feature Store, the features computed from    *)
(* them (FeatureComputer) and what the detectors make of these (Detectors).*)
(***************************************************************************)
EXTENDS FeatureStore, Detectors

CONSTANTS Lags    \* how long after its timestamp an event can be scored

ASSUME LagsAreTimes == Lags \subseteq Nat

\* A metric is a rate, a percentage or a count (event_templates.py).
ASSUME MetricsAreMeasured ==
  \A e \in Arrivals : e.at \in Nat /\ \A m \in DOMAIN e.metrics : e.metrics[m] \in Nat

Entries(positions) ==
  [i \in DOMAIN positions |->
     [metrics |-> stream[positions[i]].metrics, at |-> stream[positions[i]].at]]

\* The metric of the event that the window ends with.
Raw(w, metric, default) ==
  LET event == w[Len(w)] IN IF Has(event, metric) THEN 100 * event.metrics[metric] ELSE default

\* The samples of the detectors, see Detectors; the random forest is not asked.
CpuSample(w) ==
  [z |-> Larger(ZScore(w, "cpu_percent"), ZScore(w, "mem_percent")),
   cpu |-> Raw(w, "cpu_percent", 0), mem |-> Raw(w, "mem_percent", 0)]

ErrorSample(w) ==
  [z |-> ZScore(w, "error_rate_percent"), rate |-> Raw(w, "error_rate_percent", 0)]

ThroughputSample(w, now) ==
  [raw |-> Raw(w, "messages_per_second", Absent), silence |-> SilenceDuration(w, now),
   short |-> MovingAverage(w, "messages_per_second", 5),
   long |-> MovingAverage(w, "messages_per_second", 20)]

AuthSample(w) == [rate |-> AuthRate(w), vote |-> Absent, proba |-> 0]

\* The values of a metric that the baseline of the event in hand was recorded
\* from.
BaselineValues(metric) ==
  LET carrying == {p \in calibrator[Component].events : Has(stream[p], metric)}
      nth(i)   == CHOOSE p \in carrying : Cardinality({q \in carrying : q <= p}) = i
  IN [i \in 1..Cardinality(carrying) |-> stream[nth(i)].metrics[metric]]
-----------------------------------------------------------------------------
(* Properties                                                              *)

\* The window of the event that has just been fanned out.
Scored == Entries(Latest(window[Key], WindowSize))

Severe == {"HIGH", "CRITICAL"}

\* A window that is too short to say so raises no alarm: after a start or a
\* restart, when baselines are restored and windows are not, CPU and error rate
\* are judged by the raw thresholds for four events, and no deviation is rated
\* HIGH before the 10th (errors: the 17th) or CRITICAL before the 26th.
ShortWindowIsRaw ==
  apc = "fanned" =>
    LET n == Len(Scored)
        load == CpuSample(Scored)
        errors == ErrorSample(Scored)
        high == Larger(load.cpu, load.mem)
        onLoad == CpuVerdict(load)
        onErrors == ErrorVerdict(errors)
    IN /\ n < 5 => (onLoad.detected <=> high > 7000) /\ (onErrors.detected <=> errors.rate > 1000)
       /\ n < 10 /\ onLoad.severity \in Severe => high >= 8500
       /\ n < 17 /\ onErrors.severity \in Severe => errors.rate >= 1800
       /\ n < 26 /\ onLoad.severity = "CRITICAL" => high >= 9500
       /\ n < 26 /\ onErrors.severity = "CRITICAL" => errors.rate >= 3000

\* An authentication alarm is about the last minute: one reading of it at least
\* is over the threshold, whatever older floods the window still holds; and
\* when all of them are, the alarm is raised, whatever calm it still holds.
FloodIsOfTheMinute ==
  apc = "fanned" =>
    LET minute == {i \in DOMAIN Scored : /\ Scored[i].at >= Scored[Len(Scored)].at - 60
                                         /\ Has(Scored[i], "auth_failures_per_min")}
        over   == {i \in minute : Scored[i].metrics["auth_failures_per_min"] > 20}
        alarm  == AuthVerdict(AuthSample(Scored)).detected
    IN /\ alarm => over # {}
       /\ minute # {} /\ over = minute => alarm

\* Some of the last five readings is below 40 % of some of the last twenty.
HasFallen(w) ==
  LET flow    == Values(w, "messages_per_second")
      last(n) == {i \in DOMAIN w : i > Len(w) - n}
  IN \E i \in last(5), j \in last(20) : 10 * flow[i] < 4 * flow[j]

LowReadings == 0..3999

\* An alarm needs a low reading, or a fall among the readings.
NoneOrCause(w, now) ==
  LET s == ThroughputSample(w, now) IN
  ThroughputVerdict(s).detected => s.raw \in LowReadings \/ HasFallen(w)

\* That a throughput alarm is raised does not depend on how late an event is scored
\* (a replay of an old corpus, a long queue), but on the readings.  How confident
\* and how severe it is does depend on it.
DropHasCause ==
  apc = "fanned" => \A lag \in Lags : NoneOrCause(Scored, Scored[Len(Scored)].at + lag)

\* The metrics that a detector reads the statistics of.
Watched == {"cpu_percent", "mem_percent", "error_rate_percent", "messages_per_second"}

\* The events of one node and component that pass the Validator do.
CarryTheSame ==
  \A e, f \in Arrivals : WindowKey(e) = WindowKey(f) =>
    Watched \cap DOMAIN e.metrics = Watched \cap DOMAIN f.metrics

\* A metric that an event does not carry counts as 0 in the statistics; no
\* generated event is compared with such a zero.
NoFictitiousZero ==
  apc = "fanned" =>
    \A metric \in Watched, i, j \in DOMAIN Scored :
      Has(Scored[i], metric) => Has(Scored[j], metric)

\* "The baseline defines normal - we measure how actual deviates" (feature_
\* computers.py:174), ">= 0.5 -> severe shift" (:165): if no reading of a window
\* is in the range of its baseline, the score is not 0.
ShiftIsScored ==
  apc = "fanned" =>
    \A metric \in Carried(Scored) :
      LET expected == BaselineValues(metric)
          actual   == Values(Scored, metric)
          inside   == {i \in DOMAIN actual : actual[i] \in Least(expected)..Greatest(expected)} IN
      expected # <<>> /\ Least(expected) # Greatest(expected) /\ inside = {}
        => ~NoShift(actual, expected)
=============================================================================
