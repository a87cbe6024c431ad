----------------------------- MODULE Detectors -----------------------------
(***************************************************************************)
(* What the five detectors (layer1/adm/detectors) say about one enriched   *)
(* event.  Rates, percentages and z-scores are in hundredths, seconds are  *)
(* whole, confidences in 10^-4 like those of the Fusion Engine.            *)
(***************************************************************************)
EXTENDS Integers

CONSTANTS cpu, error, throughput, auth, schema   \* the names of the models

Models == {cpu, error, throughput, auth, schema}

NamesDiffer ==
  /\ cpu \notin {error, throughput, auth, schema}
  /\ error \notin {throughput, auth, schema}
  /\ throughput \notin {auth, schema}
  /\ auth # schema

Absent == -1            \* a metric the event does not carry, a vote not given

AtMost(x, bound)  == IF x > bound THEN bound ELSE x
AtLeast(x, bound) == IF x < bound THEN bound ELSE x
Larger(x, y)      == AtLeast(x, y)

\* round(n / d, 4)
Ratio(n, d) == (10000 * n + d \div 2) \div d

Verdict(model, detected, severity, confidence) ==
  [model |-> model, detected |-> detected, confidence |-> confidence,
   severity |-> IF detected THEN severity ELSE "N/A"]

Graded(x, critical, high) ==
  IF x >= critical THEN "CRITICAL" ELSE IF x >= high THEN "HIGH" ELSE "MEDIUM"

\* cpu_spike.py.  sample: z (the larger of the two |z|), cpu, mem
CpuVerdict(s) ==
  LET detected == s.z > 200 \/ s.cpu > 7000 \/ s.mem > 7000
      severity == IF s.z > 200 THEN Graded(s.z, 500, 300)
                  ELSE IF s.cpu > 7000 THEN Graded(s.cpu, 9500, 8500)
                  ELSE Graded(s.mem, 9500, 8500)
      confidence == Larger(AtMost(Ratio(s.z, 600), 9500), AtMost(Larger(s.cpu, s.mem), 9000))
  IN Verdict(cpu, detected, severity, IF detected THEN confidence ELSE 0)

\* error_rate.py.  sample: z (absolute), rate
ErrorVerdict(s) ==
  LET severity == IF s.z > 200 THEN Graded(s.z, 500, 400) ELSE Graded(s.rate, 3000, 1800)
      confidence == Larger(AtMost(Ratio(s.z, 600), 9500), AtMost(Ratio(s.rate, 3000), 9000))
  IN Verdict(error, s.z > 200 \/ s.rate > 1000, severity, confidence)

\* throughput_drop.py.  sample: raw (messages per second or Absent), silence
\* (seconds), short, long (moving averages)
\* Variant: the sentinel of the silence is taken at its word.
MutSilent(s) == s.silence >= 30

Silent(s)  == s.raw # Absent /\ s.raw < 200 /\ s.silence >= 30
Dropped(s) == s.long >= 500 /\ 10 * s.short < 4 * s.long
Low(s)     == s.raw # Absent /\ s.raw < 4000

\* Variant: the ratio of what is left is taken for the drop.
MutDrop(s) == IF s.long > 0 THEN AtMost(Ratio(s.short, 8 * s.long), 9500) ELSE 0

DropConfidence(s) ==
  IF s.long > 0 THEN AtMost(Ratio(10 * AtLeast(s.long - s.short, 0), 8 * s.long), 9500) ELSE 0

ThroughputVerdict(s) ==
  LET severity ==
        IF Silent(s) THEN "CRITICAL"
        ELSE IF Dropped(s) THEN Graded((100 * (s.long - s.short)) \div s.long, 80, 60)
        ELSE IF s.raw < 200 THEN "CRITICAL" ELSE IF s.raw < 2000 THEN "HIGH" ELSE "MEDIUM"
      silence == IF s.raw # Absent THEN AtMost(Ratio(s.silence, 60), 9500) ELSE 0
      raw     == IF Low(s) THEN AtMost(Ratio(4000 - s.raw, 4000), 9000) ELSE 0
  IN Verdict(throughput, Silent(s) \/ Dropped(s) \/ Low(s), severity,
             Larger(Larger(silence, DropConfidence(s)), raw))

\* auth_flood.py: the random forest is asked when it is there, and adjusts.
Voted(confidence, s) ==
  CASE s.vote = Absent -> confidence
    [] s.vote = 1      -> AtMost(confidence + (3 * s.proba + 5) \div 10, 9800)
    [] s.vote = 0      -> AtLeast(confidence - 2000, 3000)

\* sample: rate (per minute), vote (Absent, 0 or 1), proba (10^-4)
AuthVerdict(s) ==
  LET detected == s.rate > 2000 IN
  Verdict(auth, detected, Graded(s.rate, 10000, 4000),
          IF detected THEN Voted(AtMost(s.rate, 9500), s) ELSE 0)

\* schema_drift.py.  sample: marker, psi (hundredths)
SchemaVerdict(s) ==
  Verdict(schema, s.marker, "MEDIUM",
          IF ~s.marker THEN 0 ELSE IF s.psi >= 50 THEN 9000
          ELSE IF s.psi >= 20 THEN 8000 ELSE 7000)

\* A reading has one sample per model.
Detect(model, reading) ==
  CASE model = cpu        -> CpuVerdict(reading[cpu])
    [] model = error      -> ErrorVerdict(reading[error])
    [] model = throughput -> ThroughputVerdict(reading[throughput])
    [] model = auth       -> AuthVerdict(reading[auth])
    [] model = schema     -> SchemaVerdict(reading[schema])
=============================================================================
