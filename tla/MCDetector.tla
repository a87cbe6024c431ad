----------------------------- MODULE MCDetector -----------------------------
(***************************************************************************)
(* The detectors on samples at both sides of their thresholds, with the    *)
(* weights of fusion_config.json.                                          *)
(***************************************************************************)
EXTENDS DetectorPool

ConfiguredWeight ==
  [m \in Models |-> CASE m = error -> 80 [] m = throughput -> 75 [] m = auth -> 85
                      [] m = cpu -> 80 [] m = schema -> 70]

Reading(c, e, t, a, s) ==
  [m \in Models |-> CASE m = cpu -> c [] m = error -> e [] m = throughput -> t
                      [] m = auth -> a [] m = schema -> s]

CpuSample(z, c, m)     == [z |-> z, cpu |-> c, mem |-> m]
ErrorSample(z, r)      == [z |-> z, rate |-> r]
FlowSample(w, d, s, l) == [raw |-> w, silence |-> d, short |-> s, long |-> l]
AuthSample(r, v, p)    == [rate |-> r, vote |-> v, proba |-> p]
DriftSample(k, p)      == [marker |-> k, psi |-> p]

CalmCpu   == CpuSample(30, 3000, 4000)
CalmError == ErrorSample(200, 100)
CalmFlow  == FlowSample(12000, 0, 13000, 14000)
CalmAuth  == AuthSample(200, Absent, 0)
CalmDrift == DriftSample(FALSE, 0)

CpuSamples ==
  {CalmCpu, CpuSample(200, 7000, 7000), CpuSample(201, 2000, 2000), CpuSample(300, 0, 0),
   CpuSample(500, 0, 0), CpuSample(0, 7001, 0), CpuSample(0, 8500, 9900), CpuSample(0, 0, 9500)}

ErrorSamples ==
  {CalmError, ErrorSample(201, 0), ErrorSample(400, 0), ErrorSample(500, 0),
   ErrorSample(0, 1000), ErrorSample(0, 1001), ErrorSample(0, 1800), ErrorSample(0, 3000)}

FlowSamples ==
  {CalmFlow, FlowSample(199, 30, 200, 400), FlowSample(199, 29, 200, 400),
   FlowSample(Absent, 9999, 0, 0), FlowSample(12000, 0, 4000, 10000),
   FlowSample(12000, 0, 3999, 10000), FlowSample(12000, 0, 100, 500),
   FlowSample(3999, 0, 9000, 10000), FlowSample(1999, 0, 9000, 10000), FlowSample(0, 9999, 0, 0)}

AuthSamples ==
  {CalmAuth, AuthSample(2000, Absent, 0), AuthSample(2001, 1, 5000), AuthSample(4000, Absent, 0),
   AuthSample(4000, 0, 2000), AuthSample(10000, 0, 1000), AuthSample(10000, 1, 9000)}

DriftSamples == {CalmDrift, DriftSample(FALSE, 90), DriftSample(TRUE, 0), DriftSample(TRUE, 20),
                 DriftSample(TRUE, 50)}

Calm == Reading(CalmCpu, CalmError, CalmFlow, CalmAuth, CalmDrift)

Alarms == {<<cpu, s>> : s \in CpuSamples} \union {<<error, s>> : s \in ErrorSamples}
          \union {<<throughput, s>> : s \in FlowSamples} \union {<<auth, s>> : s \in AuthSamples}
          \union {<<schema, s>> : s \in DriftSamples}

With(r, alarm) == [m \in Models |-> IF m = alarm[1] THEN alarm[2] ELSE r[m]]

\* One detector has something to say, or two of them, one of which is faint.
Faint == {<<error, ErrorSample(201, 0)>>, <<schema, DriftSample(FALSE, 90)>>}
Grave == {<<cpu, CpuSample(300, 0, 0)>>, <<throughput, FlowSample(12000, 0, 100, 500)>>}

SomeReadings ==
  {With(Calm, x) : x \in Alarms} \union {With(With(Calm, y), x) : x \in Grave, y \in Faint}

\* The hypotheses of the theorem on SevereIsPublished hold of this instance.
ASSUME HypothesesHold == NamesDiffer /\ SamplesAreMeasured /\ FortyPercentCounts
=============================================================================
