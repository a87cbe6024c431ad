--------------------------- MODULE EventTemplates ---------------------------
(***************************************************************************)
(* What the Synthetic Event Generator (layer1/seg) puts into an event: the *)
(* tables of event_templates.py and what the three kinds of schema drift   *)
(* do to an event.  Metrics are in the units of the source.                *)
(***************************************************************************)
EXTENDS Integers

Spikes == {"cpu_memory_spike", "error_rate_surge", "throughput_drop", "auth_failure_flood"}
Drifts == {"missing_field", "type_mutation", "value_shift"}
Kinds  == Spikes \union Drifts \union {"NORMAL"}

\* COMPONENTS; a value shift is always put on one of the three of schema drift.
COMPONENTS ==
  [k \in Kinds |->
     CASE k = "cpu_memory_spike"   -> {"RabbitMQ consumer", "Isolation Forest process",
                                       "Feature Store", "ADM runner", "SEG process"}
       [] k = "error_rate_surge"   -> {"HTTP gateway", "REST API endpoint",
                                       "Django HITL view", "metrics collector"}
       [] k = "throughput_drop"    -> {"RabbitMQ producer", "anomaly.detected consumer",
                                       "pipeline ingestion worker"}
       [] k = "auth_failure_flood" -> {"SSH daemon", "FTP proxy", "API auth middleware",
                                       "VPN gateway"}
       [] k = "NORMAL"             -> {"RabbitMQ consumer", "HTTP gateway", "Feature Store",
                                       "ADM runner"}
       [] k = "value_shift"        -> {"Loghub replay adapter"}
       [] OTHER                    -> {"SEG output", "external data source",
                                       "Loghub replay adapter"}]

NORMAL_METRICS ==
  [cpu_percent |-> <<10, 55>>, mem_percent |-> <<20, 65>>, messages_per_second |-> <<80, 200>>,
   error_rate_percent |-> <<0, 2>>, auth_failures_per_min |-> <<0, 3>>]

ANOMALY_METRICS ==
  [cpu_memory_spike |->
     [MEDIUM   |-> [cpu_percent |-> <<70, 85>>, mem_percent |-> <<70, 90>>],
      HIGH     |-> [cpu_percent |-> <<85, 95>>, mem_percent |-> <<90, 97>>],
      CRITICAL |-> [cpu_percent |-> <<95, 100>>, mem_percent |-> <<97, 100>>]],
   error_rate_surge |->
     [MEDIUM   |-> [error_rate_percent |-> <<10, 18>>, request_count_per_second |-> <<50, 150>>],
      HIGH     |-> [error_rate_percent |-> <<18, 30>>, request_count_per_second |-> <<50, 150>>],
      CRITICAL |-> [error_rate_percent |-> <<30, 60>>, request_count_per_second |-> <<10, 50>>]],
   throughput_drop |->
     [MEDIUM   |-> [messages_per_second |-> <<20, 40>>],
      HIGH     |-> [messages_per_second |-> <<2, 20>>],
      CRITICAL |-> [messages_per_second |-> <<0, 2>>]],
   auth_failure_flood |->
     [MEDIUM   |-> [auth_failures_per_min |-> <<20, 40>>, src_bytes |-> <<100, 500>>],
      HIGH     |-> [auth_failures_per_min |-> <<40, 100>>, src_bytes |-> <<200, 800>>],
      CRITICAL |-> [auth_failures_per_min |-> <<100, 300>>, src_bytes |-> <<500, 2000>>]]]

\* base.update(spike)
Overwritten(base, spike) ==
  [k \in DOMAIN base \union DOMAIN spike |-> IF k \in DOMAIN spike THEN spike[k] ELSE base[k]]

\* Variant: the spike replaces the normal metrics instead of overwriting them.
MutRanges(kind, severity) ==
  CASE kind \in Spikes      -> ANOMALY_METRICS[kind][severity]
    [] kind = "NORMAL"      -> NORMAL_METRICS
    [] kind = "value_shift" -> [cpu_percent |-> <<60, 99>>, distribution_shift_marker |-> <<1, 1>>]
    [] OTHER                -> [validation_error_count |-> <<1, 5>>]

\* The ranges that an event's metrics are drawn from.
Ranges(kind, severity) ==
  CASE kind \in Spikes      -> Overwritten(NORMAL_METRICS, ANOMALY_METRICS[kind][severity])
    [] kind = "NORMAL"      -> NORMAL_METRICS
    [] kind = "value_shift" -> [cpu_percent |-> <<60, 99>>, distribution_shift_marker |-> <<1, 1>>]
    [] OTHER                -> [validation_error_count |-> <<1, 5>>]

\* Metrics at a quarter of their ranges, with the noise (in percent) of the
\* noise injector, which leaves the marker alone.
Metrics(kind, severity, quarter, noise) ==
  LET range == Ranges(kind, severity) IN
  [k \in DOMAIN range |->
     LET v == range[k][1] + (quarter * (range[k][2] - range[k][1])) \div 4 IN
     IF k = "distribution_shift_marker" THEN v ELSE (v * (100 + noise)) \div 100]

\* What the Validator finds in an event: a drift with a missing field has no
\* severity, one with a mutated type a string for metrics.
Body(kind) == IF kind \in {"missing_field", "type_mutation"} THEN "malformed" ELSE "valid"

\* An event of the factory that passes the Validator, as far as it decides which
\* metrics the windows of its component hold.
Generated(e) ==
  \E kind \in Kinds, severity \in {"MEDIUM", "HIGH", "CRITICAL", "N/A"} :
    /\ Body(kind) = "valid"
    /\ (severity = "N/A") = (kind = "NORMAL")
    /\ e.component \in COMPONENTS[kind]
    /\ DOMAIN e.metrics = DOMAIN Ranges(kind, severity)
=============================================================================
