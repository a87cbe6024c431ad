--------------------------- MODULE FusionDecision ---------------------------
(***************************************************************************)
(* What the Fusion Engine decides about a set of detector results          *)
(* (layer1/fusion_engine/fusion_engine.py, _fuse and _is_fast_path).       *)
(*                                                                         *)
(* A confidence is an integer in units of 10^-4 (the code rounds to four   *)
(* decimals), a weight is in hundredths (fusion_config.json).              *)
(***************************************************************************)
EXTENDS Integers, FiniteSets

CONSTANTS
  ModelWeight,        \* model_weights: a function on the configured models
  MinConfidence,      \* min_confidence_to_publish, in 10^-4
  FastPathWeight,     \* fast_path_model_weight_threshold, in 10^-2
  FastPathEnabled     \* fast_path_critical

ASSUME WeightsAreHundredths ==
  /\ \A m \in DOMAIN ModelWeight : ModelWeight[m] \in 0..100
  /\ MinConfidence \in 0..10000
  /\ FastPathWeight \in 0..100
  /\ FastPathEnabled \in BOOLEAN

Severities  == {"N/A", "LOW", "MEDIUM", "HIGH", "CRITICAL"}
Confidences == 0..10000

\* model_weights.get(model, default): a model the config does not name still
\* counts with weight 0.5 in _fuse, and with weight 0 for the fast path.
WeightOr(model, default) ==
  IF model \in DOMAIN ModelWeight THEN ModelWeight[model] ELSE default

\* The fast path flag: a CRITICAL result of a model that weighs enough.
IsFastPath(result) ==
  /\ FastPathEnabled
  /\ result.severity = "CRITICAL"
  /\ WeightOr(result.model, 0) >= FastPathWeight

Anomalies(results) == {r \in results : r.detected}

SeverityRank(severity) ==
  CASE severity = "CRITICAL" -> 3
    [] severity = "HIGH"     -> 2
    [] severity = "MEDIUM"   -> 1
    [] OTHER                 -> 0

\* round(confidence * weight, 4). A tie can only fall on a value that no
\* threshold of the configuration separates, so rounding half up is enough.
Weighted(r) == (r.confidence * WeightOr(r.model, 50) + 50) \div 100

FusedConfidence(anomalies) ==
  CHOOSE c \in {Weighted(r) : r \in anomalies} :
    \A r \in anomalies : Weighted(r) <= c

FusedSeverity(anomalies) ==
  (CHOOSE r \in anomalies :
     \A s \in anomalies : SeverityRank(s.severity) <= SeverityRank(r.severity)).severity

FusionType(anomalies) == IF Cardinality(anomalies) >= 2 THEN "compound" ELSE "single"

\* _fuse returns None: every detector said normal, or a lone anomaly is too weak.
Suppressed(results) ==
  LET anomalies == Anomalies(results) IN
  \/ anomalies = {}
  \/ Cardinality(anomalies) = 1 /\ FusedConfidence(anomalies) < MinConfidence

\* The fused event of a result set that is not suppressed.
FusedEvent(results) ==
  LET anomalies == Anomalies(results) IN
  [fusion_type |-> FusionType(anomalies),
   severity    |-> FusedSeverity(anomalies),
   confidence  |-> FusedConfidence(anomalies)]
=============================================================================
