------------------------------ MODULE Routing ------------------------------
(***************************************************************************)
(* The decisions of Layer 2 that depend on one message only: what the      *)
(* Strategy Agent makes of the answer of the language model, and where the *)
(* Policy Agent sends the incident.  Confidences and thresholds are in     *)
(* hundredths.                                                             *)
(*                                                                         *)
(* An answer is [shape, severity, tier, confidence, actions].  Its shape is *)
(*   "silent"      the call timed out or failed                            *)
(*   "unparsable"  no JSON could be extracted from the text                *)
(*   "array"       the text is JSON, but not an object                     *)
(*   "object"      a JSON object; then the other fields tell its content,  *)
(*                 "absent" and Null standing for a missing key and a null *)
(***************************************************************************)
EXTENDS Integers

Null == -1

Shapes     == {"silent", "unparsable", "array", "object"}
Severities == {"LOW", "MEDIUM", "HIGH", "CRITICAL", "absent"}
Tiers      == {"LOW", "HIGH", "MEDIUM", "absent"}

Answer == [shape : Shapes, severity : Severities, tier : Tiers,
           confidence : Int, actions : Nat]

-----------------------------------------------------------------------------
(* schema_validator.py                                                     *)

RISK_TIER_MAP(severity) == IF severity \in {"LOW", "MEDIUM"} THEN "LOW" ELSE "HIGH"

\* Variant: severity and tier are checked one by one only.
MutSchemaValid(answer) ==
  /\ answer.shape = "object"
  /\ answer.severity # "absent"
  /\ answer.tier \in {"LOW", "HIGH"}
  /\ answer.actions = 3
  /\ answer.confidence \in 0..100

\* The seven fields are there and agree.  Nothing downstream reads the verdict.
SchemaValid(answer) ==
  /\ answer.shape = "object"
  /\ answer.severity # "absent"
  /\ answer.tier = RISK_TIER_MAP(answer.severity)
  /\ answer.actions = 3
  /\ answer.confidence \in 0..100

-----------------------------------------------------------------------------
(* strategy_agent.py: the flags of the strategy result.                    *)

\* validate() raises on what is not an object, which counts as a timeout.
TimedOut(answer)  == answer.shape \in {"silent", "array"}
ValidJson(answer) == answer.shape \in {"array", "object"}

-----------------------------------------------------------------------------
(* policy_agent.py                                                         *)

Broken == -1           \* the threshold file is missing, empty or no JSON

\* Variant: the value of the file is taken as it is.
MutLoadThreshold(content) == IF content = Broken THEN 65 ELSE content

LoadThreshold(content) ==
  IF content = Broken THEN 65
  ELSE IF content < 60 THEN 60
  ELSE IF content > 90 THEN 90
  ELSE content

\* The response is read before any rule is applied: llm.get fails on null (no
\* JSON was found) and on an array, float() fails on a null confidence.
RouteRaises(answer) ==
  \/ answer.shape \in {"unparsable", "array"}
  \/ answer.shape = "object" /\ answer.confidence = Null

\* llm.get("risk_tier", "HIGH")
TierRead(answer) == IF answer.tier = "absent" THEN "HIGH" ELSE answer.tier

\* The first rule that applies.
Reason(answer, threshold) ==
  IF TimedOut(answer) THEN "TIMEOUT"
  ELSE IF ~ValidJson(answer) THEN "PARSE_ERROR"
  ELSE IF TierRead(answer) = "HIGH" THEN "HIGH_RISK"
  ELSE IF answer.confidence < threshold THEN "LOW_CONFIDENCE"
  ELSE "LOW_RISK_HIGH_CONFIDENCE"

\* The rule for fusion_type "low_confidence" is left out: the Fusion Engine
\* only produces "single" and "compound" (FusionDecision!FusionType).
Queue(answer, threshold) ==
  IF Reason(answer, threshold) = "LOW_RISK_HIGH_CONFIDENCE"
  THEN "auto.execute" ELSE "hitl.queue"
=============================================================================
