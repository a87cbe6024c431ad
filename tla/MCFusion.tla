------------------------------ MODULE MCFusion ------------------------------
(***************************************************************************)
(* The Fusion Engine on small instances: two or three models stand for the *)
(* five of the code, one of them (rogue) unknown to it, which is warned    *)
(* about and stored all the same.                                          *)
(***************************************************************************)
EXTENDS FusionEngine

CONSTANTS strong, light, rogue

\* strong passes the fast path threshold, light does not, rogue has no weight.
MCWeight == [m \in {strong, light} |-> IF m = strong THEN 80 ELSE 70]

Result(e, m, copy, detected, severity, confidence) ==
  [event |-> e, model |-> m, copy |-> copy, detected |-> detected,
   severity |-> severity, confidence |-> confidence]

Normal(e, m, copy) == Result(e, m, copy, FALSE, "N/A", 0)

\* Just below and at the confidence a lone anomaly of weight 80 needs.
Weak(e, m, copy)     == Result(e, m, copy, TRUE, "MEDIUM", 3749)
Medium(e, m, copy)   == Result(e, m, copy, TRUE, "MEDIUM", 3750)
Critical(e, m, copy) == Result(e, m, copy, TRUE, "CRITICAL", 9500)

\* What the detectors can say about one event, strong twice.
OneEventResults ==
  LET e == CHOOSE x \in Events : TRUE IN
  {Normal(e, light, 1), Critical(e, light, 1), Medium(e, rogue, 1),
   Normal(e, strong, 1), Weak(e, strong, 1), Critical(e, strong, 1), Critical(e, strong, 2)}

\* Several events at once, one verdict each, and one redelivery.
ManyEventResults ==
  {Medium(e, strong, 1) : e \in Events} \union {Normal(e, light, 1) : e \in Events}
    \union {Medium(CHOOSE e \in Events : TRUE, strong, 2)}
=============================================================================
