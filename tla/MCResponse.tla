----------------------------- MODULE MCResponse -----------------------------
(* Instances of ResponseLoop for TLC.                                      *)
EXTENDS ResponseLoop

CONSTANTS e1, p1, p2, p3

mild    == [event |-> e1, payload |-> p1]
grave   == [event |-> e1, payload |-> p2]
vacuous == [event |-> e1, payload |-> p3]

\* e1 is routed three times, with a mild and a grave answer of the model and one
\* that recommends nothing.
LoopMessages == {mild, grave, vacuous}
LoopMild     == {mild, vacuous}

\* 0.63: below the initial threshold, above it after rejections; 0.90.
LoopConfidence == [m \in Messages |-> IF m = mild THEN 6300 ELSE 9000]
=============================================================================
