---------------------------- MODULE MCDashboard ----------------------------
(* Instances of HitlDashboard for TLC.                                     *)
EXTENDS HitlDashboard

CONSTANTS e1, e2, p1, p2

\* The Strategy Agent died after its publish and asked the model again: the
\* Policy Agent routes the incident twice, with two answers.
TwiceRouted == {[event |-> e1, payload |-> p1], [event |-> e1, payload |-> p2]}

OnceRouted == {[event |-> e1, payload |-> p1], [event |-> e2, payload |-> p1]}
=============================================================================
