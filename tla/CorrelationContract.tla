------------------------- MODULE CorrelationContract -------------------------
(***************************************************************************)
(* What the Fusion Engine promises about an event, without queues, clocks  *)
(* or detectors: it is gathered, closed once, and then decided once.  A    *)
(* restart of the engine forgets everything but what was published.        *)
(***************************************************************************)
EXTENDS Naturals, Sequences

CONSTANTS Events

VARIABLES
  gathering,    \* events with results under correlation
  closed,       \* events this process has finalized
  undecided,    \* closed events whose outcome is not known yet: at most one
  delivered     \* the events published, in order

vars == <<gathering, closed, undecided, delivered>>

Init ==
  /\ gathering = {}
  /\ closed = {}
  /\ undecided = {}
  /\ delivered = <<>>

Gather(e) ==
  /\ e \notin closed
  /\ gathering' = gathering \union {e}
  /\ UNCHANGED <<closed, undecided, delivered>>

\* An event may be closed by its very first result, when that is all it needs.
Close(e) ==
  /\ e \notin closed
  /\ undecided = {}
  /\ gathering' = gathering \ {e}
  /\ closed' = closed \union {e}
  /\ undecided' = {e}
  /\ UNCHANGED delivered

Drop(e) ==
  /\ undecided = {e}
  /\ undecided' = {}
  /\ UNCHANGED <<gathering, closed, delivered>>

Deliver(e) ==
  /\ undecided = {e}
  /\ undecided' = {}
  /\ delivered' = Append(delivered, e)
  /\ UNCHANGED <<gathering, closed>>

Restart ==
  /\ gathering' = {}
  /\ closed' = {}
  /\ undecided' = {}
  /\ UNCHANGED delivered

Next ==
  \/ \E e \in Events : Gather(e) \/ Close(e) \/ Drop(e) \/ Deliver(e)
  \/ Restart

Spec == Init /\ [][Next]_vars
=============================================================================
