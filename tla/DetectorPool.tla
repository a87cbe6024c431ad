---------------------------- MODULE DetectorPool ----------------------------
(***************************************************************************)
(* The five detector processes (layer1/adm/detectors, on_message) between  *)
(* detection.fanout, which copies an event to the queue of each of them,   *)
(* and fusion.results.  Every detector handles one event at a time:        *)
(* detect, publish, append to its file, acknowledge; a failure in between  *)
(* requeues the event.                                                     *)
(***************************************************************************)
EXTENDS Detectors, FusionDecision, Sequences

CONSTANTS
  Events,      \* event ids
  Readings,    \* what the detectors can find in an event: model -> sample
  MaxFaults,   \* bound: how many deaths and failed steps there are
  None         \* not fanned out yet

ASSUME PoolBound == MaxFaults \in Nat

VARIABLES
  reading,     \* event -> None or what the detectors find in it
  queue,       \* model -> its queue
  place,       \* model -> where its thread is: idle, published, written
  answers,     \* <<event, model>> -> how often the result was published
  faults       \* deaths and failed steps so far

vars == <<reading, queue, place, answers, faults>>

Init ==
  /\ reading = [e \in Events |-> None]
  /\ queue = [m \in Models |-> <<>>]
  /\ place = [m \in Models |-> "idle"]
  /\ answers = [p \in Events \X Models |-> 0]
  /\ faults = 0

\* The ADM Runner publishes the event on the fanout exchange.
FanOut(e) ==
  /\ reading[e] = None
  /\ \E r \in Readings : reading' = [reading EXCEPT ![e] = r]
  /\ queue' = [m \in Models |-> Append(queue[m], e)]
  /\ UNCHANGED <<place, answers, faults>>

Goto(m, next) == place' = [place EXCEPT ![m] = next]

\* The result published for e is Detect(m, reading[e]).
Publish(m) ==
  /\ place[m] = "idle"
  /\ queue[m] # <<>>
  /\ answers' = [answers EXCEPT ![<<Head(queue[m]), m>>] = @ + 1]
  /\ Goto(m, "published")
  /\ UNCHANGED <<reading, queue, faults>>

WriteLine(m) ==
  /\ place[m] = "published"
  /\ Goto(m, "written")
  /\ UNCHANGED <<reading, queue, answers, faults>>

Ack(m) ==
  /\ place[m] = "written"
  /\ queue' = [queue EXCEPT ![m] = Tail(@)]
  /\ Goto(m, "idle")
  /\ UNCHANGED <<reading, answers, faults>>

\* Variant: the event is rejected without requeue.
MutRequeue(m) ==
  /\ faults < MaxFaults
  /\ faults' = faults + 1
  /\ queue[m] # <<>>
  /\ queue' = [queue EXCEPT ![m] = Tail(@)]
  /\ Goto(m, "idle")
  /\ UNCHANGED <<reading, answers>>

\* The publish or the write raises (basic_nack with requeue), or the process
\* dies and is started again: the event comes again.
Requeue(m) ==
  /\ faults < MaxFaults
  /\ faults' = faults + 1
  /\ queue[m] # <<>>
  /\ Goto(m, "idle")
  /\ UNCHANGED <<reading, queue, answers>>

Work(m) == Publish(m) \/ WriteLine(m) \/ Ack(m)

Next ==
  \/ \E e \in Events : FanOut(e)
  \/ \E m \in Models : Work(m) \/ Requeue(m)

Spec == Init /\ [][Next]_vars

\* Every detector blocks on its queue, and is started again when it died.
FairSpec == Spec /\ \A m \in Models : WF_vars(Work(m))
-----------------------------------------------------------------------------
(* Properties                                                              *)

\* Every detector answers every event that was fanned out.
EventuallyAnswered ==
  \A e \in Events, m \in Models : (reading[e] # None) ~> (answers[<<e, m>>] > 0)

Answered(e) == {Detect(m, reading[e]) : m \in {x \in Models : answers[<<e, x>>] > 0}}

\* The random forest contradicts the rate gate.
Disputed(e, r) == r.model = auth /\ reading[e][auth].vote = 0

Severe(e, r) == r.severity = "CRITICAL" \/ (r.severity = "HIGH" /\ ~Disputed(e, r))

\* Whichever of the five answers the Fusion Engine has when it decides, and
\* however often they came, a CRITICAL verdict is never too weak to be
\* published, and a HIGH one only if the random forest votes against it: the
\* confidences of the detectors, their weights and min_confidence_to_publish
\* fit together (_fuse, fusion_config.json).
SevereIsPublished ==
  \A e \in Events :
    (reading[e] # None /\ \E r \in Answered(e) : Severe(e, r)) => ~Suppressed(Answered(e))

(* What SevereIsPublished rests on, for any readings and any configuration.  *)

\* Rates, percentages, times and z-scores are not negative; a throughput or a
\* vote can be missing.
SamplesAreMeasured ==
  \A r \in Readings :
    /\ r[cpu] \in [z : Nat, cpu : Nat, mem : Nat]
    /\ r[error] \in [z : Nat, rate : Nat]
    /\ r[throughput] \in [raw : Nat \union {Absent}, silence : Nat, short : Nat, long : Nat]
    /\ r[auth] \in [rate : Nat, vote : {Absent, 0, 1}, proba : Nat]

\* A confidence of 40 %, with the weight of any detector that can say more than
\* MEDIUM, is at least min_confidence_to_publish (fusion_config.json: the least
\* of these weights is 0.75, which makes 0.30 of 0.30).
FortyPercentCounts ==
  \A m \in Models \ {schema} : (4000 * WeightOr(m, 50) + 50) \div 100 >= MinConfidence
=============================================================================
