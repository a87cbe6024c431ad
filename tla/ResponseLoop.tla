---------------------------- MODULE ResponseLoop ----------------------------
(***************************************************************************)
(* The Auto-Execution Engine, the operators' dashboard and the Learning    *)
(* Agent together, around the state they share: decisions.db,              *)
(* outcome.feedback and threshold_config.json, which closes the loop to    *)
(* the routing of the Policy Agent.                                        *)
(***************************************************************************)
EXTENDS Integers, Sequences, FiniteSets

CONSTANTS
  Events,        \* event ids
  Messages,      \* the messages [event, payload] the Policy Agent may route
  Mild,          \* those of them whose risk tier is not HIGH
  Confidence,    \* message -> confidence of the model, in ten-thousandths
  Inactive,      \* the payloads that recommend no action
  Operators,     \* the requests that can be in progress at a time
  MaxRequests,   \* bound: how many requests are made
  MaxCrashes,    \* bound: how often a process dies
  MayFail,       \* whether a write, a publish or the upsert can raise
  None,
  Torn

ASSUME MessagesAreKnown ==
  /\ \A m \in Messages : m.event \in Events /\ m = [event |-> m.event, payload |-> m.payload]
  /\ Mild \subseteq Messages

ASSUME ConfidencesAreKnown == Confidence \in [Messages -> 0..10000]

ASSUME LoopBounds ==
  MaxRequests \in Nat /\ MaxCrashes \in Nat /\ MayFail \in BOOLEAN

VARIABLES
  sent, rows, feedback, crashes,              \* shared
  auto, epc, remedied, rejected,              \* AutoExecutor
  hitl, cpc, incident, request, made,         \* HitlDashboard
  handled, lpc, config, file, known, unlearned, learned  \* LearningAgent

executor  == <<auto, epc, remedied, rejected>>
dashboard == <<hitl, cpc, incident, request, made>>
learning  == <<handled, lpc, config, file, known, unlearned, learned>>
vars == <<sent, rows, feedback, crashes, executor, dashboard, learning>>

Exec  == INSTANCE AutoExecutor WITH AutoMessages <- Messages
Desk  == INSTANCE HitlDashboard WITH HitlMessages <- Messages
Learn == INSTANCE LearningAgent

Init == Exec!ExecutorInit /\ Desk!DashboardInit /\ Learn!LearningInit

\* The rules of the Policy Agent for an answer that could be read.
RouteAutomatically(m) == m \in Mild /\ Confidence[m] >= Learn!Applied

\* The Policy Agent reads the threshold and routes.
PolicyRoute(m) ==
  \/ RouteAutomatically(m) /\ Exec!RouteAuto(m) /\ UNCHANGED <<dashboard, learning>>
  \/ ~RouteAutomatically(m) /\ Desk!RouteHitl(m) /\ UNCHANGED <<executor, learning>>

EngineStep ==
  /\ Exec!Engine \/ Exec!ExecutorCrash
  /\ UNCHANGED <<dashboard, learning>>

DeskStep ==
  /\ Desk!Consumer \/ Desk!Views
  /\ UNCHANGED <<executor, learning>>

LearnStep ==
  /\ Learn!LearningNext
  /\ UNCHANGED <<sent, rows, executor, dashboard>>

Next == EngineStep \/ DeskStep \/ LearnStep \/ \E m \in Messages : PolicyRoute(m)

Spec == Init /\ [][Next]_vars

\* The engine and the agent block on their queues and are started again when
\* they died; operators and the Policy Agent are not obliged to do anything.
FairSpec ==
  /\ Spec
  /\ WF_vars(Exec!Engine /\ UNCHANGED <<dashboard, learning>>)
  /\ WF_vars(Learn!Learn /\ UNCHANGED <<sent, rows, executor, dashboard>>)
-----------------------------------------------------------------------------
(* Properties                                                              *)

\* The actions of a message are performed, recorded and reported again only
\* because a process died: a failure that is caught repeats nothing.
RepeatsAreCrashes == Exec!RepeatsAreCrashes

\* The Learning Agent never hears of a remediation that is not in the table, or
\* of a success of something that was not done (execute_actions).
FeedbackHasRow == Exec!FeedbackHasRow

\* The threshold that routes stays between the initial one and the signals of
\* the outcomes that operators and executor have reported and the Learning Agent
\* has taken, wherever the writing of threshold_config.json ends.
AppliedIsEarned == Learn!AppliedIsEarned

\* ChromaDB holds the latest outcome of every incident, although messages are
\* handled again after a death and dead-lettered half done.
KnownIsLatest == Learn!KnownIsLatest

DecisionBehind ==
  [AUTO_EXECUTE_SUCCESS |-> "AUTO_EXECUTE", AUTO_EXECUTE_FAILURE |-> "AUTO_EXECUTE",
   HITL_APPROVED |-> "APPROVE", HITL_REJECTED |-> "REJECT", HITL_MODIFIED |-> "MODIFY"]

\* What the knowledge base says became of an incident is on record: a row of
\* decisions.db has the same incident and a decision of that kind, whichever
\* process of Layer 3 made it and whichever processes died since.
KnownWasDecided ==
  \A e \in Events : known[e] # None =>
    \E i \in DOMAIN rows : rows[i].event = e /\ rows[i].decision = DecisionBehind[known[e]]

\* The threshold is not moved more often than decisions were made; only a
\* death of the Learning Agent moves it twice for one.
UpdatesAreDecisions == learned.updates <= Len(rows) + crashes

Waits(m) == \E i \in DOMAIN auto : auto[i] = m

Learned(m) ==
  \E i \in 1..handled : feedback[i].event = m.event /\ feedback[i].payload = m.payload

\* An incident routed to automatic execution is executed, and its outcome
\* reaches the Learning Agent, or it is among the dead letters.
AutoIsLearned ==
  \A m \in Messages : Waits(m) ~> (m \in rejected \/ Learned(m))
=============================================================================
