------------------------- MODULE ResponseLoopProofs -------------------------
(***************************************************************************)
(* Safety of Layer 3 with the Learning Agent for every set of messages,    *)
(* whatever the models are confident of, every number of operators and of  *)
(* requests, and every number of deaths.                                   *)
(***************************************************************************)
EXTENDS ResponseLoop, DataFacts, FiniteSetTheorems

Payloads == {m.payload : m \in Messages}

Incident == [status : {"PENDING", "APPROVED", "REJECTED", "MODIFIED"}, payload : Payloads]

Request == [verb : Desk!Verbs, event : Events, payload : Payloads,
            place : {"read", "written", "published", "saved"}]

Row == [event : Events, decision : Desk!Verbs \union {"AUTO_EXECUTE"}, payload : Payloads]

Report == [event : Events, outcome : Learn!Outcomes, payload : Payloads]

ExecutorTypes ==
  /\ auto \in Seq(Messages)
  /\ epc \in {"idle", "executed", "logged", "told"}
  /\ epc # "idle" => auto # <<>>

DeskTypes ==
  /\ hitl \in Seq(Messages)
  /\ cpc = "stored" => hitl # <<>>
  /\ incident \in [Events -> Incident \union {None}]
  /\ request \in [Operators -> Request \union {None}]

\* The position of the Learning Agent in its queue, and its file.
LearningTypes ==
  /\ handled \in Nat /\ handled <= Len(feedback)
  /\ lpc \in {"idle", "upserted", "emptied", "saved"}
  /\ lpc # "idle" => handled < Len(feedback)
  /\ file \in Learn!Config \union {Torn}
  /\ lpc = "emptied" => config \in Learn!Config
  /\ learned \in Learn!Config
  /\ known \in [Events -> Learn!Outcomes \union {None}]

HistoryTypes == rows \in Seq(Row) /\ feedback \in Seq(Report) /\ crashes \in Nat

TypeInv == ExecutorTypes /\ DeskTypes /\ LearningTypes /\ HistoryTypes

-----------------------------------------------------------------------------
(* The steps                                                               *)

\* A message names an event and a payload, and is one of these two.
LEMMA MessageParts == \A m \in Messages : m.event \in Events /\ m.payload \in Payloads
<1>1. \A m \in Messages : m.event \in Events
  BY MessagesAreKnown, Zenon
<1>2. \A m \in Messages : m.payload \in Payloads
  BY DEF Payloads
<1> QED
  BY <1>1, <1>2

LEMMA MessagesDiffer ==
  \A m, n \in Messages : m.event = n.event /\ m.payload = n.payload <=> m = n
<1>1. \A m \in Messages : m = [event |-> m.event, payload |-> m.payload]
  BY MessagesAreKnown, Zenon
<1> QED
  BY <1>1, Zenon

\* The message in the hands of the engine is one.
LEMMA InHand ==
  ASSUME TypeInv, epc # "idle"
  PROVE  Head(auto) \in Messages /\ Head(auto).event \in Events /\ Head(auto).payload \in Payloads
  BY TailFacts, MessageParts DEF TypeInv, ExecutorTypes

\* A request that is in progress is one.
LEMMA InProgress ==
  ASSUME TypeInv, NEW o \in Operators, request[o] # None
  PROVE  /\ request[o] \in Request
         /\ request[o].event \in Events /\ request[o].verb \in Desk!Verbs
         /\ request[o].payload \in Payloads
  BY DEF TypeInv, DeskTypes, Request

\* A request gets to another place.
LEMMA Stepped ==
  ASSUME TypeInv, NEW o \in Operators, request[o] # None,
         NEW place \in {"read", "written", "published", "saved"}, Desk!Step(o, place)
  PROVE  /\ request' \in [Operators -> Request \union {None}]
         /\ request'[o] = [request[o] EXCEPT !.place = place]
         /\ request'[o].place = place
         /\ request'[o].event = request[o].event /\ request'[o].verb = request[o].verb
         /\ \A p \in Operators : p # o => request'[p] = request[p]
  BY InProgress DEF TypeInv, DeskTypes, Desk!Step, Request

\* The message in the hands of the Learning Agent is a report.
LEMMA MessageTyped ==
  ASSUME TypeInv, handled < Len(feedback)
  PROVE  /\ handled + 1 \in DOMAIN feedback /\ handled + 1 \in 1..Len(feedback)
         /\ Learn!Message \in Report
         /\ Learn!Message.event \in Events /\ Learn!Message.outcome \in Learn!Outcomes
<1>1. Len(feedback) \in Nat /\ DOMAIN feedback = 1..Len(feedback)
  BY LenProperties DEF TypeInv, HistoryTypes
<1>2. handled + 1 \in 1..Len(feedback)
  BY <1>1 DEF TypeInv, LearningTypes
<1>3. feedback[handled + 1] \in Report
  BY <1>2, ElementOfSeq DEF TypeInv, HistoryTypes
<1> QED
  BY <1>1, <1>2, <1>3 DEF Learn!Message, Report

Thresholds == 6000..9000

LEMMA ThresholdsAre == \A t \in Thresholds : t \in Int /\ 6000 <= t /\ t <= 9000
  BY DEF Thresholds

LEMMA ConfigsAre == Learn!Config = [threshold : Thresholds, updates : Nat]
  BY DEF Learn!Config, Thresholds

\* Whatever the outcome, the threshold is moved within its bounds.
LEMMA MovedInBounds ==
  \A threshold \in Thresholds, outcome \in Learn!Outcomes :
    \A moved \in Learn!Moved(threshold, Learn!OUTCOME_SIGNALS[outcome]) : moved \in Thresholds
<1> TAKE threshold \in Thresholds, outcome \in Learn!Outcomes
<1> TAKE moved \in Learn!Moved(threshold, Learn!OUTCOME_SIGNALS[outcome])
<1> DEFINE x == 9 * threshold + Learn!OUTCOME_SIGNALS[outcome]
           y == IF x < 60000 THEN 60000 ELSE IF x > 90000 THEN 90000 ELSE x
           q == y \div 10
<1>1. Learn!OUTCOME_SIGNALS[outcome] \in Nat
  BY DEF Learn!Outcomes, Learn!OUTCOME_SIGNALS
<1>2. x \in Nat
  BY <1>1 DEF Thresholds
<1> HIDE DEF x
<1>3. y \in Int /\ 60000 <= y /\ y <= 90000
  BY <1>2
<1>4. moved \in {q, q + 1} /\ 10 * moved <= y + 5
  <2>1. moved \in Learn!Rounded(y)
    BY DEF Learn!Moved, x
  <2> HIDE DEF y
  <2> QED
    BY <2>1 DEF Learn!Rounded
<1> HIDE DEF y
<1>5. q \in Int /\ 6000 <= q /\ q <= 9000
  BY <1>3
<1> HIDE DEF q
<1>6. CASE moved = q
  BY <1>5, <1>6 DEF Thresholds
<1>7. CASE moved = q + 1
  <2>1. 10 * (q + 1) <= y + 5
    BY <1>4, <1>7
  <2>2. q \in Int /\ q >= 6000
    BY <1>5
  <2>3. 10 * (q + 1) <= 90005
    <3>1. y \in Int /\ y <= 90000
      BY <1>3
    <3> QED
      BY <2>1, <2>2, <3>1
  <2>4. q + 1 <= 9000
    BY <2>2, <2>3
  <2> QED
    BY <1>7, <2>2, <2>4 DEF Thresholds
<1> QED
  BY <1>4, <1>6, <1>7

\* The configuration that is loaded is one, also from an emptied file.
LEMMA LoadedTyped == TypeInv => Learn!Loaded \in Learn!Config
<1>1. Learn!DefaultConfig \in Learn!Config
  BY DEF Learn!DefaultConfig, Learn!Config
<1>2. TypeInv => file \in Learn!Config \union {Torn}
  BY DEF TypeInv, LearningTypes
<1> QED
  BY <1>1, <1>2 DEF Learn!Loaded

\* Its fields: a threshold between the bounds, a count of updates.
LEMMA LoadedFields ==
  TypeInv => Learn!Loaded.threshold \in Thresholds /\ Learn!Loaded.updates \in Nat
<1> SUFFICES ASSUME TypeInv
             PROVE  Learn!Loaded.threshold \in Thresholds /\ Learn!Loaded.updates \in Nat
  OBVIOUS
<1>1. Learn!Loaded \in [threshold : Thresholds, updates : Nat]
  BY LoadedTyped, ConfigsAre
<1> QED
  BY <1>1

\* The engine keeps the types.
LEMMA EngineTypes ==
  ASSUME TypeInv, Exec!Engine \/ Exec!ExecutorCrash, UNCHANGED <<dashboard, learning>>
  PROVE  TypeInv'
<1>0. DeskTypes'
  BY DEF TypeInv, DeskTypes, dashboard
<1>1. ASSUME feedback' = feedback PROVE LearningTypes'
  BY <1>1 DEF TypeInv, LearningTypes, learning
<1> USE DEF TypeInv, ExecutorTypes, HistoryTypes
<1>2. CASE Exec!Execute
  BY <1>0, <1>1, <1>2 DEF Exec!Execute
<1>3. CASE Exec!WriteRow
  <2>1. [event |-> Head(auto).event, decision |-> "AUTO_EXECUTE", payload |-> Head(auto).payload] \in Row
    BY <1>3, InHand DEF Exec!WriteRow, Row
  <2> QED
    BY <1>0, <1>1, <1>3, <2>1, AppendFacts DEF Exec!WriteRow
<1>4. CASE Exec!Tell
  <2> DEFINE report == [event |-> Head(auto).event, outcome |-> Exec!Outcome(Head(auto)),
                        payload |-> Head(auto).payload]
  <2>1. Exec!Outcome(Head(auto)) \in Learn!Outcomes
    BY DEF Exec!Outcome, Learn!Outcomes, Learn!OUTCOME_SIGNALS
  <2>2. report \in Report
    BY <1>4, <2>1, InHand DEF Exec!Tell, Report
  <2>3. feedback' = Append(feedback, report)
    BY <1>4 DEF Exec!Tell
  <2> HIDE DEF report
  <2>4. feedback' \in Seq(Report) /\ Len(feedback) \in Nat /\ Len(feedback') = Len(feedback) + 1
    BY <2>2, <2>3, AppendFacts
  <2>5. LearningTypes'
    BY <2>4 DEF LearningTypes, learning
  <2> QED
    BY <1>0, <1>4, <2>4, <2>5 DEF Exec!Tell
<1>5. CASE Exec!AckMessage
  BY <1>0, <1>1, <1>5, TailFacts DEF Exec!AckMessage
<1>6. CASE Exec!Reject
  BY <1>0, <1>1, <1>6, TailFacts DEF Exec!Reject
<1>7. CASE Exec!ExecutorCrash
  BY <1>0, <1>1, <1>7 DEF Exec!ExecutorCrash
<1> QED
  BY <1>2, <1>3, <1>4, <1>5, <1>6, <1>7 DEF Exec!Engine

\* The consumer and the views keep the types.
LEMMA DashboardTypes ==
  ASSUME TypeInv, Desk!Consumer \/ Desk!Views, UNCHANGED <<executor, learning>>
  PROVE  TypeInv'
<1>0. ExecutorTypes'
  BY DEF TypeInv, ExecutorTypes, executor
<1>1. ASSUME feedback' = feedback PROVE LearningTypes'
  BY <1>1 DEF TypeInv, LearningTypes, learning
<1> USE DEF TypeInv, DeskTypes, HistoryTypes
<1>2. CASE Desk!StoreIncident
  <2>1. Head(hitl) \in Messages
    BY <1>2, TailFacts DEF Desk!StoreIncident
  <2>2. [status |-> "PENDING", payload |-> Head(hitl).payload] \in Incident
    BY <2>1, MessageParts DEF Incident
  <2> QED
    BY <1>0, <1>1, <1>2, <2>2 DEF Desk!StoreIncident
<1>3. CASE Desk!AckIncident
  BY <1>0, <1>1, <1>3, TailFacts DEF Desk!AckIncident
<1>4. CASE Desk!ConsumerCrash
  BY <1>0, <1>1, <1>4 DEF Desk!ConsumerCrash
<1>5. ASSUME NEW o \in Operators, NEW verb \in Desk!Verbs, NEW e \in Events, Desk!Open(o, verb, e)
      PROVE TypeInv'
  <2>1. incident[e] \in Incident
    BY <1>5 DEF Desk!Open
  <2>2. [verb |-> verb, event |-> e, payload |-> incident[e].payload, place |-> "read"] \in Request
    BY <2>1 DEF Incident, Request
  <2> QED
    BY <1>0, <1>1, <1>5, <2>2 DEF Desk!Open
<1>6. ASSUME NEW o \in Operators, Desk!WriteDecision(o) PROVE TypeInv'
  <2>1. [event |-> request[o].event, decision |-> request[o].verb,
         payload |-> request[o].payload] \in Row
    BY <1>6, InProgress DEF Desk!WriteDecision, Row
  <2>2. request' \in [Operators -> Request \union {None}]
    BY <1>6, Stepped DEF Desk!WriteDecision
  <2> QED
    BY <1>0, <1>1, <1>6, <2>1, <2>2, AppendFacts DEF Desk!WriteDecision
<1>7. ASSUME NEW o \in Operators, Desk!PublishOutcome(o) PROVE TypeInv'
  <2> DEFINE report == [event |-> request[o].event, outcome |-> Desk!HitlOutcome[request[o].verb],
                        payload |-> request[o].payload]
  <2>1. \A v \in Desk!Verbs : Desk!HitlOutcome[v] \in Learn!Outcomes
    BY DEF Desk!Verbs, Desk!HitlOutcome, Learn!Outcomes, Learn!OUTCOME_SIGNALS
  <2>2. report \in Report
    BY <1>7, <2>1, InProgress DEF Desk!PublishOutcome, Desk!PublishTurn, Report
  <2>3. feedback' = Append(feedback, report)
    BY <1>7 DEF Desk!PublishOutcome
  <2> HIDE DEF report
  <2>4. feedback' \in Seq(Report) /\ Len(feedback) \in Nat /\ Len(feedback') = Len(feedback) + 1
    BY <2>2, <2>3, AppendFacts
  <2>5. LearningTypes'
    BY <2>4 DEF LearningTypes, learning
  <2>6. request' \in [Operators -> Request \union {None}]
    BY <1>7, Stepped DEF Desk!PublishOutcome, Desk!PublishTurn, Desk!EndRequest
  <2> QED
    BY <1>0, <1>7, <2>4, <2>5, <2>6 DEF Desk!PublishOutcome
<1>8. ASSUME NEW o \in Operators, Desk!SaveIncident(o) PROVE TypeInv'
  <2>1. [status |-> Desk!Status[request[o].verb], payload |-> request[o].payload] \in Incident
    BY <1>8, InProgress DEF Desk!SaveIncident, Desk!SaveTurn, Incident, Desk!Status, Desk!Verbs
  <2>2. request' \in [Operators -> Request \union {None}]
    BY <1>8, Stepped DEF Desk!SaveIncident, Desk!SaveTurn, Desk!EndRequest
  <2> QED
    BY <1>0, <1>1, <1>8, <2>1, <2>2 DEF Desk!SaveIncident
<1>9. ASSUME NEW o \in Operators, Desk!RequestFails(o) PROVE TypeInv'
  BY <1>0, <1>1, <1>9 DEF Desk!RequestFails, Desk!EndRequest
<1>10. CASE Desk!WebCrash
  BY <1>0, <1>1, <1>10 DEF Desk!WebCrash
<1> QED
  BY <1>2, <1>3, <1>4, <1>5, <1>6, <1>7, <1>8, <1>9, <1>10 DEF Desk!Consumer, Desk!Views

\* The Learning Agent keeps the types.
LEMMA AgentTypes ==
  ASSUME TypeInv, Learn!LearningNext, UNCHANGED <<sent, rows, executor, dashboard>>
  PROVE  TypeInv'
<1>0. ExecutorTypes' /\ DeskTypes'
  BY DEF TypeInv, ExecutorTypes, DeskTypes, executor, dashboard
<1> USE DEF TypeInv, LearningTypes, HistoryTypes
<1>1. Len(feedback) \in Nat
  BY LenProperties
<1>2. CASE Learn!Upsert
  BY <1>0, <1>2, MessageTyped DEF Learn!Upsert
<1>3. CASE Learn!UpsertFails
  BY <1>0, <1>1, <1>3 DEF Learn!UpsertFails
<1>4. CASE Learn!Empty
  <2>1. PICK threshold \in Learn!Moved(Learn!Loaded.threshold, Learn!OUTCOME_SIGNALS[Learn!Message.outcome]) :
          config' = [threshold |-> threshold, updates |-> Learn!Loaded.updates + 1]
    BY <1>4 DEF Learn!Empty
  <2>2. Learn!Loaded.threshold \in Thresholds /\ Learn!Loaded.updates \in Nat
    BY LoadedFields
  <2>3. Learn!Message.outcome \in Learn!Outcomes
    BY <1>4, MessageTyped DEF Learn!Empty
  <2>4. threshold \in Thresholds
    BY <2>2, <2>3, MovedInBounds
  <2>5. config' \in Learn!Config
    <3>1. config' \in [threshold : Thresholds, updates : Nat]
      BY <2>1, <2>2, <2>4
    <3> QED
      BY <3>1, ConfigsAre
  <2> QED
    BY <1>0, <1>4, <2>5 DEF Learn!Empty
<1>5. CASE Learn!Write
  BY <1>0, <1>5 DEF Learn!Write
<1>6. CASE Learn!WriteFails
  BY <1>0, <1>1, <1>6 DEF Learn!WriteFails
<1>7. CASE Learn!AckFeedback
  BY <1>0, <1>1, <1>7 DEF Learn!AckFeedback
<1>8. CASE Learn!LearningCrash
  BY <1>0, <1>8 DEF Learn!LearningCrash
<1> QED
  BY <1>2, <1>3, <1>4, <1>5, <1>6, <1>7, <1>8 DEF Learn!LearningNext, Learn!Learn

\* The Policy Agent keeps the types.
LEMMA PolicyTypes ==
  ASSUME TypeInv, NEW m \in Messages, PolicyRoute(m)
  PROVE  TypeInv'
<1>1. CASE Exec!RouteAuto(m) /\ UNCHANGED <<dashboard, learning>>
  <2>1. auto' \in Seq(Messages) /\ auto' # <<>>
    BY <1>1, AppendFacts DEF Exec!RouteAuto, TypeInv, ExecutorTypes
  <2>2. ExecutorTypes' /\ HistoryTypes' /\ feedback' = feedback
    BY <1>1, <2>1 DEF Exec!RouteAuto, TypeInv, ExecutorTypes, HistoryTypes
  <2>3. DeskTypes' /\ LearningTypes'
    BY <1>1, <2>2 DEF TypeInv, DeskTypes, LearningTypes, dashboard, learning
  <2> QED
    BY <2>2, <2>3 DEF TypeInv
<1>2. CASE Desk!RouteHitl(m) /\ UNCHANGED <<executor, learning>>
  <2>1. hitl' \in Seq(Messages) /\ hitl' # <<>>
    BY <1>2, AppendFacts DEF Desk!RouteHitl, TypeInv, DeskTypes
  <2>2. DeskTypes' /\ HistoryTypes' /\ feedback' = feedback
    BY <1>2, <2>1 DEF Desk!RouteHitl, TypeInv, DeskTypes, HistoryTypes
  <2>3. ExecutorTypes' /\ LearningTypes'
    BY <1>2, <2>2 DEF TypeInv, ExecutorTypes, LearningTypes, executor, learning
  <2> QED
    BY <2>2, <2>3 DEF TypeInv
<1> QED
  BY <1>1, <1>2 DEF PolicyRoute

\* The types hold.
LEMMA TypesHold == Spec => []TypeInv
<1>1. Init => TypeInv
  <2> SUFFICES ASSUME Init PROVE TypeInv
    OBVIOUS
  <2>1. <<>> \in Seq(Row) /\ <<>> \in Seq(Report) /\ <<>> \in Seq(Messages) /\ Len(<<>>) = 0
    BY EmptySeq
  <2>2. Learn!DefaultConfig \in Learn!Config
    BY DEF Learn!DefaultConfig, Learn!Config
  <2> QED
    BY <2>1, <2>2 DEF Init, Exec!ExecutorInit, Desk!DashboardInit, Learn!LearningInit,
       TypeInv, ExecutorTypes, DeskTypes, LearningTypes, HistoryTypes
<1>2. TypeInv /\ [Next]_vars => TypeInv'
  <2> SUFFICES ASSUME TypeInv, [Next]_vars PROVE TypeInv'
    OBVIOUS
  <2>1. CASE UNCHANGED vars
    BY <2>1 DEF vars, executor, dashboard, learning, TypeInv, ExecutorTypes, DeskTypes,
                LearningTypes, HistoryTypes
  <2> QED
    BY <2>1, EngineTypes, DashboardTypes, AgentTypes, PolicyTypes
       DEF Next, EngineStep, DeskStep, LearnStep
<1> QED
  BY <1>1, <1>2, PTL DEF Spec
-----------------------------------------------------------------------------
(* The threshold is earned.                                                *)

\* It lies within what the outcomes taken so far ask for and the initial one.
Earned(threshold) ==
  /\ \E s \in Learn!Heard : s <= threshold
  /\ \E s \in Learn!Heard : threshold <= s

EarnedInv ==
  /\ file # Torn => Earned(file.threshold)
  /\ lpc = "emptied" => Earned(config.threshold)

\* A move ends between where it began and the signal: rounding does not leave
\* the interval, and the bound 0.60 only cuts off what goes below it.
LEMMA MovedBetween ==
  ASSUME NEW threshold \in Thresholds, NEW outcome \in Learn!Outcomes,
         NEW moved \in Learn!Moved(threshold, Learn!OUTCOME_SIGNALS[outcome])
  PROVE  /\ moved \in Thresholds /\ Learn!OUTCOME_SIGNALS[outcome] \in Int
         /\ threshold <= moved \/ Learn!OUTCOME_SIGNALS[outcome] <= moved
         /\ moved <= threshold \/ moved <= Learn!OUTCOME_SIGNALS[outcome]
<1> DEFINE signal == Learn!OUTCOME_SIGNALS[outcome]
           x == 9 * threshold + signal
           y == IF x < 60000 THEN 60000 ELSE IF x > 90000 THEN 90000 ELSE x
<1>1. signal \in Nat /\ signal <= 9000
  BY DEF Learn!Outcomes, Learn!OUTCOME_SIGNALS
<1>2. moved \in Thresholds
  BY MovedInBounds
<1>3. y - 5 <= 10 * moved /\ 10 * moved <= y + 5
  <2>1. moved \in Learn!Rounded(y)
    BY DEF Learn!Moved
  <2> HIDE DEF y
  <2> QED
    BY <2>1 DEF Learn!Rounded
<1>4. threshold \in Nat /\ 6000 <= threshold /\ threshold <= 9000 /\ moved \in Nat
  BY <1>2 DEF Thresholds
<1> HIDE DEF signal
<1>5. x \in Nat /\ x <= 90000
  BY <1>1, <1>4
<1>6. CASE x < 60000
  <2>1. moved = 6000 /\ signal < 6000
    BY <1>1, <1>3, <1>4, <1>6
  <2> QED
    BY <1>1, <1>2, <1>4, <2>1 DEF signal
<1>7. CASE ~(x < 60000)
  <2>1. y = x
    BY <1>5, <1>7
  <2>2. 9 * threshold + signal - 5 <= 10 * moved /\ 10 * moved <= 9 * threshold + signal + 5
    <3>1. x = 9 * threshold + signal
      OBVIOUS
    <3> HIDE DEF x, y
    <3> QED
      BY <1>1, <1>3, <1>4, <1>5, <2>1, <3>1
  <2>3. (threshold <= moved \/ signal <= moved) /\ (moved <= threshold \/ moved <= signal)
    BY <1>1, <1>4, <2>2
  <2> QED
    BY <1>1, <1>2, <2>3 DEF signal
<1> QED
  BY <1>6, <1>7

\* What was heard are numbers, the initial threshold and the message in hand
\* among them.
LEMMA HeardFacts ==
  ASSUME TypeInv
  PROVE  /\ Learn!Heard \subseteq Int /\ 6500 \in Learn!Heard
         /\ handled < Len(feedback) => Learn!OUTCOME_SIGNALS[Learn!Message.outcome] \in Learn!Heard
<1>1. \A o \in Learn!Outcomes : Learn!OUTCOME_SIGNALS[o] \in Int
  BY DEF Learn!Outcomes, Learn!OUTCOME_SIGNALS
<1>2. \A i \in DOMAIN feedback : feedback[i].outcome \in Learn!Outcomes
  <2>1. \A i \in DOMAIN feedback : feedback[i] \in Report
    BY LenProperties, ElementOfSeq DEF TypeInv, HistoryTypes
  <2> QED
    BY <2>1 DEF Report
<1>3. Learn!Heard \subseteq Int
  BY <1>1, <1>2 DEF Learn!Heard
<1>4. 6500 \in Learn!Heard
  BY DEF Learn!Heard
<1>5. ASSUME handled < Len(feedback)
      PROVE  Learn!OUTCOME_SIGNALS[Learn!Message.outcome] \in Learn!Heard
  <2>1. handled + 1 \in 1..handled + 1 /\ handled + 1 \in DOMAIN feedback
    BY <1>5, MessageTyped DEF TypeInv, LearningTypes
  <2> QED
    BY <2>1 DEF Learn!Heard, Learn!Message
<1> QED
  BY <1>3, <1>4, <1>5

\* What was heard stays heard.
LEMMA HeardGrows ==
  ASSUME TypeInv,
         handled' \in {handled, handled + 1},
         feedback' = feedback \/ \E report \in Report : feedback' = Append(feedback, report)
  PROVE  /\ Learn!Heard \subseteq Learn!Heard'
         /\ \A threshold : Earned(threshold) => Earned(threshold)'
<1>1. \A i \in DOMAIN feedback : i \in DOMAIN feedback' /\ feedback'[i] = feedback[i]
  <2>1. CASE feedback' = feedback
    BY <2>1
  <2>2. ASSUME NEW report \in Report, feedback' = Append(feedback, report)
        PROVE  \A i \in DOMAIN feedback : i \in DOMAIN feedback' /\ feedback'[i] = feedback[i]
    <3>1. /\ DOMAIN feedback = 1..Len(feedback) /\ Len(feedback) \in Nat
          /\ DOMAIN feedback' = 1..Len(feedback) + 1
          /\ \A i \in 1..Len(feedback) : feedback'[i] = feedback[i]
      BY <2>2, AppendFacts DEF TypeInv, HistoryTypes
    <3> QED
      BY <3>1
  <2> QED
    BY <2>1, <2>2
<1>2. \A i \in 1..handled + 1 : i \in 1..handled' + 1
  <2>1. handled \in Nat
    BY DEF TypeInv, LearningTypes
  <2>2. ASSUME NEW h \in Nat PROVE \A i \in 1..h + 1 : i \in 1..(h + 1) + 1
    OBVIOUS
  <2> QED
    BY <2>1, <2>2, Zenon
<1>3. Learn!Heard \subseteq Learn!Heard'
  <2>1. ASSUME NEW i \in 1..handled + 1, i \in DOMAIN feedback
        PROVE  Learn!OUTCOME_SIGNALS[feedback[i].outcome] \in Learn!Heard'
    <3>1. i \in 1..handled' + 1 /\ i \in DOMAIN feedback' /\ feedback'[i] = feedback[i]
      BY <1>1, <1>2, <2>1
    <3> QED
      BY <3>1 DEF Learn!Heard, Learn!OUTCOME_SIGNALS
  <2>2. 6500 \in Learn!Heard'
    BY DEF Learn!Heard
  <2> QED
    BY <2>1, <2>2 DEF Learn!Heard
<1> QED
  BY <1>3 DEF Earned

\* Every step keeps the threshold earned: only a new configuration changes it,
\* and an emptied file is read as the initial one.
LEMMA StepKeepsEarned == TypeInv /\ EarnedInv /\ [Next]_vars => EarnedInv'
<1> SUFFICES ASSUME TypeInv, EarnedInv, [Next]_vars PROVE EarnedInv'
  OBVIOUS
<1>1. ASSUME UNCHANGED learning,
             feedback' = feedback \/ \E report \in Report : feedback' = Append(feedback, report)
      PROVE  EarnedInv'
  <2>1. \A threshold : Earned(threshold) => Earned(threshold)'
    BY <1>1, HeardGrows DEF learning
  <2> QED
    BY <1>1, <2>1 DEF EarnedInv, learning
<1>2. CASE LearnStep
  <2>1. feedback' = feedback /\ handled' \in {handled, handled + 1}
    BY <1>2 DEF LearnStep, Learn!LearningNext, Learn!Learn, Learn!Upsert, Learn!UpsertFails,
       Learn!Empty, Learn!Write, Learn!WriteFails, Learn!AckFeedback, Learn!LearningCrash
  <2>2. \A threshold : Earned(threshold) => Earned(threshold)'
    BY <2>1, HeardGrows
  <2>3. CASE Learn!Empty
    <3>1. Learn!Loaded.threshold \in Thresholds /\ Learn!Message.outcome \in Learn!Outcomes
          /\ Learn!OUTCOME_SIGNALS[Learn!Message.outcome] \in Learn!Heard
          /\ Learn!Heard \subseteq Int
      BY <2>3, LoadedFields, MessageTyped, HeardFacts DEF Learn!Empty, TypeInv, LearningTypes
    <3>2. PICK moved \in Learn!Moved(Learn!Loaded.threshold, Learn!OUTCOME_SIGNALS[Learn!Message.outcome]) :
            config' = [threshold |-> moved, updates |-> Learn!Loaded.updates + 1]
      BY <2>3 DEF Learn!Empty
    <3>3. Earned(Learn!Loaded.threshold)
      BY HeardFacts DEF Learn!Loaded, Learn!DefaultConfig, EarnedInv, Earned
    <3> DEFINE loaded == Learn!Loaded.threshold
               signal == Learn!OUTCOME_SIGNALS[Learn!Message.outcome]
    <3>4. /\ moved \in Thresholds /\ signal \in Int
          /\ loaded <= moved \/ signal <= moved
          /\ moved <= loaded \/ moved <= signal
      BY <3>1, <3>2, MovedBetween
    <3>5. loaded \in Int /\ moved \in Int
      BY <3>1, <3>4, ThresholdsAre
    <3>6. signal \in Learn!Heard /\ Earned(loaded)
      BY <3>1, <3>3
    <3> HIDE DEF loaded, signal
    <3>7. \E s \in Learn!Heard : s <= moved
      <4>1. PICK s \in Learn!Heard : s <= loaded
        BY <3>6 DEF Earned
      <4>2. s \in Int
        BY <3>1
      <4> QED
        BY <3>4, <3>5, <3>6, <4>1, <4>2
    <3>8. \E s \in Learn!Heard : moved <= s
      <4>1. PICK s \in Learn!Heard : loaded <= s
        BY <3>6 DEF Earned
      <4>2. s \in Int
        BY <3>1
      <4> QED
        BY <3>4, <3>5, <3>6, <4>1, <4>2
    <3>9. Earned(moved)' /\ config'.threshold = moved
      <4>1. Earned(moved)
        BY <3>7, <3>8 DEF Earned
      <4> QED
        BY <2>2, <3>2, <4>1
    <3>10. file' = Torn
      BY <2>3 DEF Learn!Empty
    <3> QED
      BY <3>9, <3>10 DEF EarnedInv
  <2>4. CASE Learn!Write
    BY <2>2, <2>4 DEF EarnedInv, Learn!Write
  <2>5. CASE Learn!Upsert \/ Learn!UpsertFails \/ Learn!WriteFails \/ Learn!AckFeedback
             \/ Learn!LearningCrash
    <3>1. file' = file /\ lpc' # "emptied"
      BY <2>5 DEF Learn!Upsert, Learn!UpsertFails, Learn!WriteFails, Learn!AckFeedback,
         Learn!LearningCrash
    <3> QED
      BY <2>2, <3>1 DEF EarnedInv
  <2> QED
    BY <1>2, <2>3, <2>4, <2>5 DEF LearnStep, Learn!LearningNext, Learn!Learn
<1>3. CASE EngineStep
  <2>1. ASSUME Exec!Tell PROVE \E report \in Report : feedback' = Append(feedback, report)
    <3>1. Exec!Outcome(Head(auto)) \in Learn!Outcomes
      BY DEF Exec!Outcome, Learn!Outcomes, Learn!OUTCOME_SIGNALS
    <3> QED
      BY <2>1, <3>1, InHand DEF Exec!Tell, Report
  <2>2. feedback' = feedback \/ Exec!Tell
    BY <1>3 DEF EngineStep, Exec!Engine, Exec!Execute, Exec!WriteRow, Exec!AckMessage,
       Exec!Reject, Exec!ExecutorCrash
  <2> QED
    BY <1>1, <1>3, <2>1, <2>2 DEF EngineStep
<1>4. CASE DeskStep
  <2>1. ASSUME NEW o \in Operators, Desk!PublishOutcome(o)
        PROVE  \E report \in Report : feedback' = Append(feedback, report)
    <3>1. \A v \in Desk!Verbs : Desk!HitlOutcome[v] \in Learn!Outcomes
      BY DEF Desk!Verbs, Desk!HitlOutcome, Learn!Outcomes, Learn!OUTCOME_SIGNALS
    <3> QED
      BY <2>1, <3>1, InProgress DEF Desk!PublishOutcome, Desk!PublishTurn, Report
  <2>2. feedback' = feedback \/ \E o \in Operators : Desk!PublishOutcome(o)
    BY <1>4 DEF DeskStep, Desk!Consumer, Desk!Views, Desk!StoreIncident, Desk!AckIncident,
       Desk!ConsumerCrash, Desk!Open, Desk!WriteDecision, Desk!SaveIncident,
       Desk!RequestFails, Desk!WebCrash
  <2> QED
    BY <1>1, <1>4, <2>1, <2>2 DEF DeskStep
<1>5. ASSUME NEW m \in Messages, PolicyRoute(m) PROVE EarnedInv'
  BY <1>1, <1>5 DEF PolicyRoute, Exec!RouteAuto, Desk!RouteHitl
<1>6. CASE UNCHANGED vars
  BY <1>1, <1>6 DEF vars
<1> QED
  BY <1>2, <1>3, <1>4, <1>5, <1>6 DEF Next

\* The Policy Agent routes by a threshold between the initial 0.65 and what the
\* outcomes taken so far ask for, although it may read the file between the
\* truncation and the write, and a write may never end.
THEOREM AppliedEarned == Spec => []AppliedIsEarned
<1>1. Init => EarnedInv
  <2> SUFFICES ASSUME Init PROVE EarnedInv
    OBVIOUS
  <2>1. file = Learn!DefaultConfig /\ lpc = "idle"
    BY DEF Init, Learn!LearningInit
  <2> QED
    BY <2>1 DEF EarnedInv, Earned, Learn!Heard, Learn!DefaultConfig
<1>2. TypeInv /\ EarnedInv => AppliedIsEarned
  <2> SUFFICES ASSUME TypeInv, EarnedInv PROVE AppliedIsEarned
    OBVIOUS
  <2>1. Earned(Learn!Applied)
    <3>1. CASE file = Torn
      BY <3>1, HeardFacts DEF Learn!Applied, Earned
    <3>2. CASE file # Torn
      <4>1. file.threshold \in Thresholds
        BY <3>2, ConfigsAre DEF TypeInv, LearningTypes
      <4>2. Learn!Applied = file.threshold
        <5> DEFINE t == file.threshold
        <5>1. t \in Int /\ 6000 <= t /\ t <= 9000
          BY <4>1, ThresholdsAre
        <5>2. Learn!Applied = IF t < 6000 THEN 6000 ELSE IF t > 9000 THEN 9000 ELSE t
          BY <3>2 DEF Learn!Applied
        <5>3. Learn!Applied = t
          <6> HIDE DEF t
          <6> QED
            BY <5>1, <5>2
        <5> QED
          BY <5>3
      <4> QED
        BY <3>2, <4>2 DEF EarnedInv
    <3> QED
      BY <3>1, <3>2
  <2> QED
    BY <2>1 DEF Earned, AppliedIsEarned, Learn!AppliedIsEarned
<1> QED
  BY <1>1, <1>2, StepKeepsEarned, TypesHold, PTL DEF Spec
-----------------------------------------------------------------------------
(* ChromaDB is level with the queue.                                       *)

\* What is upserted and not yet acknowledged is in ChromaDB.
KnownInv ==
  /\ KnownIsLatest
  /\ lpc # "idle" => known[Learn!Message.event] = Learn!Message.outcome

\* The queue as the Learning Agent sees it grows at its end.
LEMMA FeedbackGrows ==
  ASSUME TypeInv, KnownInv, NEW report \in Report,
         feedback' \in {feedback, Append(feedback, report)}, UNCHANGED learning
  PROVE  KnownInv'
<1>1. /\ DOMAIN feedback = 1..Len(feedback) /\ Len(feedback) \in Nat
      /\ \A i \in 1..Len(feedback) : i \in DOMAIN feedback' /\ feedback'[i] = feedback[i]
  BY AppendFacts DEF TypeInv, HistoryTypes
<1>2. UNCHANGED <<handled, lpc, known, unlearned>> /\ handled \in Nat /\ handled <= Len(feedback)
      /\ (lpc # "idle" => handled < Len(feedback))
  BY DEF learning, TypeInv, LearningTypes
<1>3. lpc # "idle" => Learn!Message' = Learn!Message
  BY <1>1, <1>2 DEF Learn!Message
<1>4. \A e \in Events, i \in 1..handled : Learn!Learned(e, i)' <=> Learn!Learned(e, i)
  BY <1>1, <1>2 DEF Learn!Learned
<1>5. ASSUME NEW e \in Events, NEW i \in 1..handled + 1, i \in DOMAIN feedback,
             \A j \in i + 1..handled : ~Learn!Learned(e, j)
      PROVE  i \in DOMAIN feedback' /\ feedback'[i] = feedback[i]
             /\ \A j \in i + 1..handled : ~Learn!Learned(e, j)'
  BY <1>1, <1>2, <1>4, <1>5
<1>6. KnownIsLatest'
  BY <1>2, <1>4, <1>5 DEF KnownInv, KnownIsLatest, Learn!KnownIsLatest
<1> QED
  BY <1>2, <1>3, <1>6 DEF KnownInv

\* The message in hand is done with, stored or a dead letter.
LEMMA MessageDone ==
  ASSUME TypeInv, KnownInv, handled < Len(feedback), handled' = handled + 1, lpc' = "idle",
         UNCHANGED <<feedback, known>>,
         unlearned' = unlearned \union {handled + 1} \/ (unlearned' = unlearned /\ lpc # "idle")
  PROVE  KnownInv'
<1>1. handled \in Nat /\ handled + 1 \in DOMAIN feedback
  BY MessageTyped DEF TypeInv, LearningTypes
<1>2. ASSUME NEW e \in Events, NEW j \in Nat, ~Learn!Learned(e, j) PROVE ~Learn!Learned(e, j)'
  BY <1>2 DEF Learn!Learned
<1> PICK p \in Nat : p = handled + 1
  BY <1>1
<1>3. KnownIsLatest'
  <2> SUFFICES ASSUME NEW e \in Events
               PROVE  \/ known[e] = None /\ \A i \in 1..handled + 1 : ~Learn!Learned(e, i)'
                      \/ \E i \in 1..handled + 1 + 1 :
                           /\ i \in DOMAIN feedback
                           /\ feedback[i].event = e
                           /\ feedback[i].outcome = known[e]
                           /\ \A j \in i + 1..handled + 1 : ~Learn!Learned(e, j)'
    BY DEF KnownIsLatest, Learn!KnownIsLatest
  <2>1. CASE ~Learn!Learned(e, p)'
    <3>1. CASE known[e] = None /\ \A i \in 1..handled : ~Learn!Learned(e, i)
      <4>1. \A i \in 1..handled + 1 : ~Learn!Learned(e, i)'
        BY <1>1, <1>2, <2>1, <3>1
      <4> QED
        BY <3>1, <4>1
    <3>2. ASSUME NEW i \in 1..handled + 1, i \in DOMAIN feedback, feedback[i].event = e,
                 feedback[i].outcome = known[e], \A j \in i + 1..handled : ~Learn!Learned(e, j)
          PROVE  \E k \in 1..handled + 1 + 1 :
                   /\ k \in DOMAIN feedback
                   /\ feedback[k].event = e
                   /\ feedback[k].outcome = known[e]
                   /\ \A j \in k + 1..handled + 1 : ~Learn!Learned(e, j)'
      <4>1. \A j \in i + 1..handled + 1 : ~Learn!Learned(e, j)'
        BY <1>1, <1>2, <2>1, <3>2
      <4>2. i \in 1..handled + 1 + 1
        BY <1>1
      <4> QED
        BY <3>2, <4>1, <4>2
    <3> QED
      BY <3>1, <3>2 DEF KnownInv, KnownIsLatest, Learn!KnownIsLatest
  <2>2. CASE Learn!Learned(e, p)'
    <3>1. feedback[handled + 1].event = e /\ handled + 1 \notin unlearned'
      BY <2>2 DEF Learn!Learned
    <3>2. feedback[handled + 1].outcome = known[e]
      BY <3>1 DEF KnownInv, Learn!Message
    <3>3. handled + 1 \in 1..handled + 1 + 1 /\ (handled + 1) + 1..handled + 1 = {}
      BY <1>1
    <3> QED
      BY <1>1, <3>1, <3>2, <3>3
  <2> QED
    BY <2>1, <2>2
<1> QED
  BY <1>3 DEF KnownInv

\* Every step keeps ChromaDB level.
LEMMA StepKeepsKnown == TypeInv /\ KnownInv /\ [Next]_vars => KnownInv'
<1> SUFFICES ASSUME TypeInv, KnownInv, [Next]_vars PROVE KnownInv'
  OBVIOUS
<1>1. ASSUME UNCHANGED <<feedback, handled, known, unlearned>>, lpc' \in {lpc, "idle"}
             \/ (lpc # "idle" /\ lpc' # "idle")
      PROVE  KnownInv'
  BY <1>1 DEF KnownInv, KnownIsLatest, Learn!KnownIsLatest, Learn!Learned, Learn!Message
<1>2. CASE EngineStep
  <2> DEFINE report == [event |-> Head(auto).event, outcome |-> Exec!Outcome(Head(auto)),
                        payload |-> Head(auto).payload]
  <2>1. CASE Exec!Tell
    <3>1. Exec!Outcome(Head(auto)) \in Learn!Outcomes
      BY DEF Exec!Outcome, Learn!Outcomes, Learn!OUTCOME_SIGNALS
    <3>2. report \in Report
      BY <2>1, <3>1, InHand DEF Exec!Tell, Report
    <3> QED
      BY <1>2, <2>1, <3>2, FeedbackGrows DEF Exec!Tell, EngineStep
  <2>2. CASE ~Exec!Tell
    BY <1>1, <1>2, <2>2
       DEF EngineStep, Exec!Engine, Exec!Execute, Exec!WriteRow, Exec!AckMessage, Exec!Reject,
           Exec!ExecutorCrash, learning
  <2> QED
    BY <2>1, <2>2
<1>3. CASE DeskStep
  <2>1. ASSUME NEW o \in Operators, Desk!PublishOutcome(o) PROVE KnownInv'
    <3> DEFINE report == [event |-> request[o].event, outcome |-> Desk!HitlOutcome[request[o].verb],
                          payload |-> request[o].payload]
    <3>1. \A v \in Desk!Verbs : Desk!HitlOutcome[v] \in Learn!Outcomes
      BY DEF Desk!Verbs, Desk!HitlOutcome, Learn!Outcomes, Learn!OUTCOME_SIGNALS
    <3>2. report \in Report
      BY <2>1, <3>1, InProgress DEF Desk!PublishOutcome, Desk!PublishTurn, Report
    <3> QED
      BY <1>3, <2>1, <3>2, FeedbackGrows DEF Desk!PublishOutcome, DeskStep
  <2>2. CASE feedback' = feedback
    BY <1>1, <1>3, <2>2 DEF DeskStep, learning
  <2>3. feedback' = feedback \/ \E o \in Operators : Desk!PublishOutcome(o)
    BY <1>3 DEF DeskStep, Desk!Consumer, Desk!Views, Desk!StoreIncident, Desk!AckIncident,
       Desk!ConsumerCrash, Desk!Open, Desk!WriteDecision, Desk!SaveIncident, Desk!RequestFails,
       Desk!WebCrash
  <2> QED
    BY <2>1, <2>2, <2>3
<1>4. CASE LearnStep
  <2>1. CASE Learn!Upsert
    <3>1. /\ handled + 1 \in DOMAIN feedback /\ handled \in Nat
          /\ Learn!Message.event \in Events /\ known \in [Events -> Learn!Outcomes \union {None}]
      BY <2>1, MessageTyped DEF Learn!Upsert, TypeInv, LearningTypes
    <3>2. /\ known'[Learn!Message.event] = Learn!Message.outcome
          /\ \A e \in Events : e # Learn!Message.event => known'[e] = known[e]
          /\ UNCHANGED <<feedback, handled, unlearned>>
      BY <2>1, <3>1 DEF Learn!Upsert
    <3>3. handled + 1 \in 1..handled + 1 /\ (handled + 1) + 1..handled = {}
      BY <3>1
    <3>4. KnownIsLatest'
      <4> SUFFICES ASSUME NEW e \in Events
                   PROVE  \/ known'[e] = None /\ \A i \in 1..handled : ~Learn!Learned(e, i)
                          \/ \E i \in 1..handled + 1 :
                               /\ i \in DOMAIN feedback
                               /\ feedback[i].event = e
                               /\ feedback[i].outcome = known'[e]
                               /\ \A j \in i + 1..handled : ~Learn!Learned(e, j)
        BY <3>2 DEF KnownIsLatest, Learn!KnownIsLatest, Learn!Learned
      <4>1. CASE e = Learn!Message.event
        BY <3>1, <3>2, <3>3, <4>1 DEF Learn!Message
      <4>2. CASE e # Learn!Message.event
        BY <3>2, <4>2 DEF KnownInv, KnownIsLatest, Learn!KnownIsLatest
      <4> QED
        BY <4>1, <4>2
    <3>5. Learn!Message' = Learn!Message
      BY <3>2 DEF Learn!Message
    <3> QED
      BY <3>2, <3>4, <3>5 DEF KnownInv
  <2>2. CASE Learn!UpsertFails
    BY <2>2, MessageDone DEF Learn!UpsertFails
  <2>3. CASE Learn!WriteFails
    BY <2>3, MessageDone DEF Learn!WriteFails, TypeInv, LearningTypes
  <2>4. CASE Learn!AckFeedback
    BY <2>4, MessageDone DEF Learn!AckFeedback, TypeInv, LearningTypes
  <2>5. CASE Learn!Empty \/ Learn!Write \/ Learn!LearningCrash
    BY <1>1, <2>5 DEF Learn!Empty, Learn!Write, Learn!LearningCrash
  <2> QED
    BY <1>4, <2>1, <2>2, <2>3, <2>4, <2>5 DEF LearnStep, Learn!LearningNext, Learn!Learn
<1>5. ASSUME NEW m \in Messages, PolicyRoute(m) PROVE KnownInv'
  BY <1>1, <1>5 DEF PolicyRoute, Exec!RouteAuto, Desk!RouteHitl, learning
<1>6. CASE UNCHANGED vars
  BY <1>1, <1>6 DEF vars, learning
<1> QED
  BY <1>2, <1>3, <1>4, <1>5, <1>6 DEF Next

\* What ChromaDB says of an incident is the latest that was reported of it,
\* whatever is handled twice and whatever becomes a dead letter half done.
THEOREM LatestIsKnown == Spec => []KnownIsLatest
<1>1. Init => KnownInv
  <2> SUFFICES ASSUME Init PROVE KnownInv
    OBVIOUS
  <2>1. handled = 0 /\ lpc = "idle" /\ known = [e \in Events |-> None]
    BY DEF Init, Learn!LearningInit
  <2>2. 1..handled = {}
    BY <2>1
  <2> QED
    BY <2>1, <2>2 DEF KnownInv, KnownIsLatest, Learn!KnownIsLatest
<1>2. KnownInv => KnownIsLatest
  BY DEF KnownInv
<1> QED
  BY <1>1, <1>2, StepKeepsKnown, TypesHold, PTL DEF Spec
-----------------------------------------------------------------------------
(* Nothing is reported that is not on record.                              *)

OnRecord(event, decision) ==
  \E j \in DOMAIN rows : rows[j].event = event /\ rows[j].decision = decision

ReportsOnRecord ==
  \A i \in DOMAIN feedback : OnRecord(feedback[i].event, DecisionBehind[feedback[i].outcome])

\* Of every report, and of what is about to be reported, there is a row.
RecordInv ==
  /\ ReportsOnRecord
  /\ epc \in {"logged", "told"} => OnRecord(Head(auto).event, "AUTO_EXECUTE")
  /\ \A o \in Operators :
       request[o] # None /\ request[o].place # "read" => OnRecord(request[o].event, request[o].verb)

\* A report of what is on record is added.
LEMMA ReportKeepsRecord ==
  ASSUME TypeInv, ReportsOnRecord,
         NEW report \in Report, feedback' = Append(feedback, report), rows' = rows,
         OnRecord(report.event, DecisionBehind[report.outcome])
  PROVE  ReportsOnRecord'
<1>1. /\ DOMAIN feedback = 1..Len(feedback) /\ Len(feedback) \in Nat
      /\ DOMAIN feedback' = 1..Len(feedback) + 1
      /\ feedback'[Len(feedback) + 1] = report
      /\ \A i \in 1..Len(feedback) : feedback'[i] = feedback[i]
  BY AppendFacts DEF TypeInv, HistoryTypes
<1> SUFFICES ASSUME NEW i \in DOMAIN feedback'
             PROVE  \E j \in DOMAIN rows :
                      /\ rows[j].event = feedback'[i].event
                      /\ rows[j].decision = DecisionBehind[feedback'[i].outcome]
  BY DEF ReportsOnRecord, OnRecord
<1>2. CASE i \in 1..Len(feedback)
  BY <1>1, <1>2 DEF ReportsOnRecord, OnRecord
<1>3. CASE i = Len(feedback) + 1
  BY <1>1, <1>3 DEF OnRecord
<1> QED
  BY <1>1, <1>2, <1>3

\* The rows grow at their end.
LEMMA RecordGrows ==
  ASSUME TypeInv, NEW row \in Row, rows' = Append(rows, row), feedback' = feedback
  PROVE  /\ ReportsOnRecord => ReportsOnRecord'
         /\ \A event, decision : OnRecord(event, decision) => OnRecord(event, decision)'
         /\ \A event, decision : row.event = event /\ row.decision = decision
                                   => OnRecord(event, decision)'
<1>1. /\ DOMAIN rows = 1..Len(rows) /\ Len(rows) \in Nat
      /\ DOMAIN rows' = 1..Len(rows) + 1
      /\ rows'[Len(rows) + 1] = row
      /\ \A i \in 1..Len(rows) : rows'[i] = rows[i]
  BY AppendFacts DEF TypeInv, HistoryTypes
<1>2. \A event, decision : OnRecord(event, decision) => OnRecord(event, decision)'
  BY <1>1 DEF OnRecord
<1>3. Len(rows) + 1 \in DOMAIN rows'
  BY <1>1
<1>4. \A event, decision : row.event = event /\ row.decision = decision => OnRecord(event, decision)'
  BY <1>1, <1>3 DEF OnRecord
<1>5. ReportsOnRecord => ReportsOnRecord'
  BY <1>2 DEF ReportsOnRecord
<1> QED
  BY <1>2, <1>4, <1>5

\* Every step keeps the record.
LEMMA StepKeepsRecord == TypeInv /\ RecordInv /\ [Next]_vars => RecordInv'
<1> SUFFICES ASSUME TypeInv, RecordInv, [Next]_vars PROVE RecordInv'
  OBVIOUS
<1> DEFINE EngineOnRecord == epc \in {"logged", "told"} => OnRecord(Head(auto).event, "AUTO_EXECUTE")
           DeskOnRecord == \A o \in Operators :
             request[o] # None /\ request[o].place # "read"
               => OnRecord(request[o].event, request[o].verb)
<1>0. ReportsOnRecord /\ EngineOnRecord /\ DeskOnRecord
  BY DEF RecordInv
<1>1. ASSUME rows' = rows
      PROVE  /\ feedback' = feedback => ReportsOnRecord'
             /\ epc' = "idle" \/ epc' = "executed"
                  \/ (epc \in {"logged", "told"} /\ Head(auto') = Head(auto)) => EngineOnRecord'
             /\ (\A o \in Operators : \/ request'[o] = None
                                      \/ request'[o].place = "read"
                                      \/ request'[o] = request[o]
                                      \/ /\ request[o] # None /\ request[o].place # "read"
                                         /\ request'[o].event = request[o].event
                                         /\ request'[o].verb = request[o].verb)
                  => DeskOnRecord'
  BY <1>0, <1>1 DEF ReportsOnRecord, OnRecord
<1>2. CASE EngineStep
  <2>1. CASE Exec!WriteRow
    <3> DEFINE row == [event |-> Head(auto).event, decision |-> "AUTO_EXECUTE",
                       payload |-> Head(auto).payload]
    <3>1. row \in Row
      BY <2>1, InHand DEF Exec!WriteRow, Row
    <3>2. rows' = Append(rows, row) /\ feedback' = feedback
      BY <2>1 DEF Exec!WriteRow
    <3>3. UNCHANGED <<request, auto>>
      BY <1>2, <2>1 DEF EngineStep, Exec!WriteRow, dashboard
    <3>4. row.event = Head(auto).event /\ row.decision = "AUTO_EXECUTE"
      OBVIOUS
    <3> HIDE DEF row
    <3>5. /\ ReportsOnRecord'
          /\ \A event, decision : OnRecord(event, decision) => OnRecord(event, decision)'
          /\ OnRecord(Head(auto).event, "AUTO_EXECUTE")'
      BY <1>0, <3>1, <3>2, <3>3, <3>4, RecordGrows
    <3> QED
      BY <1>0, <3>3, <3>5 DEF RecordInv
  <2>2. CASE Exec!Tell
    <3> DEFINE report == [event |-> Head(auto).event, outcome |-> Exec!Outcome(Head(auto)),
                          payload |-> Head(auto).payload]
    <3>1. /\ Exec!Outcome(Head(auto)) \in Learn!Outcomes
          /\ DecisionBehind[Exec!Outcome(Head(auto))] = "AUTO_EXECUTE"
      BY DEF Exec!Outcome, Learn!Outcomes, Learn!OUTCOME_SIGNALS, DecisionBehind
    <3>2. report \in Report /\ feedback' = Append(feedback, report) /\ rows' = rows
      BY <2>2, <3>1, InHand DEF Exec!Tell, Report
    <3>3. OnRecord(report.event, DecisionBehind[report.outcome])
      BY <1>0, <2>2, <3>1 DEF Exec!Tell
    <3> HIDE DEF report
    <3>4. ReportsOnRecord'
      BY <1>0, <3>2, <3>3, ReportKeepsRecord
    <3> QED
      BY <1>0, <1>1, <1>2, <2>2, <3>4 DEF RecordInv, EngineStep, Exec!Tell, dashboard
  <2>3. CASE ~Exec!WriteRow /\ ~Exec!Tell
    BY <1>0, <1>1, <1>2, <2>3
       DEF RecordInv, EngineStep, Exec!Engine, Exec!Execute, Exec!AckMessage, Exec!Reject,
           Exec!ExecutorCrash, dashboard
  <2> QED
    BY <2>1, <2>2, <2>3
<1>3. CASE DeskStep
  <2>0. UNCHANGED <<epc, auto>>
    BY <1>3 DEF DeskStep, executor
  <2>1. ASSUME NEW o \in Operators, Desk!WriteDecision(o) PROVE RecordInv'
    <3> DEFINE row == [event |-> request[o].event, decision |-> request[o].verb,
                       payload |-> request[o].payload]
    <3>1. row \in Row /\ rows' = Append(rows, row) /\ feedback' = feedback
      BY <2>1, InProgress DEF Desk!WriteDecision, Row
    <3>2. row.event = request[o].event /\ row.decision = request[o].verb
      OBVIOUS
    <3>3. /\ request'[o].event = request[o].event /\ request'[o].verb = request[o].verb
          /\ \A p \in Operators : p # o => request'[p] = request[p]
      BY <2>1, Stepped DEF Desk!WriteDecision
    <3> HIDE DEF row
    <3>4. /\ ReportsOnRecord'
          /\ \A event, decision : OnRecord(event, decision) => OnRecord(event, decision)'
          /\ \A event, decision : row.event = event /\ row.decision = decision
                                    => OnRecord(event, decision)'
      BY <1>0, <3>1, RecordGrows
    <3>5. DeskOnRecord'
      BY <1>0, <3>2, <3>3, <3>4
    <3> QED
      BY <1>0, <2>0, <3>4, <3>5 DEF RecordInv
  <2>2. ASSUME NEW o \in Operators, Desk!PublishOutcome(o) PROVE RecordInv'
    <3> DEFINE report == [event |-> request[o].event, outcome |-> Desk!HitlOutcome[request[o].verb],
                          payload |-> request[o].payload]
    <3>1. /\ request[o] # None /\ request[o].verb \in Desk!Verbs /\ request[o].place # "read"
          /\ request[o].event \in Events /\ request[o].payload \in Payloads
      BY <2>2, InProgress DEF Desk!PublishOutcome, Desk!PublishTurn
    <3>2. \A v \in Desk!Verbs : /\ Desk!HitlOutcome[v] \in Learn!Outcomes
                                /\ DecisionBehind[Desk!HitlOutcome[v]] = v
      BY DEF Desk!Verbs, Desk!HitlOutcome, Learn!Outcomes, Learn!OUTCOME_SIGNALS, DecisionBehind
    <3>3. report \in Report /\ feedback' = Append(feedback, report) /\ rows' = rows
      BY <2>2, <3>1, <3>2 DEF Desk!PublishOutcome, Report
    <3>4. OnRecord(report.event, DecisionBehind[report.outcome])
      BY <1>0, <3>1, <3>2
    <3> HIDE DEF report
    <3>5. ReportsOnRecord'
      BY <1>0, <3>3, <3>4, ReportKeepsRecord
    <3>6. CASE request[o].verb = "MODIFY"
      BY <1>0, <1>1, <2>0, <2>2, <3>3, <3>5, <3>6
         DEF RecordInv, Desk!PublishOutcome, Desk!EndRequest, TypeInv, DeskTypes
    <3>7. CASE request[o].verb # "MODIFY"
      <4>1. /\ request'[o].event = request[o].event /\ request'[o].verb = request[o].verb
            /\ \A p \in Operators : p # o => request'[p] = request[p]
        BY <2>2, <3>1, <3>7, Stepped DEF Desk!PublishOutcome
      <4> QED
        BY <1>0, <1>1, <2>0, <3>1, <3>3, <3>5, <4>1 DEF RecordInv
    <3> QED
      BY <3>6, <3>7
  <2>3. ASSUME NEW o \in Operators, Desk!SaveIncident(o) PROVE RecordInv'
    <3>1. request[o] # None /\ request[o].place # "read"
      BY <2>3 DEF Desk!SaveIncident, Desk!SaveTurn
    <3>2. CASE request[o].verb = "MODIFY"
      <4>1. /\ request'[o].event = request[o].event /\ request'[o].verb = request[o].verb
            /\ \A p \in Operators : p # o => request'[p] = request[p]
        BY <2>3, <3>1, <3>2, Stepped DEF Desk!SaveIncident
      <4> QED
        BY <1>0, <1>1, <2>0, <2>3, <3>1, <4>1 DEF RecordInv, Desk!SaveIncident
    <3>3. CASE request[o].verb # "MODIFY"
      BY <1>0, <1>1, <2>0, <2>3, <3>3
         DEF RecordInv, Desk!SaveIncident, Desk!EndRequest, TypeInv, DeskTypes
    <3> QED
      BY <3>2, <3>3
  <2>4. ASSUME NEW o \in Operators, NEW verb \in Desk!Verbs, NEW e \in Events, Desk!Open(o, verb, e)
        PROVE RecordInv'
    <3>1. /\ request'[o].place = "read"
          /\ \A p \in Operators : p # o => request'[p] = request[p]
      BY <2>4 DEF Desk!Open, TypeInv, DeskTypes
    <3> QED
      BY <1>0, <1>1, <2>0, <2>4, <3>1 DEF RecordInv, Desk!Open
  <2>5. ASSUME NEW o \in Operators, Desk!RequestFails(o) PROVE RecordInv'
    BY <1>0, <1>1, <2>0, <2>5 DEF RecordInv, Desk!RequestFails, Desk!EndRequest, TypeInv, DeskTypes
  <2>6. CASE Desk!WebCrash
    BY <1>0, <1>1, <2>0, <2>6 DEF RecordInv, Desk!WebCrash
  <2>7. CASE Desk!Consumer
    BY <1>0, <1>1, <2>0, <2>7
       DEF RecordInv, Desk!Consumer, Desk!StoreIncident, Desk!AckIncident, Desk!ConsumerCrash
  <2> QED
    BY <1>3, <2>1, <2>2, <2>3, <2>4, <2>5, <2>6, <2>7 DEF DeskStep, Desk!Views
<1>4. CASE LearnStep
  <2>1. UNCHANGED <<rows, epc, auto, request, feedback>>
    BY <1>4 DEF LearnStep, executor, dashboard, Learn!LearningNext, Learn!Learn, Learn!Upsert,
       Learn!UpsertFails, Learn!Empty, Learn!Write, Learn!WriteFails, Learn!AckFeedback,
       Learn!LearningCrash
  <2> QED
    BY <1>0, <1>1, <2>1 DEF RecordInv
<1>5. ASSUME NEW m \in Messages, PolicyRoute(m) PROVE RecordInv'
  <2>1. UNCHANGED <<rows, epc, request, feedback>> /\ (epc # "idle" => Head(auto') = Head(auto))
    BY <1>5, AppendHead
       DEF PolicyRoute, Exec!RouteAuto, Desk!RouteHitl, executor, dashboard, TypeInv, ExecutorTypes
  <2> QED
    BY <1>0, <1>1, <2>1 DEF RecordInv
<1>6. CASE UNCHANGED vars
  BY <1>0, <1>1, <1>6 DEF RecordInv, vars, executor, dashboard
<1> QED
  BY <1>2, <1>3, <1>4, <1>5, <1>6 DEF Next

\* What ChromaDB says became of an incident was decided, and the decision is
\* in decisions.db.
THEOREM KnownIsOnRecord == Spec => []KnownWasDecided
<1>1. Init => RecordInv
  BY DEF Init, Exec!ExecutorInit, Desk!DashboardInit, RecordInv, ReportsOnRecord
<1>2. KnownIsLatest /\ RecordInv => KnownWasDecided
  BY DEF KnownIsLatest, Learn!KnownIsLatest, RecordInv, ReportsOnRecord, OnRecord, KnownWasDecided
<1> QED
  BY <1>1, <1>2, LatestIsKnown, StepKeepsRecord, TypesHold, PTL DEF Spec
-----------------------------------------------------------------------------
(* The threshold is moved once for a decision, and once for a death.       *)

\* Moves are counted by the messages that are done with, the one that is about
\* to be, and the deaths.
UpdatesInv ==
  LET moves == handled + crashes + (IF lpc = "saved" THEN 1 ELSE 0) IN
  /\ file # Torn => file.updates <= moves
  /\ learned.updates <= moves
  /\ lpc = "emptied" => config.updates <= handled + crashes + 1

\* Every step keeps the number of moves.
LEMMA StepKeepsUpdates == TypeInv /\ UpdatesInv /\ [Next]_vars => UpdatesInv'
<1> SUFFICES ASSUME TypeInv, UpdatesInv, [Next]_vars PROVE UpdatesInv'
  OBVIOUS
<1>0. /\ handled \in Nat /\ crashes \in Nat
      /\ file # Torn => file.updates \in Nat
      /\ learned.updates \in Nat
      /\ lpc = "emptied" => config.updates \in Nat
  <2>1. \A c \in Learn!Config : c.updates \in Nat
    BY ConfigsAre
  <2> QED
    BY <2>1 DEF TypeInv, LearningTypes, HistoryTypes
<1>1. ASSUME UNCHANGED learning, crashes' \in Nat, crashes' >= crashes PROVE UpdatesInv'
  BY <1>0, <1>1 DEF UpdatesInv, learning
<1>2. CASE LearnStep
  <2>1. CASE Learn!Upsert
    BY <1>0, <2>1 DEF UpdatesInv, Learn!Upsert
  <2>2. CASE Learn!UpsertFails
    BY <1>0, <2>2 DEF UpdatesInv, Learn!UpsertFails
  <2>3. CASE Learn!Empty
    <3>1. config'.updates = Learn!Loaded.updates + 1
      BY <2>3 DEF Learn!Empty
    <3>2. Learn!Loaded.updates \in Nat /\ Learn!Loaded.updates <= handled + crashes
      BY <1>0, <2>3 DEF UpdatesInv, Learn!Loaded, Learn!DefaultConfig, Learn!Empty
    <3> QED
      BY <1>0, <2>3, <3>1, <3>2 DEF UpdatesInv, Learn!Empty
  <2>4. CASE Learn!Write
    BY <1>0, <2>4 DEF UpdatesInv, Learn!Write
  <2>5. CASE Learn!WriteFails
    BY <1>0, <2>5 DEF UpdatesInv, Learn!WriteFails
  <2>6. CASE Learn!AckFeedback
    BY <1>0, <2>6 DEF UpdatesInv, Learn!AckFeedback
  <2>7. CASE Learn!LearningCrash
    BY <1>0, <2>7 DEF UpdatesInv, Learn!LearningCrash
  <2> QED
    BY <1>2, <2>1, <2>2, <2>3, <2>4, <2>5, <2>6, <2>7 DEF LearnStep, Learn!LearningNext, Learn!Learn
<1>3. CASE EngineStep
  BY <1>0, <1>1, <1>3
     DEF EngineStep, Exec!Engine, Exec!Execute, Exec!WriteRow, Exec!Tell, Exec!AckMessage,
         Exec!Reject, Exec!ExecutorCrash
<1>4. CASE DeskStep
  <2>1. crashes' = crashes \/ crashes' = crashes + 1
    BY <1>4
       DEF DeskStep, Desk!Consumer, Desk!Views, Desk!StoreIncident, Desk!AckIncident,
           Desk!ConsumerCrash, Desk!Open, Desk!WriteDecision, Desk!PublishOutcome,
           Desk!SaveIncident, Desk!RequestFails, Desk!WebCrash
  <2>2. UNCHANGED learning
    BY <1>4 DEF DeskStep
  <2> QED
    BY <1>0, <1>1, <2>1, <2>2
<1>5. ASSUME NEW m \in Messages, PolicyRoute(m) PROVE UpdatesInv'
  BY <1>0, <1>1, <1>5 DEF PolicyRoute, Exec!RouteAuto, Desk!RouteHitl
<1>6. CASE UNCHANGED vars
  BY <1>0, <1>1, <1>6 DEF vars
<1> QED
  BY <1>2, <1>3, <1>4, <1>5, <1>6 DEF Next

\* The requests that have written their row and not yet reported it.
Unreported ==
  {o \in Operators :
     request[o] # None
     /\ request[o].place \in IF request[o].verb = "MODIFY" THEN {"written", "saved"} ELSE {"written"}}

InProgressSet == {o \in Operators : request[o] # None}

LoggedByEngine == IF epc = "logged" THEN 1 ELSE 0

\* Every report, and every one that is still to be made, has a row of its own.
CountInv ==
  /\ IsFiniteSet(InProgressSet)
  /\ Len(feedback) + Cardinality(Unreported) + LoggedByEngine <= Len(rows)

\* Whatever can be counted.
LEMMA Countable ==
  ASSUME TypeInv, CountInv
  PROVE  /\ Len(feedback) \in Nat /\ Len(rows) \in Nat
         /\ IsFiniteSet(Unreported) /\ Cardinality(Unreported) \in Nat
         /\ LoggedByEngine \in {0, 1}
<1>1. Len(feedback) \in Nat /\ Len(rows) \in Nat
  BY LenProperties DEF TypeInv, HistoryTypes
<1>2. Unreported \subseteq InProgressSet
  BY DEF Unreported, InProgressSet
<1>3. IsFiniteSet(Unreported) /\ Cardinality(Unreported) \in Nat
  BY <1>2, FS_Subset, FS_CardinalityType DEF CountInv
<1> QED
  BY <1>1, <1>3 DEF LoggedByEngine

\* Requests end, or one is opened or goes on.
LEMMA FewRequests ==
  ASSUME CountInv, NEW o \in Operators, \A p \in Operators : p # o => request'[p] \in {request[p], None}
  PROVE  IsFiniteSet(InProgressSet')
<1>1. InProgressSet' \subseteq InProgressSet \union {o}
  BY DEF InProgressSet
<1>2. IsFiniteSet(InProgressSet \union {o})
  BY FS_AddElement DEF CountInv
<1> QED
  BY <1>1, <1>2, FS_Subset

\* No request has anything more to report.
LEMMA NothingAdded ==
  ASSUME TypeInv, CountInv, UNCHANGED <<rows, feedback>>, LoggedByEngine' <= LoggedByEngine,
         LoggedByEngine' \in {0, 1},
         Unreported' \subseteq Unreported, IsFiniteSet(InProgressSet')
  PROVE  CountInv'
<1>1. Cardinality(Unreported') \in Nat /\ Cardinality(Unreported') <= Cardinality(Unreported)
  BY Countable, FS_Subset, FS_CardinalityType
<1>2. /\ Len(feedback') = Len(feedback) /\ Len(rows') = Len(rows)
      /\ Len(feedback) + Cardinality(Unreported) + LoggedByEngine <= Len(rows)
  BY DEF CountInv
<1>3. Len(feedback') + Cardinality(Unreported') + LoggedByEngine' <= Len(rows')
  BY <1>1, <1>2, Countable
<1> QED
  BY <1>3 DEF CountInv

\* Every step keeps the count.
LEMMA StepKeepsCount == TypeInv /\ CountInv /\ [Next]_vars => CountInv'
<1> SUFFICES ASSUME TypeInv, CountInv, [Next]_vars PROVE CountInv'
  OBVIOUS
<1>0. Len(feedback) + Cardinality(Unreported) + LoggedByEngine <= Len(rows)
  BY DEF CountInv
<1>1. ASSUME UNCHANGED <<rows, feedback, request>>, epc' = epc \/ epc' # "logged" PROVE CountInv'
  BY <1>1, NothingAdded DEF CountInv, InProgressSet, Unreported, LoggedByEngine
<1>2. CASE EngineStep
  <2>0. Unreported' = Unreported /\ InProgressSet' = InProgressSet
    BY <1>2 DEF EngineStep, dashboard, Unreported, InProgressSet
  <2>1. CASE Exec!WriteRow
    <3>1. LoggedByEngine = 0 /\ LoggedByEngine' = 1
      BY <2>1 DEF Exec!WriteRow, LoggedByEngine
    <3>2. Len(rows') = Len(rows) + 1 /\ feedback' = feedback
      <4>1. [event |-> Head(auto).event, decision |-> "AUTO_EXECUTE", payload |-> Head(auto).payload] \in Row
        BY <2>1, InHand DEF Exec!WriteRow, Row
      <4> QED
        BY <2>1, <4>1, AppendFacts DEF Exec!WriteRow, TypeInv, HistoryTypes
    <3>3. Len(feedback') + Cardinality(Unreported') + LoggedByEngine' <= Len(rows')
      BY <1>0, <2>0, <3>1, <3>2, Countable
    <3> QED
      BY <2>0, <3>3 DEF CountInv
  <2>2. CASE Exec!Tell
    <3>1. LoggedByEngine = 1 /\ LoggedByEngine' = 0
      BY <2>2 DEF Exec!Tell, LoggedByEngine
    <3>2. Len(feedback') = Len(feedback) + 1 /\ rows' = rows
      <4>1. Exec!Outcome(Head(auto)) \in Learn!Outcomes
        BY DEF Exec!Outcome, Learn!Outcomes, Learn!OUTCOME_SIGNALS
      <4>2. [event |-> Head(auto).event, outcome |-> Exec!Outcome(Head(auto)),
             payload |-> Head(auto).payload] \in Report
        BY <2>2, <4>1, InHand DEF Exec!Tell, Report
      <4> QED
        BY <2>2, <4>2, AppendFacts DEF Exec!Tell, TypeInv, HistoryTypes
    <3>3. Len(feedback') + Cardinality(Unreported') + LoggedByEngine' <= Len(rows')
      BY <1>0, <2>0, <3>1, <3>2, Countable
    <3> QED
      BY <2>0, <3>3 DEF CountInv
  <2>3. CASE ~Exec!WriteRow /\ ~Exec!Tell
    BY <1>1, <1>2, <2>3
       DEF EngineStep, Exec!Engine, Exec!Execute, Exec!AckMessage, Exec!Reject,
           Exec!ExecutorCrash, dashboard
  <2> QED
    BY <2>1, <2>2, <2>3
<1>3. CASE DeskStep
  <2>0. LoggedByEngine' = LoggedByEngine /\ LoggedByEngine \in {0, 1}
    BY <1>3 DEF DeskStep, executor, LoggedByEngine
  <2>1. ASSUME NEW o \in Operators, Desk!WriteDecision(o) PROVE CountInv'
    <3>1. /\ request[o].place = "read"
          /\ \A p \in Operators : p # o => request'[p] = request[p]
      BY <2>1, Stepped DEF Desk!WriteDecision
    <3>2. Unreported' \subseteq Unreported \union {o} /\ o \notin Unreported
      BY <3>1 DEF Unreported
    <3>3. IsFiniteSet(Unreported \union {o})
          /\ Cardinality(Unreported \union {o}) = Cardinality(Unreported) + 1
      BY <3>2, Countable, FS_AddElement
    <3>4. Cardinality(Unreported') \in Nat /\ Cardinality(Unreported') <= Cardinality(Unreported) + 1
      BY <3>2, <3>3, FS_Subset, FS_CardinalityType
    <3>5. Len(rows') = Len(rows) + 1 /\ feedback' = feedback
      <4>1. [event |-> request[o].event, decision |-> request[o].verb,
             payload |-> request[o].payload] \in Row
        BY <2>1, InProgress DEF Desk!WriteDecision, Row
      <4> QED
        BY <2>1, <4>1, AppendFacts DEF Desk!WriteDecision, TypeInv, HistoryTypes
    <3>6. Len(feedback') + Cardinality(Unreported') + LoggedByEngine' <= Len(rows')
      BY <1>0, <2>0, <3>4, <3>5, Countable
    <3> QED
      BY <3>1, <3>6, FewRequests DEF CountInv
  <2>2. ASSUME NEW o \in Operators, Desk!PublishOutcome(o) PROVE CountInv'
    <3>1. /\ request[o] # None
          /\ request[o].place = IF request[o].verb = "MODIFY" THEN "saved" ELSE "written"
      BY <2>2 DEF Desk!PublishOutcome, Desk!PublishTurn
    <3>2. /\ request'[o] # None => request'[o].place = "published"
          /\ \A p \in Operators : p # o => request'[p] = request[p]
      <4>1. CASE request[o].verb = "MODIFY"
        BY <2>2, <4>1 DEF Desk!PublishOutcome, Desk!EndRequest, TypeInv, DeskTypes
      <4>2. CASE request[o].verb # "MODIFY"
        BY <2>2, <3>1, <4>2, Stepped DEF Desk!PublishOutcome
      <4> QED
        BY <4>1, <4>2
    <3>3. o \in Unreported /\ Unreported' \subseteq Unreported \ {o}
      BY <3>1, <3>2 DEF Unreported
    <3>4. IsFiniteSet(Unreported \ {o})
          /\ Cardinality(Unreported \ {o}) = Cardinality(Unreported) - 1
      BY <3>3, Countable, FS_RemoveElement
    <3>5. Cardinality(Unreported') \in Nat /\ Cardinality(Unreported') <= Cardinality(Unreported) - 1
      BY <3>3, <3>4, FS_Subset, FS_CardinalityType
    <3>6. Len(feedback') = Len(feedback) + 1 /\ rows' = rows
      <4>1. \A v \in Desk!Verbs : Desk!HitlOutcome[v] \in Learn!Outcomes
        BY DEF Desk!Verbs, Desk!HitlOutcome, Learn!Outcomes, Learn!OUTCOME_SIGNALS
      <4>2. [event |-> request[o].event, outcome |-> Desk!HitlOutcome[request[o].verb],
             payload |-> request[o].payload] \in Report
        BY <3>1, <4>1, InProgress DEF Report
      <4> QED
        BY <2>2, <4>2, AppendFacts DEF Desk!PublishOutcome, TypeInv, HistoryTypes
    <3>7. Len(feedback') + Cardinality(Unreported') + LoggedByEngine' <= Len(rows')
      BY <1>0, <2>0, <3>5, <3>6, Countable
    <3> QED
      BY <3>2, <3>7, FewRequests DEF CountInv
  <2>3. ASSUME NEW o \in Operators, Desk!SaveIncident(o) PROVE CountInv'
    <3>1. /\ request[o] # None
          /\ request[o].verb = "MODIFY" => request[o].place = "written"
      BY <2>3 DEF Desk!SaveIncident, Desk!SaveTurn
    <3>2. /\ request[o].verb # "MODIFY" => request'[o] = None
          /\ \A p \in Operators : p # o => request'[p] = request[p]
      BY <2>3, <3>1, Stepped DEF Desk!SaveIncident, Desk!EndRequest, TypeInv, DeskTypes
    <3>3. request[o].verb = "MODIFY" => o \in Unreported
      BY <3>1 DEF Unreported
    <3>4. Unreported' \subseteq Unreported
      BY <3>2, <3>3 DEF Unreported
    <3> QED
      BY <2>0, <2>3, <3>2, <3>4, NothingAdded, FewRequests DEF Desk!SaveIncident
  <2>4. ASSUME NEW o \in Operators, NEW verb \in Desk!Verbs, NEW e \in Events, Desk!Open(o, verb, e)
        PROVE CountInv'
    <3>1. /\ request'[o].place = "read"
          /\ \A p \in Operators : p # o => request'[p] = request[p]
      BY <2>4 DEF Desk!Open, TypeInv, DeskTypes
    <3>2. Unreported' \subseteq Unreported
      BY <3>1 DEF Unreported
    <3> QED
      BY <2>0, <2>4, <3>1, <3>2, NothingAdded, FewRequests DEF Desk!Open
  <2>5. ASSUME NEW o \in Operators, Desk!RequestFails(o) PROVE CountInv'
    <3>1. request'[o] = None /\ \A p \in Operators : p # o => request'[p] = request[p]
      BY <2>5 DEF Desk!RequestFails, Desk!EndRequest, TypeInv, DeskTypes
    <3>2. Unreported' \subseteq Unreported
      BY <3>1 DEF Unreported
    <3> QED
      BY <2>0, <2>5, <3>1, <3>2, NothingAdded, FewRequests DEF Desk!RequestFails
  <2>6. CASE Desk!WebCrash
    <3>1. Unreported' = {} /\ InProgressSet' = {}
      BY <2>6 DEF Desk!WebCrash, Unreported, InProgressSet
    <3> QED
      BY <2>0, <2>6, <3>1, NothingAdded, FS_EmptySet DEF Desk!WebCrash
  <2>7. CASE Desk!Consumer
    BY <1>1, <1>3, <2>7
       DEF DeskStep, executor, Desk!Consumer, Desk!StoreIncident, Desk!AckIncident, Desk!ConsumerCrash
  <2> QED
    BY <1>3, <2>1, <2>2, <2>3, <2>4, <2>5, <2>6, <2>7 DEF DeskStep, Desk!Views
<1>4. CASE LearnStep
  BY <1>1, <1>4 DEF LearnStep, executor, dashboard, Learn!LearningNext, Learn!Learn, Learn!Upsert,
     Learn!UpsertFails, Learn!Empty, Learn!Write, Learn!WriteFails, Learn!AckFeedback,
     Learn!LearningCrash
<1>5. ASSUME NEW m \in Messages, PolicyRoute(m) PROVE CountInv'
  BY <1>1, <1>5 DEF PolicyRoute, Exec!RouteAuto, Desk!RouteHitl, executor, dashboard
<1>6. CASE UNCHANGED vars
  BY <1>1, <1>6 DEF vars, executor, dashboard
<1> QED
  BY <1>2, <1>3, <1>4, <1>5, <1>6 DEF Next

\* The threshold moves no more often than decisions were made, but for the
\* deaths of Layer 3 and of the Learning Agent.
THEOREM UpdatesAreFew == Spec => []UpdatesAreDecisions
<1>1. Init => UpdatesInv
  BY DEF Init, Learn!LearningInit, Learn!DefaultConfig, UpdatesInv
<1>2. Init => CountInv
  <2> SUFFICES ASSUME Init PROVE CountInv
    OBVIOUS
  <2>1. /\ Unreported = {} /\ InProgressSet = {} /\ LoggedByEngine = 0
        /\ Len(feedback) = 0 /\ Len(rows) = 0
    BY DEF Init, Exec!ExecutorInit, Desk!DashboardInit, Unreported, InProgressSet, LoggedByEngine
  <2> QED
    BY <2>1, FS_EmptySet DEF CountInv
<1>3. TypeInv /\ UpdatesInv /\ CountInv => UpdatesAreDecisions
  <2> SUFFICES ASSUME TypeInv, UpdatesInv, CountInv PROVE UpdatesAreDecisions
    OBVIOUS
  <2>0. learned.updates \in Nat
    <3>1. learned \in [threshold : Thresholds, updates : Nat]
      BY ConfigsAre DEF TypeInv, LearningTypes
    <3> QED
      BY <3>1
  <2>1. /\ handled \in Nat /\ crashes \in Nat /\ learned.updates \in Nat
        /\ handled + (IF lpc = "saved" THEN 1 ELSE 0) <= Len(feedback)
    BY <2>0, Countable DEF TypeInv, LearningTypes, HistoryTypes
  <2>2. Len(feedback) <= Len(rows)
    BY Countable DEF CountInv
  <2>3. learned.updates <= handled + crashes + (IF lpc = "saved" THEN 1 ELSE 0)
    BY DEF UpdatesInv
  <2> QED
    BY <2>1, <2>2, <2>3, Countable DEF UpdatesAreDecisions
<1> QED
  BY <1>1, <1>2, <1>3, StepKeepsUpdates, StepKeepsCount, TypesHold, PTL DEF Spec
-----------------------------------------------------------------------------
(* A remediation is repeated and reported again only after a death.        *)

Held(m) == epc # "idle" /\ Head(auto) = m

\* A message is routed once, and waits at one place.
QueueInv ==
  /\ \A i, j \in DOMAIN auto : auto[i] = auto[j] => i = j
  /\ \A i \in DOMAIN auto : auto[i] \in sent
  /\ remedied \in [Messages -> Nat]

NRows(m) == Cardinality(Exec!RowsOf(m))

NReports(m) == Cardinality(Exec!FeedbackOf(m))

\* What was done for a message, more often than engines died over it only once
\* it is in hand or done with.
RepeatsAt(m) ==
  /\ remedied[m] <= crashes + 1 /\ NRows(m) <= crashes + 1 /\ NReports(m) <= crashes + 1
  /\ Waits(m) =>
       /\ ~Held(m) => remedied[m] <= crashes
       /\ ~(Held(m) /\ epc \in {"logged", "told"}) => NRows(m) <= crashes
       /\ ~(Held(m) /\ epc = "told") => NReports(m) <= crashes
  /\ m \notin sent => remedied[m] = 0 /\ NRows(m) = 0 /\ NReports(m) = 0

\* Every report, and the one to be made, has its row, and is true.
TraceAt(m) ==
  /\ NReports(m) + (IF Held(m) /\ epc = "logged" THEN 1 ELSE 0) <= NRows(m)
  /\ remedied[m] > 0 => m.payload \notin Inactive
  /\ (Held(m) \/ NReports(m) > 0) /\ m.payload \notin Inactive => remedied[m] > 0

ExecutionInv == QueueInv /\ \A m \in Messages : RepeatsAt(m) /\ TraceAt(m)

\* Rows and reports of a message can be counted.
LEMMA Counts ==
  ASSUME TypeInv, NEW m \in Messages
  PROVE  /\ IsFiniteSet(Exec!RowsOf(m)) /\ NRows(m) \in Nat
         /\ IsFiniteSet(Exec!FeedbackOf(m)) /\ NReports(m) \in Nat
         /\ NReports(m) = 0 <=> Exec!FeedbackOf(m) = {}
<1>1. /\ DOMAIN rows = 1..Len(rows) /\ Len(rows) \in Nat
      /\ DOMAIN feedback = 1..Len(feedback) /\ Len(feedback) \in Nat
  BY LenProperties DEF TypeInv, HistoryTypes
<1>2. Exec!RowsOf(m) \subseteq 1..Len(rows) /\ Exec!FeedbackOf(m) \subseteq 1..Len(feedback)
  BY <1>1 DEF Exec!RowsOf, Exec!FeedbackOf
<1>3. IsFiniteSet(1..Len(rows)) /\ IsFiniteSet(1..Len(feedback))
  BY <1>1, FS_Interval
<1> QED
  BY <1>2, <1>3, FS_Subset, FS_CardinalityType, FS_EmptySet DEF NRows, NReports

\* One more row counts for the message it was written for.
LEMMA OneMoreRow ==
  ASSUME TypeInv, NEW row \in Row, rows' = Append(rows, row), NEW m \in Messages
  PROVE  NRows(m)' = IF row.event = m.event /\ row.payload = m.payload /\ row.decision = "AUTO_EXECUTE"
                     THEN NRows(m) + 1 ELSE NRows(m)
<1>1. /\ DOMAIN rows = 1..Len(rows) /\ Len(rows) \in Nat
      /\ DOMAIN rows' = 1..Len(rows) + 1
      /\ rows'[Len(rows) + 1] = row
      /\ \A i \in 1..Len(rows) : rows'[i] = rows[i]
  BY AppendFacts DEF TypeInv, HistoryTypes
<1>2. CASE row.event = m.event /\ row.payload = m.payload /\ row.decision = "AUTO_EXECUTE"
  <2>1. Exec!RowsOf(m)' = Exec!RowsOf(m) \union {Len(rows) + 1} /\ Len(rows) + 1 \notin Exec!RowsOf(m)
    BY <1>1, <1>2 DEF Exec!RowsOf
  <2>2. Cardinality(Exec!RowsOf(m)') = Cardinality(Exec!RowsOf(m)) + 1
    BY <2>1, Counts, FS_AddElement
  <2> QED
    BY <1>2, <2>2 DEF NRows
<1>3. CASE ~(row.event = m.event /\ row.payload = m.payload /\ row.decision = "AUTO_EXECUTE")
  <2>1. Exec!RowsOf(m)' = Exec!RowsOf(m)
    BY <1>1, <1>3 DEF Exec!RowsOf
  <2> QED
    BY <1>3, <2>1 DEF NRows
<1> QED
  BY <1>2, <1>3

\* One more report counts for the message it is about.
LEMMA OneMoreReport ==
  ASSUME TypeInv, NEW report \in Report, feedback' = Append(feedback, report), NEW m \in Messages
  PROVE  NReports(m)' = IF report.event = m.event /\ report.payload = m.payload
                           /\ report.outcome = Exec!Outcome(m)
                        THEN NReports(m) + 1 ELSE NReports(m)
<1>1. /\ DOMAIN feedback = 1..Len(feedback) /\ Len(feedback) \in Nat
      /\ DOMAIN feedback' = 1..Len(feedback) + 1
      /\ feedback'[Len(feedback) + 1] = report
      /\ \A i \in 1..Len(feedback) : feedback'[i] = feedback[i]
  BY AppendFacts DEF TypeInv, HistoryTypes
<1> DEFINE about == report.event = m.event /\ report.payload = m.payload
                    /\ report.outcome = Exec!Outcome(m)
<1>2. CASE about
  <2>1. /\ Exec!FeedbackOf(m)' = Exec!FeedbackOf(m) \union {Len(feedback) + 1}
        /\ Len(feedback) + 1 \notin Exec!FeedbackOf(m)
    BY <1>1, <1>2 DEF Exec!FeedbackOf, Exec!Outcome
  <2>2. IsFiniteSet(Exec!FeedbackOf(m))
    BY Counts
  <2>3. Cardinality(Exec!FeedbackOf(m)') = Cardinality(Exec!FeedbackOf(m)) + 1
    BY <2>1, <2>2, FS_AddElement
  <2> QED
    BY <1>2, <2>3 DEF NReports
<1>3. CASE ~about
  <2>1. Exec!FeedbackOf(m)' = Exec!FeedbackOf(m)
    BY <1>1, <1>3 DEF Exec!FeedbackOf, Exec!Outcome
  <2> QED
    BY <1>3, <2>1 DEF NReports
<1> QED
  BY <1>2, <1>3

\* Rows and reports that do not come from the engine count for no message.
LEMMA OthersDoNotCount ==
  ASSUME TypeInv, DeskStep \/ LearnStep
  PROVE  \A m \in Messages : NRows(m)' = NRows(m) /\ NReports(m)' = NReports(m)
<1> SUFFICES ASSUME NEW m \in Messages PROVE NRows(m)' = NRows(m) /\ NReports(m)' = NReports(m)
  OBVIOUS
<1>1. ASSUME UNCHANGED rows PROVE NRows(m)' = NRows(m)
  BY <1>1 DEF NRows, Exec!RowsOf
<1>2. ASSUME UNCHANGED feedback PROVE NReports(m)' = NReports(m)
  BY <1>2 DEF NReports, Exec!FeedbackOf, Exec!Outcome
<1>3. CASE LearnStep
  BY <1>1, <1>2, <1>3
     DEF LearnStep, Learn!LearningNext, Learn!Learn, Learn!Upsert, Learn!UpsertFails, Learn!Empty,
         Learn!Write, Learn!WriteFails, Learn!AckFeedback, Learn!LearningCrash
<1>4. ASSUME NEW o \in Operators, Desk!WriteDecision(o) PROVE NRows(m)' = NRows(m) /\ NReports(m)' = NReports(m)
  <2> DEFINE row == [event |-> request[o].event, decision |-> request[o].verb,
                     payload |-> request[o].payload]
  <2>1. row \in Row /\ rows' = Append(rows, row) /\ feedback' = feedback
    BY <1>4, InProgress DEF Desk!WriteDecision, Row
  <2>2. row.decision # "AUTO_EXECUTE"
    BY <1>4, InProgress DEF Desk!WriteDecision, Desk!Verbs
  <2> HIDE DEF row
  <2> QED
    BY <1>2, <2>1, <2>2, OneMoreRow
<1>5. ASSUME NEW o \in Operators, Desk!PublishOutcome(o) PROVE NRows(m)' = NRows(m) /\ NReports(m)' = NReports(m)
  <2> DEFINE report == [event |-> request[o].event, outcome |-> Desk!HitlOutcome[request[o].verb],
                        payload |-> request[o].payload]
  <2>1. \A v \in Desk!Verbs : /\ Desk!HitlOutcome[v] \in Learn!Outcomes
                              /\ Desk!HitlOutcome[v] # Exec!Outcome(m)
    BY DEF Desk!Verbs, Desk!HitlOutcome, Learn!Outcomes, Learn!OUTCOME_SIGNALS, Exec!Outcome
  <2>2. report \in Report /\ feedback' = Append(feedback, report) /\ rows' = rows
    BY <1>5, <2>1, InProgress DEF Desk!PublishOutcome, Desk!PublishTurn, Report
  <2>3. report.outcome # Exec!Outcome(m)
    BY <1>5, <2>1, InProgress DEF Desk!PublishOutcome, Desk!PublishTurn
  <2> HIDE DEF report
  <2> QED
    BY <1>1, <2>2, <2>3, OneMoreReport
<1>6. CASE DeskStep
  <2>1. \/ UNCHANGED <<rows, feedback>>
        \/ \E o \in Operators : Desk!WriteDecision(o) \/ Desk!PublishOutcome(o)
    BY <1>6 DEF DeskStep, Desk!Consumer, Desk!Views, Desk!StoreIncident, Desk!AckIncident,
       Desk!ConsumerCrash, Desk!Open, Desk!SaveIncident, Desk!RequestFails, Desk!WebCrash
  <2> QED
    BY <1>1, <1>2, <1>4, <1>5, <2>1
<1> QED
  BY <1>3, <1>6

\* The head of the queue is taken off it.
LEMMA HeadLeaves ==
  ASSUME TypeInv, QueueInv, auto # <<>>, auto' = Tail(auto), UNCHANGED <<sent, remedied>>
  PROVE  QueueInv' /\ \A m : Waits(m)' => Waits(m) /\ m # Head(auto)
<1>1. /\ Head(auto) = auto[1] /\ Len(auto) \in Nat \ {0} /\ DOMAIN auto = 1..Len(auto)
      /\ DOMAIN auto' = 1..Len(auto) - 1
      /\ \A i \in 1..Len(auto) - 1 : auto'[i] = auto[i + 1]
  BY TailFacts DEF TypeInv, ExecutorTypes
<1>2. \A i \in DOMAIN auto' : i + 1 \in DOMAIN auto /\ auto'[i] = auto[i + 1] /\ i + 1 # 1
  BY <1>1
<1>3. 1 \in DOMAIN auto
  BY <1>1
<1>4. \A i, j \in DOMAIN auto' : auto'[i] = auto'[j] => i = j
  <2> TAKE i, j \in DOMAIN auto'
  <2> HAVE auto'[i] = auto'[j]
  <2>1. i + 1 = j + 1
    BY <1>2 DEF QueueInv
  <2> QED
    BY <1>1, <2>1
<1>5. QueueInv'
  BY <1>2, <1>4 DEF QueueInv
<1>6. \A m : Waits(m)' => Waits(m) /\ m # Head(auto)
  BY <1>1, <1>2, <1>3 DEF Waits, QueueInv
<1> QED
  BY <1>5, <1>6

\* A message that was not sent before is put into the queue.
LEMMA NewMessage ==
  ASSUME TypeInv, QueueInv, NEW m \in Messages, m \notin sent,
         auto' = Append(auto, m), sent' = sent \union {m}, remedied' = remedied
  PROVE  QueueInv' /\ \A n : Waits(n)' => Waits(n) \/ n = m
<1>1. /\ DOMAIN auto = 1..Len(auto) /\ Len(auto) \in Nat
      /\ DOMAIN auto' = 1..Len(auto) + 1
      /\ auto'[Len(auto) + 1] = m
      /\ \A i \in 1..Len(auto) : auto'[i] = auto[i]
  BY AppendFacts DEF TypeInv, ExecutorTypes
<1>2. \A i \in DOMAIN auto' : \/ i \in DOMAIN auto /\ auto'[i] = auto[i] /\ auto[i] # m
                              \/ i = Len(auto) + 1 /\ auto'[i] = m
  BY <1>1 DEF QueueInv
<1>3. QueueInv'
  BY <1>2 DEF QueueInv
<1> QED
  BY <1>2, <1>3 DEF Waits

\* The numbers of a message.
LEMMA Numbers ==
  ASSUME TypeInv, ExecutionInv, NEW m \in Messages
  PROVE  /\ remedied[m] \in Nat /\ NRows(m) \in Nat /\ NReports(m) \in Nat /\ crashes \in Nat
         /\ RepeatsAt(m) /\ TraceAt(m)
  BY Counts DEF TypeInv, HistoryTypes, ExecutionInv, QueueInv

\* The head of the queue waits.
LEMMA HeadWaits ==
  ASSUME TypeInv, auto # <<>>
  PROVE  Head(auto) \in Messages /\ Waits(Head(auto))
  BY TailFacts DEF TypeInv, ExecutorTypes, Waits

\* Nothing happens to the messages of the engine, or some process dies.
LEMMA EngineRests ==
  ASSUME TypeInv, ExecutionInv,
         \A m \in Messages : NRows(m)' = NRows(m) /\ NReports(m)' = NReports(m),
         UNCHANGED <<auto, epc, remedied>>, sent \subseteq sent',
         crashes' = crashes \/ crashes' = crashes + 1
  PROVE  ExecutionInv'
<1>1. QueueInv'
  BY DEF ExecutionInv, QueueInv
<1>2. ASSUME NEW m \in Messages PROVE RepeatsAt(m)'
  BY <1>2, Numbers DEF RepeatsAt, Held, Waits
<1>3. ASSUME NEW m \in Messages PROVE TraceAt(m)'
  BY <1>3, Numbers DEF TraceAt, Held
<1> QED
  BY <1>1, <1>2, <1>3 DEF ExecutionInv

\* The engine is done with the message in hand, or gave it up.
LEMMA EngineMovesOn ==
  ASSUME TypeInv, ExecutionInv, auto # <<>>, auto' = Tail(auto), epc' = "idle",
         UNCHANGED <<sent, remedied, rows, feedback, crashes>>
  PROVE  ExecutionInv'
<1>1. QueueInv' /\ \A m : Waits(m)' => Waits(m) /\ m # Head(auto)
  BY HeadLeaves DEF ExecutionInv
<1>2. \A m \in Messages : NRows(m)' = NRows(m) /\ NReports(m)' = NReports(m)
  BY DEF NRows, NReports, Exec!RowsOf, Exec!FeedbackOf, Exec!Outcome
<1>3. ASSUME NEW m \in Messages PROVE RepeatsAt(m)'
  BY <1>1, <1>2, Numbers DEF RepeatsAt, Held
<1>4. ASSUME NEW m \in Messages PROVE TraceAt(m)'
  BY <1>2, Numbers DEF TraceAt, Held
<1> QED
  BY <1>1, <1>3, <1>4 DEF ExecutionInv

\* The steps of the engine over the message in hand.
LEMMA EngineWorks ==
  ASSUME TypeInv, ExecutionInv, EngineStep
  PROVE  ExecutionInv'
<1>1. CASE Exec!AckMessage \/ Exec!Reject
  BY <1>1, EngineMovesOn DEF Exec!AckMessage, Exec!Reject, TypeInv, ExecutorTypes
<1>2. ASSUME UNCHANGED <<rows, feedback>>
      PROVE  \A m \in Messages : NRows(m)' = NRows(m) /\ NReports(m)' = NReports(m)
  BY <1>2 DEF NRows, NReports, Exec!RowsOf, Exec!FeedbackOf, Exec!Outcome
<1>3. CASE Exec!ExecutorCrash
  <2>1. /\ epc # "idle" /\ epc' = "idle" /\ crashes' = crashes + 1
        /\ UNCHANGED <<sent, auto, remedied, rows, feedback>>
    BY <1>3 DEF Exec!ExecutorCrash
  <2>2. QueueInv'
    BY <2>1 DEF ExecutionInv, QueueInv
  <2>3. ASSUME NEW m \in Messages PROVE RepeatsAt(m)' /\ TraceAt(m)'
    BY <1>2, <2>1, Numbers DEF RepeatsAt, TraceAt, Held, Waits
  <2> QED
    BY <2>2, <2>3 DEF ExecutionInv
<1>4. CASE Exec!Execute
  <2> DEFINE h == Head(auto)
  <2>1. /\ epc = "idle" /\ auto # <<>> /\ epc' = "executed" /\ h \in Messages /\ Waits(h)
        /\ UNCHANGED <<sent, auto, rows, feedback, crashes>>
    BY <1>4, HeadWaits DEF Exec!Execute
  <2>2. /\ remedied' \in [Messages -> Nat]
        /\ \A m \in Messages : remedied'[m] = IF m = h /\ m.payload \notin Inactive
                                              THEN remedied[m] + 1 ELSE remedied[m]
    BY <1>4, <2>1 DEF Exec!Execute, ExecutionInv, QueueInv
  <2>3. QueueInv'
    BY <2>1, <2>2 DEF ExecutionInv, QueueInv
  <2>4. \A m \in Messages : Waits(m)' = Waits(m) /\ (Held(m)' <=> m = h) /\ ~Held(m)
    BY <2>1 DEF Waits, Held
  <2>5. h \in sent
    BY <2>1 DEF ExecutionInv, QueueInv, Waits
  <2> HIDE DEF h
  <2>6. ASSUME NEW m \in Messages PROVE RepeatsAt(m)'
    BY <1>2, <2>1, <2>2, <2>4, <2>5, Numbers DEF RepeatsAt
  <2>7. ASSUME NEW m \in Messages PROVE TraceAt(m)'
    BY <1>2, <2>1, <2>2, <2>4, Numbers DEF TraceAt
  <2> QED
    BY <2>3, <2>6, <2>7 DEF ExecutionInv
<1>5. CASE Exec!WriteRow
  <2> DEFINE h == Head(auto)
             row == [event |-> h.event, decision |-> "AUTO_EXECUTE", payload |-> h.payload]
  <2>1. /\ epc = "executed" /\ epc' = "logged" /\ h \in Messages /\ Waits(h)
        /\ UNCHANGED <<sent, auto, remedied, feedback, crashes>>
    BY <1>5, HeadWaits DEF Exec!WriteRow, TypeInv, ExecutorTypes
  <2>2. row \in Row /\ rows' = Append(rows, row)
    BY <1>5, InHand DEF Exec!WriteRow, Row
  <2>3. \A m \in Messages : row.event = m.event /\ row.payload = m.payload <=> m = h
    BY <2>1, MessagesDiffer
  <2>4. \A m \in Messages : NRows(m)' = IF m = h THEN NRows(m) + 1 ELSE NRows(m)
    <3>1. row.decision = "AUTO_EXECUTE"
      OBVIOUS
    <3> HIDE DEF row, h
    <3> QED
      BY <2>2, <2>3, <3>1, OneMoreRow
  <2>5. \A m \in Messages : NReports(m)' = NReports(m)
    BY <2>1 DEF NReports, Exec!FeedbackOf, Exec!Outcome
  <2>6. \A m \in Messages : Waits(m)' = Waits(m) /\ (Held(m)' <=> m = h) /\ (Held(m) <=> m = h)
    BY <2>1 DEF Waits, Held
  <2>7. QueueInv' /\ h \in sent
    BY <2>1 DEF ExecutionInv, QueueInv, Waits
  <2> HIDE DEF h
  <2>8. ASSUME NEW m \in Messages PROVE RepeatsAt(m)'
    BY <2>1, <2>4, <2>5, <2>6, <2>7, Numbers DEF RepeatsAt
  <2>9. ASSUME NEW m \in Messages PROVE TraceAt(m)'
    BY <2>1, <2>4, <2>5, <2>6, Numbers DEF TraceAt
  <2> QED
    BY <2>7, <2>8, <2>9 DEF ExecutionInv
<1>6. CASE Exec!Tell
  <2> DEFINE h == Head(auto)
             report == [event |-> h.event, outcome |-> Exec!Outcome(h), payload |-> h.payload]
  <2>1. /\ epc = "logged" /\ epc' = "told" /\ h \in Messages /\ Waits(h)
        /\ UNCHANGED <<sent, auto, remedied, rows, crashes>>
    BY <1>6, HeadWaits DEF Exec!Tell, TypeInv, ExecutorTypes
  <2>2. report \in Report /\ feedback' = Append(feedback, report)
    <3>1. Exec!Outcome(h) \in Learn!Outcomes
      BY DEF Exec!Outcome, Learn!Outcomes, Learn!OUTCOME_SIGNALS
    <3> QED
      BY <1>6, <3>1, InHand DEF Exec!Tell, Report
  <2>3. \A m \in Messages : /\ report.event = m.event /\ report.payload = m.payload
                              /\ report.outcome = Exec!Outcome(m)
                            <=> m = h
    BY <2>1, MessagesDiffer
  <2>4. \A m \in Messages : NReports(m)' = IF m = h THEN NReports(m) + 1 ELSE NReports(m)
    <3> HIDE DEF report, h
    <3> QED
      BY <2>2, <2>3, OneMoreReport
  <2>5. \A m \in Messages : NRows(m)' = NRows(m)
    BY <2>1 DEF NRows, Exec!RowsOf
  <2>6. \A m \in Messages : Waits(m)' = Waits(m) /\ (Held(m)' <=> m = h) /\ (Held(m) <=> m = h)
    BY <2>1 DEF Waits, Held
  <2>7. QueueInv' /\ h \in sent
    BY <2>1 DEF ExecutionInv, QueueInv, Waits
  <2> HIDE DEF h
  <2>8. ASSUME NEW m \in Messages PROVE RepeatsAt(m)'
    BY <2>1, <2>4, <2>5, <2>6, <2>7, Numbers DEF RepeatsAt
  <2>9. ASSUME NEW m \in Messages PROVE TraceAt(m)'
    BY <2>1, <2>4, <2>5, <2>6, Numbers DEF TraceAt
  <2> QED
    BY <2>7, <2>8, <2>9 DEF ExecutionInv
<1> QED
  BY <1>1, <1>3, <1>4, <1>5, <1>6 DEF EngineStep, Exec!Engine

\* Every step keeps what was executed in agreement with what is on record.
LEMMA StepKeepsExecution == TypeInv /\ ExecutionInv /\ [Next]_vars => ExecutionInv'
<1> SUFFICES ASSUME TypeInv, ExecutionInv, [Next]_vars PROVE ExecutionInv'
  OBVIOUS
<1>1. CASE DeskStep
  <2>1. crashes' = crashes \/ crashes' = crashes + 1
    BY <1>1 DEF DeskStep, Desk!Consumer, Desk!Views, Desk!StoreIncident, Desk!AckIncident,
       Desk!ConsumerCrash, Desk!Open, Desk!WriteDecision, Desk!PublishOutcome,
       Desk!SaveIncident, Desk!RequestFails, Desk!WebCrash
  <2>2. UNCHANGED <<auto, epc, remedied, sent>>
    BY <1>1 DEF DeskStep, executor, Desk!Consumer, Desk!Views, Desk!StoreIncident,
       Desk!AckIncident, Desk!ConsumerCrash, Desk!Open, Desk!WriteDecision, Desk!PublishOutcome,
       Desk!SaveIncident, Desk!RequestFails, Desk!WebCrash
  <2> QED
    BY <1>1, <2>1, <2>2, OthersDoNotCount, EngineRests
<1>2. CASE LearnStep
  <2>1. crashes' = crashes \/ crashes' = crashes + 1
    BY <1>2 DEF LearnStep, Learn!LearningNext, Learn!Learn, Learn!Upsert, Learn!UpsertFails,
       Learn!Empty, Learn!Write, Learn!WriteFails, Learn!AckFeedback, Learn!LearningCrash
  <2>2. UNCHANGED <<auto, epc, remedied, sent>>
    BY <1>2 DEF LearnStep, executor
  <2> QED
    BY <1>2, <2>1, <2>2, OthersDoNotCount, EngineRests
<1>3. ASSUME UNCHANGED <<rows, feedback>>
      PROVE  \A m \in Messages : NRows(m)' = NRows(m) /\ NReports(m)' = NReports(m)
  BY <1>3 DEF NRows, NReports, Exec!RowsOf, Exec!FeedbackOf, Exec!Outcome
<1>4. CASE UNCHANGED vars
  <2>1. UNCHANGED <<auto, epc, remedied, sent, rows, feedback, crashes>>
    BY <1>4 DEF vars, executor
  <2> QED
    BY <1>3, <2>1, EngineRests
<1>5. ASSUME NEW m \in Messages, Desk!RouteHitl(m), UNCHANGED <<executor, learning>>
      PROVE ExecutionInv'
  BY <1>3, <1>5, EngineRests DEF Desk!RouteHitl, executor
<1>6. ASSUME NEW m \in Messages, Exec!RouteAuto(m) PROVE ExecutionInv'
  <2>1. /\ m \notin sent /\ sent' = sent \union {m} /\ auto' = Append(auto, m)
        /\ UNCHANGED <<epc, remedied, rows, feedback, crashes>>
    BY <1>6 DEF Exec!RouteAuto
  <2>2. QueueInv' /\ \A n : Waits(n)' => Waits(n) \/ n = m
    BY <2>1, NewMessage DEF ExecutionInv
  <2>3. epc # "idle" => Head(auto') = Head(auto)
    BY <2>1, AppendHead DEF TypeInv, ExecutorTypes
  <2>4. \A n \in Messages : Held(n)' <=> Held(n)
    BY <2>1, <2>3 DEF Held
  <2>5. ASSUME NEW n \in Messages PROVE RepeatsAt(n)'
    BY <1>3, <2>1, <2>2, <2>4, Numbers DEF RepeatsAt
  <2>6. ASSUME NEW n \in Messages PROVE TraceAt(n)'
    BY <1>3, <2>1, <2>4, Numbers DEF TraceAt
  <2> QED
    BY <2>2, <2>5, <2>6 DEF ExecutionInv
<1> QED
  BY <1>1, <1>2, <1>4, <1>5, <1>6, EngineWorks DEF Next, PolicyRoute

\* What was executed agrees with the table and with what was reported.
LEMMA ExecutionHolds == Spec => []ExecutionInv
<1>1. Init => ExecutionInv
  <2> SUFFICES ASSUME Init PROVE ExecutionInv
    OBVIOUS
  <2>1. /\ sent = {} /\ auto = <<>> /\ epc = "idle" /\ rows = <<>> /\ feedback = <<>>
        /\ remedied = [m \in Messages |-> 0] /\ crashes = 0
    BY DEF Init, Exec!ExecutorInit
  <2>2. QueueInv
    BY <2>1 DEF QueueInv
  <2>3. \A m \in Messages : NRows(m) = 0 /\ NReports(m) = 0
    BY <2>1, FS_EmptySet DEF NRows, NReports, Exec!RowsOf, Exec!FeedbackOf
  <2>4. \A m \in Messages : RepeatsAt(m) /\ TraceAt(m)
    BY <2>1, <2>3 DEF RepeatsAt, TraceAt, Held, Waits
  <2> QED
    BY <2>2, <2>4 DEF ExecutionInv
<1> QED
  BY <1>1, StepKeepsExecution, TypesHold, PTL DEF Spec

\* The engine's module counts as this one does.
LEMMA SameCardinality == \A S : Exec!Cardinality(S) = Cardinality(S)
  BY DEF Exec!Cardinality, Cardinality

\* Whatever fails, a message is acted on, recorded and reported once, and once
\* more for every death.
THEOREM RepeatsAreFew == Spec => []RepeatsAreCrashes
<1>1. TypeInv /\ ExecutionInv => RepeatsAreCrashes
  BY Numbers, SameCardinality DEF RepeatsAt, RepeatsAreCrashes, Exec!RepeatsAreCrashes, NRows, NReports
<1> QED
  BY <1>1, ExecutionHolds, TypesHold, PTL

\* The Learning Agent hears of a remediation as often as the table holds it at
\* most, and of a success only if something was done.
THEOREM ReportsHaveRows == Spec => []FeedbackHasRow
<1>1. TypeInv /\ ExecutionInv => FeedbackHasRow
  <2> SUFFICES ASSUME TypeInv, ExecutionInv, NEW m \in Messages
               PROVE  /\ NReports(m) <= NRows(m)
                      /\ Exec!FeedbackOf(m) # {} => (remedied[m] > 0 <=> m.payload \notin Inactive)
    BY SameCardinality DEF FeedbackHasRow, Exec!FeedbackHasRow, NRows, NReports
  <2>1. NReports(m) <= NRows(m)
    BY Numbers DEF TraceAt
  <2>2. ASSUME Exec!FeedbackOf(m) # {} PROVE NReports(m) > 0
    BY <2>2, Counts
  <2> QED
    BY <2>1, <2>2, Numbers DEF TraceAt
<1> QED
  BY <1>1, ExecutionHolds, TypesHold, PTL
=============================================================================
