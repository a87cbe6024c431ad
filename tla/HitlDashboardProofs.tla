------------------------ MODULE HitlDashboardProofs ------------------------
(***************************************************************************)
(* Safety of the operators' side of Layer 3 for every set of incidents and *)
(* payloads, every number of requests at a time and in all, and every      *)
(* number of deaths.                                                       *)
(***************************************************************************)
EXTENDS HitlDashboard, DataFacts, FiniteSetTheorems

Payloads == {m.payload : m \in HitlMessages}

Incident == [status : {"PENDING", "APPROVED", "REJECTED", "MODIFIED"}, payload : Payloads]

Request == [verb : Verbs, event : Events, payload : Payloads,
            place : {"read", "written", "published", "saved"}]

Row == [event : Events, decision : Verbs, payload : Payloads]

Outcome == [event : Events, outcome : {HitlOutcome[verb] : verb \in Verbs}, payload : Payloads]

\* What the queue, the incidents, the requests and the two histories hold.
TypeInv ==
  /\ hitl \in Seq(HitlMessages)
  /\ cpc = "stored" => hitl # <<>>
  /\ incident \in [Events -> Incident \union {None}]
  /\ request \in [Operators -> Request \union {None}]
  /\ rows \in Seq(Row)
  /\ feedback \in Seq(Outcome)

\* The status of a verb is that of no other, and so is its outcome.
LEMMA VerbsDiffer ==
  /\ \A v, w \in Verbs : Status[v] = Status[w] => v = w
  /\ \A v, w \in Verbs : HitlOutcome[v] = HitlOutcome[w] => v = w
  /\ \A v \in Verbs : Status[v] # "PENDING" /\ Status[v] \in {"APPROVED", "REJECTED", "MODIFIED"}
  BY DEF Verbs, Status, HitlOutcome

\* A request that is in progress is one.
LEMMA InProgress ==
  ASSUME TypeInv, NEW o \in Operators, request[o] # None
  PROVE  /\ request[o] \in Request
         /\ request[o].event \in Events /\ request[o].verb \in Verbs
         /\ request[o].payload \in Payloads
  BY DEF TypeInv, Request

\* A request gets to another place.
LEMMA Stepped ==
  ASSUME TypeInv, NEW o \in Operators, request[o] # None,
         NEW place \in {"read", "written", "published", "saved"}, Step(o, place)
  PROVE  /\ request' \in [Operators -> Request \union {None}]
         /\ request'[o] = [request[o] EXCEPT !.place = place]
         /\ \A p \in Operators : p # o => request'[p] = request[p]
  BY InProgress DEF TypeInv, Step, Request

\* The types hold.
LEMMA TypesHold == DashboardSpec => []TypeInv
<1>1. DashboardInit => TypeInv
  BY DEF DashboardInit, TypeInv
<1>2. TypeInv /\ [DashboardNext]_dashboardVars => TypeInv'
  <2> SUFFICES ASSUME TypeInv, [DashboardNext]_dashboardVars PROVE TypeInv'
    OBVIOUS
  <2> USE DEF TypeInv
  <2>1. ASSUME NEW m \in HitlMessages, RouteHitl(m) PROVE TypeInv'
    BY <2>1, AppendFacts DEF RouteHitl
  <2>2. CASE StoreIncident
    <3>1. Head(hitl) \in HitlMessages
      BY <2>2, TailFacts DEF StoreIncident
    <3>2. [status |-> "PENDING", payload |-> Head(hitl).payload] \in Incident
      BY <3>1 DEF Incident, Payloads
    <3> QED
      BY <2>2, <3>2 DEF StoreIncident
  <2>3. CASE AckIncident
    BY <2>3, TailFacts DEF AckIncident
  <2>4. CASE ConsumerCrash
    BY <2>4 DEF ConsumerCrash
  <2>5. ASSUME NEW o \in Operators, NEW verb \in Verbs, NEW e \in Events, Open(o, verb, e)
        PROVE TypeInv'
    <3>1. incident[e] \in Incident
      BY <2>5 DEF Open
    <3>2. [verb |-> verb, event |-> e, payload |-> incident[e].payload, place |-> "read"] \in Request
      BY <3>1 DEF Incident, Request
    <3> QED
      BY <2>5, <3>2 DEF Open
  <2>6. ASSUME NEW o \in Operators, WriteDecision(o) PROVE TypeInv'
    <3>1. [event |-> request[o].event, decision |-> request[o].verb,
           payload |-> request[o].payload] \in Row
      BY <2>6, InProgress DEF WriteDecision, Row
    <3> QED
      BY <2>6, <3>1, AppendFacts, Stepped DEF WriteDecision
  <2>7. ASSUME NEW o \in Operators, PublishOutcome(o) PROVE TypeInv'
    <3>1. [event |-> request[o].event, outcome |-> HitlOutcome[request[o].verb],
           payload |-> request[o].payload] \in Outcome
      BY <2>7, InProgress DEF PublishOutcome, PublishTurn, Outcome
    <3>2. request' \in [Operators -> Request \union {None}]
      BY <2>7, Stepped DEF PublishOutcome, PublishTurn, EndRequest
    <3> QED
      BY <2>7, <3>1, <3>2, AppendFacts DEF PublishOutcome
  <2>8. ASSUME NEW o \in Operators, SaveIncident(o) PROVE TypeInv'
    <3>1. [status |-> Status[request[o].verb], payload |-> request[o].payload] \in Incident
      BY <2>8, InProgress, VerbsDiffer DEF SaveIncident, SaveTurn, Incident
    <3>2. request' \in [Operators -> Request \union {None}]
      BY <2>8, Stepped DEF SaveIncident, SaveTurn, EndRequest
    <3> QED
      BY <2>8, <3>1, <3>2 DEF SaveIncident
  <2>9. ASSUME NEW o \in Operators, RequestFails(o) PROVE TypeInv'
    BY <2>9 DEF RequestFails, EndRequest
  <2>10. CASE WebCrash
    BY <2>10 DEF WebCrash
  <2>11. CASE UNCHANGED dashboardVars
    BY <2>11 DEF dashboardVars
  <2> QED
    BY <2>1, <2>2, <2>3, <2>4, <2>5, <2>6, <2>7, <2>8, <2>9, <2>10, <2>11
       DEF DashboardNext, Consumer, Views
<1> QED
  BY <1>1, <1>2, PTL DEF DashboardSpec
-----------------------------------------------------------------------------
(* What is appended to a history is one more entry of its kind.            *)

Where(history, x) == {i \in DOMAIN history : history[i] = x}

LEMMA OneMore ==
  ASSUME NEW S, NEW history \in Seq(S), NEW x \in S, NEW y
  PROVE  /\ x = y => Where(Append(history, x), y) = Where(history, y) \union {Len(history) + 1}
         /\ x # y => Where(Append(history, x), y) = Where(history, y)
         /\ Len(history) + 1 \notin Where(history, y)
<1>1. /\ Len(history) \in Nat /\ DOMAIN history = 1..Len(history)
      /\ DOMAIN Append(history, x) = 1..Len(history) + 1
      /\ Append(history, x)[Len(history) + 1] = x
      /\ \A i \in 1..Len(history) : Append(history, x)[i] = history[i]
  BY AppendFacts
<1>2. x = y => Where(Append(history, x), y) = Where(history, y) \union {Len(history) + 1}
  BY <1>1 DEF Where
<1>3. x # y => Where(Append(history, x), y) = Where(history, y)
  BY <1>1 DEF Where
<1> QED
  BY <1>1, <1>2, <1>3 DEF Where

LEMMA FiniteWhere ==
  ASSUME NEW S, NEW history \in Seq(S), NEW y
  PROVE  IsFiniteSet(Where(history, y)) /\ Cardinality(Where(history, y)) \in Nat
<1>1. Len(history) \in Nat /\ DOMAIN history = 1..Len(history)
  BY LenProperties
<1>2. IsFiniteSet(1..Len(history)) /\ Where(history, y) \subseteq 1..Len(history)
  BY <1>1, FS_Interval DEF Where
<1> QED
  BY <1>2, FS_Subset, FS_CardinalityType

RowOf(e, verb, payload) == [event |-> e, decision |-> verb, payload |-> payload]

OutcomeOf(e, verb, payload) == [event |-> e, outcome |-> HitlOutcome[verb], payload |-> payload]
-----------------------------------------------------------------------------
(* What an incident shows.                                                 *)

\* What a request left behind on its way.
RequestInv ==
  \A o \in Operators : request[o] # None =>
    LET q == request[o] IN
    /\ q.place # "read" => Where(rows, RowOf(q.event, q.verb, q.payload)) # {}
    /\ q.place = "published" => Where(feedback, OutcomeOf(q.event, q.verb, q.payload)) # {}

ShownInv ==
  \A e \in Events, verb \in Verbs : Decided(e, verb) =>
    /\ Where(rows, RowOf(e, verb, incident[e].payload)) # {}
    /\ verb # "MODIFY" => Where(feedback, OutcomeOf(e, verb, incident[e].payload)) # {}

\* Rows and outcomes are never taken back.
LEMMA HistoriesGrow ==
  ASSUME TypeInv, [DashboardNext]_dashboardVars, NEW y
  PROVE  /\ Where(rows, y) # {} => Where(rows', y) # {}
         /\ Where(feedback, y) # {} => Where(feedback', y) # {}
<1>1. ASSUME NEW o \in Operators, WriteDecision(o)
      PROVE Where(rows, y) # {} => Where(rows', y) # {}
  <2>1. RowOf(request[o].event, request[o].verb, request[o].payload) \in Row
    BY <1>1, InProgress DEF WriteDecision, Row, RowOf
  <2> QED
    BY <1>1, <2>1, OneMore DEF WriteDecision, TypeInv, RowOf
<1>2. ASSUME NEW o \in Operators, PublishOutcome(o)
      PROVE Where(feedback, y) # {} => Where(feedback', y) # {}
  <2>1. OutcomeOf(request[o].event, request[o].verb, request[o].payload) \in Outcome
    BY <1>2, InProgress DEF PublishOutcome, PublishTurn, Outcome, OutcomeOf
  <2> QED
    BY <1>2, <2>1, OneMore DEF PublishOutcome, TypeInv, OutcomeOf
<1>3. rows' = rows \/ \E o \in Operators : WriteDecision(o)
  BY DEF DashboardNext, Consumer, Views, RouteHitl, StoreIncident, AckIncident, ConsumerCrash,
         Open, PublishOutcome, SaveIncident, RequestFails, WebCrash, dashboardVars
<1>4. feedback' = feedback \/ \E o \in Operators : PublishOutcome(o)
  BY DEF DashboardNext, Consumer, Views, RouteHitl, StoreIncident, AckIncident, ConsumerCrash,
         Open, WriteDecision, SaveIncident, RequestFails, WebCrash, dashboardVars
<1> QED
  BY <1>1, <1>2, <1>3, <1>4

\* Every step keeps both.
LEMMA StepKeepsShown ==
  TypeInv /\ RequestInv /\ ShownInv /\ [DashboardNext]_dashboardVars => RequestInv' /\ ShownInv'
<1> SUFFICES ASSUME TypeInv, RequestInv, ShownInv, [DashboardNext]_dashboardVars
             PROVE  RequestInv' /\ ShownInv'
  OBVIOUS
<1>0. \A y : /\ Where(rows, y) # {} => Where(rows', y) # {}
             /\ Where(feedback, y) # {} => Where(feedback', y) # {}
  BY HistoriesGrow
<1>1. ASSUME \A o \in Operators : request'[o] # None => request'[o] = request[o]
      PROVE RequestInv'
  BY <1>0, <1>1 DEF RequestInv
<1>2. ASSUME incident' = incident PROVE ShownInv'
  BY <1>0, <1>2 DEF ShownInv, Decided
<1>3. ASSUME NEW m \in HitlMessages, RouteHitl(m) PROVE RequestInv' /\ ShownInv'
  BY <1>1, <1>2, <1>3 DEF RouteHitl
<1>4. CASE StoreIncident
  <2>1. ShownInv'
    <3>1. ASSUME NEW e \in Events, NEW verb \in Verbs, Decided(e, verb)'
          PROVE Decided(e, verb) /\ incident'[e] = incident[e]
      BY <1>4, <3>1, VerbsDiffer DEF StoreIncident, Decided, TypeInv
    <3> QED
      BY <1>0, <3>1 DEF ShownInv
  <2> QED
    BY <1>1, <1>4, <2>1 DEF StoreIncident
<1>5. CASE AckIncident \/ ConsumerCrash
  BY <1>1, <1>2, <1>5 DEF AckIncident, ConsumerCrash
<1>6. ASSUME NEW o \in Operators, NEW verb \in Verbs, NEW e \in Events, Open(o, verb, e)
      PROVE RequestInv' /\ ShownInv'
  <2>1. /\ request'[o].place = "read"
        /\ \A p \in Operators : p # o => request'[p] = request[p]
    BY <1>6 DEF Open, TypeInv
  <2>2. RequestInv'
    BY <1>0, <2>1 DEF RequestInv
  <2> QED
    BY <1>2, <1>6, <2>2 DEF Open
<1>7. ASSUME NEW o \in Operators, WriteDecision(o) PROVE RequestInv' /\ ShownInv'
  <2> DEFINE row == RowOf(request[o].event, request[o].verb, request[o].payload)
  <2>1. row \in Row
    BY <1>7, InProgress DEF WriteDecision, Row, RowOf
  <2>2. rows' = Append(rows, row) /\ rows \in Seq(Row)
    BY <1>7 DEF WriteDecision, RowOf, TypeInv
  <2> HIDE DEF row
  <2>3. Where(rows', row) # {}
    BY <2>1, <2>2, OneMore
  <2>4. /\ request'[o] = [request[o] EXCEPT !.place = "written"]
        /\ \A p \in Operators : p # o => request'[p] = request[p]
    BY <1>7, Stepped DEF WriteDecision
  <2>5. /\ request'[o].place = "written"
        /\ RowOf(request'[o].event, request'[o].verb, request'[o].payload) = row
    BY <1>7, <2>4, InProgress DEF WriteDecision, Request, row
  <2>6. RequestInv'
    BY <1>0, <2>3, <2>4, <2>5 DEF RequestInv
  <2> QED
    BY <1>2, <1>7, <2>6 DEF WriteDecision
<1>8. ASSUME NEW o \in Operators, PublishOutcome(o) PROVE RequestInv' /\ ShownInv'
  <2>1. request[o] # None /\ request[o].place # "read"
    BY <1>8 DEF PublishOutcome, PublishTurn
  <2>2. CASE request[o].verb = "MODIFY"
    BY <1>1, <1>2, <1>8, <2>2 DEF PublishOutcome, EndRequest, TypeInv
  <2>3. CASE request[o].verb # "MODIFY"
    <3> DEFINE outcome == OutcomeOf(request[o].event, request[o].verb, request[o].payload)
    <3>1. outcome \in Outcome
      BY <2>1, InProgress DEF Outcome, OutcomeOf
    <3>2. feedback' = Append(feedback, outcome) /\ feedback \in Seq(Outcome)
      BY <1>8 DEF PublishOutcome, OutcomeOf, TypeInv
    <3> HIDE DEF outcome
    <3>3. Where(feedback', outcome) # {}
      BY <3>1, <3>2, OneMore
    <3>4. /\ request'[o] = [request[o] EXCEPT !.place = "published"]
          /\ \A p \in Operators : p # o => request'[p] = request[p]
      BY <1>8, <2>1, <2>3, Stepped DEF PublishOutcome
    <3>5. /\ OutcomeOf(request'[o].event, request'[o].verb, request'[o].payload) = outcome
          /\ RowOf(request'[o].event, request'[o].verb, request'[o].payload)
               = RowOf(request[o].event, request[o].verb, request[o].payload)
      BY <2>1, <3>4, InProgress DEF Request, outcome
    <3>6. RequestInv'
      BY <1>0, <2>1, <3>3, <3>4, <3>5 DEF RequestInv
    <3> QED
      BY <1>2, <1>8, <3>6 DEF PublishOutcome
  <2> QED
    BY <2>2, <2>3
<1>9. ASSUME NEW o \in Operators, SaveIncident(o) PROVE RequestInv' /\ ShownInv'
  <2> DEFINE q == request[o]
  <2>1. /\ q # None /\ q \in Request /\ q.event \in Events /\ q.verb \in Verbs
        /\ q.place # "read" /\ (q.verb # "MODIFY" => q.place = "published")
    BY <1>9, InProgress DEF SaveIncident, SaveTurn
  <2>2. /\ Where(rows, RowOf(q.event, q.verb, q.payload)) # {}
        /\ q.verb # "MODIFY" => Where(feedback, OutcomeOf(q.event, q.verb, q.payload)) # {}
    BY <2>1 DEF RequestInv
  <2>3. ShownInv'
    <3> SUFFICES ASSUME NEW e \in Events, NEW verb \in Verbs, Decided(e, verb)'
                 PROVE  /\ Where(rows', RowOf(e, verb, incident'[e].payload)) # {}
                        /\ verb # "MODIFY" =>
                             Where(feedback', OutcomeOf(e, verb, incident'[e].payload)) # {}
      BY DEF ShownInv
    <3>1. CASE e = q.event
      <4>1. incident'[e].status = Status[q.verb] /\ incident'[e].payload = q.payload
        BY <1>9, <3>1 DEF SaveIncident, TypeInv
      <4>2. verb = q.verb
        BY <2>1, <4>1, VerbsDiffer DEF Decided
      <4> QED
        BY <1>0, <2>2, <3>1, <4>1, <4>2
    <3>2. CASE e # q.event
      <4>1. incident'[e] = incident[e]
        BY <1>9, <3>2 DEF SaveIncident, TypeInv
      <4> QED
        BY <1>0, <4>1 DEF ShownInv, Decided
    <3> QED
      BY <3>1, <3>2
  <2>4. RequestInv'
    <3>1. CASE q.verb = "MODIFY"
      <4>1. /\ request'[o] = [q EXCEPT !.place = "saved"]
            /\ \A p \in Operators : p # o => request'[p] = request[p]
        BY <1>9, <2>1, <3>1, Stepped DEF SaveIncident
      <4>2. /\ request'[o].place = "saved"
            /\ RowOf(request'[o].event, request'[o].verb, request'[o].payload)
                 = RowOf(q.event, q.verb, q.payload)
        BY <2>1, <4>1 DEF Request
      <4> HIDE DEF q
      <4> QED
        BY <1>0, <2>2, <4>1, <4>2 DEF RequestInv
    <3>2. CASE q.verb # "MODIFY"
      BY <1>1, <1>9, <3>2 DEF SaveIncident, EndRequest, TypeInv
    <3> QED
      BY <3>1, <3>2
  <2> QED
    BY <2>3, <2>4
<1>10. ASSUME NEW o \in Operators, RequestFails(o) PROVE RequestInv' /\ ShownInv'
  BY <1>1, <1>2, <1>10 DEF RequestFails, EndRequest, TypeInv
<1>11. CASE WebCrash
  BY <1>1, <1>2, <1>11 DEF WebCrash
<1>12. CASE UNCHANGED dashboardVars
  BY <1>1, <1>2, <1>12 DEF dashboardVars
<1> QED
  BY <1>3, <1>4, <1>5, <1>6, <1>7, <1>8, <1>9, <1>10, <1>11, <1>12
     DEF DashboardNext, Consumer, Views

LEMMA ShownHolds == DashboardSpec => [](RequestInv /\ ShownInv)
<1>1. DashboardInit => RequestInv /\ ShownInv
  BY DEF DashboardInit, RequestInv, ShownInv, Decided
<1> QED
  BY <1>1, StepKeepsShown, TypesHold, PTL DEF DashboardSpec

\* Whatever requests race with each other and with new messages of the same
\* incident: an incident that shows a decision has a row of exactly that
\* decision about exactly the payload it shows.
THEOREM DecisionsOnRecord == DashboardSpec => []DecisionOnRecord
<1>1. ShownInv => DecisionOnRecord
  BY DEF ShownInv, DecisionOnRecord, RowsFor, Where, RowOf
<1> QED
  BY <1>1, ShownHolds, PTL

\* The Learning Agent was told of every incident that shows APPROVED or
\* REJECTED.
THEOREM AnswersLearned == DashboardSpec => []AnsweredIsLearned
<1>1. ShownInv => AnsweredIsLearned
  BY DEF ShownInv, AnsweredIsLearned, FeedbackFor, Where, OutcomeOf, Verbs
<1> QED
  BY <1>1, ShownHolds, PTL
-----------------------------------------------------------------------------
(* What is reported is on record.                                          *)

\* The requests that have written a row and not yet reported it.
Unreported(e, verb, payload) ==
  {o \in Operators : /\ request[o] # None
                     /\ request[o].place \in {"written", "saved"}
                     /\ RowOf(request[o].event, request[o].verb, request[o].payload)
                          = RowOf(e, verb, payload)}

\* Requests in progress are finitely many, as requests are.
CountInv ==
  /\ IsFiniteSet({o \in Operators : request[o] # None})
  /\ \A e \in Events, verb \in Verbs, payload \in Payloads :
       Cardinality(Where(feedback, OutcomeOf(e, verb, payload)))
         + Cardinality(Unreported(e, verb, payload))
       <= Cardinality(Where(rows, RowOf(e, verb, payload)))

\* The three sets can be counted.
LEMMA Countable ==
  ASSUME TypeInv, CountInv, NEW e, NEW verb, NEW payload
  PROVE  /\ IsFiniteSet(Unreported(e, verb, payload))
         /\ Cardinality(Unreported(e, verb, payload)) \in Nat
         /\ Cardinality(Where(rows, RowOf(e, verb, payload))) \in Nat
         /\ Cardinality(Where(feedback, OutcomeOf(e, verb, payload))) \in Nat
<1>1. Unreported(e, verb, payload) \subseteq {o \in Operators : request[o] # None}
  BY DEF Unreported
<1>2. IsFiniteSet(Unreported(e, verb, payload))
  BY <1>1, FS_Subset DEF CountInv
<1> QED
  BY <1>2, FiniteWhere, FS_CardinalityType DEF TypeInv


\* No request is added to those that have a row to report.
LEMMA NothingAdded ==
  ASSUME TypeInv, CountInv, UNCHANGED <<rows, feedback>>,
         IsFiniteSet({o \in Operators : request'[o] # None}),
         \A o \in Operators :
           request'[o] # None /\ request'[o].place \in {"written", "saved"} =>
             /\ request[o] # None /\ request[o].place \in {"written", "saved"}
             /\ RowOf(request'[o].event, request'[o].verb, request'[o].payload)
                  = RowOf(request[o].event, request[o].verb, request[o].payload)
  PROVE  CountInv'
<1>1. ASSUME NEW e \in Events, NEW verb \in Verbs, NEW payload \in Payloads
      PROVE  Cardinality(Where(feedback', OutcomeOf(e, verb, payload)))
               + Cardinality(Unreported(e, verb, payload)')
             <= Cardinality(Where(rows', RowOf(e, verb, payload)))
  <2>1. Unreported(e, verb, payload)' \subseteq Unreported(e, verb, payload)
    BY DEF Unreported
  <2>2. /\ IsFiniteSet(Unreported(e, verb, payload))
        /\ Cardinality(Unreported(e, verb, payload)) \in Nat
        /\ Cardinality(Where(rows, RowOf(e, verb, payload))) \in Nat
        /\ Cardinality(Where(feedback, OutcomeOf(e, verb, payload))) \in Nat
    BY Countable
  <2>3. /\ Cardinality(Unreported(e, verb, payload)') \in Nat
        /\ Cardinality(Unreported(e, verb, payload)') <= Cardinality(Unreported(e, verb, payload))
    BY <2>1, <2>2, FS_Subset, FS_CardinalityType
  <2> QED
    BY <2>2, <2>3 DEF CountInv
<1> QED
  BY <1>1 DEF CountInv

\* Requests that end, or go on, are still finitely many.
LEMMA FewRequests ==
  ASSUME CountInv, \A o \in Operators : request'[o] # None => request[o] # None
  PROVE  IsFiniteSet({o \in Operators : request'[o] # None})
<1>1. {o \in Operators : request'[o] # None} \subseteq {o \in Operators : request[o] # None}
  OBVIOUS
<1> QED
  BY <1>1, FS_Subset DEF CountInv

\* A row is written by a request that has to report it.
LEMMA RowWritten ==
  ASSUME TypeInv, CountInv, NEW o \in Operators, WriteDecision(o)
  PROVE  CountInv'
<1> DEFINE row == RowOf(request[o].event, request[o].verb, request[o].payload)
<1>1. row \in Row /\ request[o] # None /\ request[o] \in Request
  BY InProgress DEF WriteDecision, Row, RowOf
<1>2. /\ rows' = Append(rows, row) /\ rows \in Seq(Row)
      /\ feedback' = feedback /\ request[o].place = "read"
  BY DEF WriteDecision, RowOf, TypeInv
<1>3. /\ request'[o] = [request[o] EXCEPT !.place = "written"]
      /\ \A p \in Operators : p # o => request'[p] = request[p]
  BY <1>1, Stepped DEF WriteDecision
<1>4. /\ request'[o].place = "written"
      /\ RowOf(request'[o].event, request'[o].verb, request'[o].payload) = row
  BY <1>1, <1>3 DEF Request
<1> HIDE DEF row
<1>5. ASSUME NEW e \in Events, NEW verb \in Verbs, NEW payload \in Payloads
      PROVE  Cardinality(Where(feedback', OutcomeOf(e, verb, payload)))
               + Cardinality(Unreported(e, verb, payload)')
             <= Cardinality(Where(rows', RowOf(e, verb, payload)))
  <2> DEFINE mine == Unreported(e, verb, payload)
             on == Where(rows, RowOf(e, verb, payload))
             told == Where(feedback, OutcomeOf(e, verb, payload))
  <2>1. /\ IsFiniteSet(mine) /\ Cardinality(mine) \in Nat
        /\ IsFiniteSet(on) /\ Cardinality(on) \in Nat
        /\ Cardinality(told) \in Nat
        /\ Cardinality(told) + Cardinality(mine) <= Cardinality(on)
    BY Countable, FiniteWhere DEF CountInv, TypeInv
  <2>2. o \notin mine
    BY <1>2 DEF Unreported
  <2>3. CASE row = RowOf(e, verb, payload)
    <3>1. mine' \subseteq mine \union {o}
      BY <1>3 DEF Unreported
    <3>2. IsFiniteSet(mine \union {o}) /\ Cardinality(mine \union {o}) = Cardinality(mine) + 1
      BY <2>1, <2>2, FS_AddElement
    <3>3. Cardinality(mine') \in Nat /\ Cardinality(mine') <= Cardinality(mine) + 1
      BY <3>1, <3>2, FS_Subset, FS_CardinalityType
    <3>4. /\ Where(rows', RowOf(e, verb, payload)) = on \union {Len(rows) + 1}
          /\ Len(rows) + 1 \notin on
      BY <1>1, <1>2, <2>3, OneMore
    <3>5. Cardinality(Where(rows', RowOf(e, verb, payload))) = Cardinality(on) + 1
      BY <2>1, <3>4, FS_AddElement
    <3> HIDE DEF mine, on, told
    <3>6. Cardinality(told) + Cardinality(mine') <= Cardinality(on) + 1
      BY <2>1, <3>3
    <3> QED
      BY <1>2, <3>5, <3>6 DEF told, mine
  <2>4. CASE row # RowOf(e, verb, payload)
    <3>1. mine' \subseteq mine
      BY <1>3, <1>4, <2>4 DEF Unreported
    <3>2. Cardinality(mine') \in Nat /\ Cardinality(mine') <= Cardinality(mine)
      BY <2>1, <3>1, FS_Subset, FS_CardinalityType
    <3>3. Where(rows', RowOf(e, verb, payload)) = on
      BY <1>1, <1>2, <2>4, OneMore
    <3> HIDE DEF mine, on, told
    <3>4. Cardinality(told) + Cardinality(mine') <= Cardinality(on)
      BY <2>1, <3>2
    <3> QED
      BY <1>2, <3>3, <3>4 DEF told, mine
  <2> QED
    BY <2>3, <2>4
<1>6. IsFiniteSet({p \in Operators : request'[p] # None})
  BY <1>1, <1>3, FewRequests
<1> QED
  BY <1>5, <1>6 DEF CountInv

\* An outcome is reported by a request that had to report it.
LEMMA OutcomeReported ==
  ASSUME TypeInv, CountInv, NEW o \in Operators, PublishOutcome(o)
  PROVE  CountInv'
<1> DEFINE q == request[o]
           outcome == OutcomeOf(q.event, q.verb, q.payload)
<1>1. outcome \in Outcome /\ q # None /\ q \in Request /\ q.verb \in Verbs
      /\ q.place \in {"written", "saved"}
  BY InProgress DEF PublishOutcome, PublishTurn, Outcome, OutcomeOf
<1>2. /\ feedback' = Append(feedback, outcome) /\ feedback \in Seq(Outcome)
      /\ rows' = rows
  BY DEF PublishOutcome, OutcomeOf, TypeInv
<1>3. /\ request'[o] # None => request'[o].place = "published"
      /\ \A p \in Operators : p # o => request'[p] = request[p]
  <2>1. CASE q.verb = "MODIFY"
    BY <2>1 DEF PublishOutcome, EndRequest, TypeInv
  <2>2. CASE q.verb # "MODIFY"
    BY <1>1, <2>2, Stepped DEF PublishOutcome, Request
  <2> QED
    BY <2>1, <2>2
<1>4. ASSUME NEW e \in Events, NEW verb \in Verbs, NEW payload \in Payloads
      PROVE  Cardinality(Where(feedback', OutcomeOf(e, verb, payload)))
               + Cardinality(Unreported(e, verb, payload)')
             <= Cardinality(Where(rows', RowOf(e, verb, payload)))
  <2> DEFINE mine == Unreported(e, verb, payload)
             on == Where(rows, RowOf(e, verb, payload))
             told == Where(feedback, OutcomeOf(e, verb, payload))
  <2>1. /\ IsFiniteSet(mine) /\ Cardinality(mine) \in Nat
        /\ Cardinality(on) \in Nat
        /\ IsFiniteSet(told) /\ Cardinality(told) \in Nat
        /\ Cardinality(told) + Cardinality(mine) <= Cardinality(on)
    BY Countable, FiniteWhere DEF CountInv, TypeInv
  <2>2. o \notin mine' /\ mine' \subseteq mine
    BY <1>3 DEF Unreported
  <2>3. CASE outcome = OutcomeOf(e, verb, payload)
    <3>1. verb = q.verb /\ e = q.event /\ payload = q.payload
      BY <1>1, <2>3, VerbsDiffer DEF OutcomeOf
    <3>2. o \in mine
      BY <1>1, <3>1 DEF Unreported
    <3>3. IsFiniteSet(mine \ {o}) /\ Cardinality(mine \ {o}) = Cardinality(mine) - 1
      BY <2>1, <3>2, FS_RemoveElement
    <3>4. mine' \subseteq mine \ {o}
      BY <2>2
    <3>5. Cardinality(mine') \in Nat /\ Cardinality(mine') <= Cardinality(mine) - 1
      BY <3>3, <3>4, FS_Subset, FS_CardinalityType
    <3>6. /\ Where(feedback', OutcomeOf(e, verb, payload)) = told \union {Len(feedback) + 1}
          /\ Len(feedback) + 1 \notin told
      BY <1>1, <1>2, <2>3, OneMore
    <3>7. Cardinality(Where(feedback', OutcomeOf(e, verb, payload))) = Cardinality(told) + 1
      BY <2>1, <3>6, FS_AddElement
    <3> HIDE DEF mine, on, told
    <3>8. Cardinality(told) + 1 + Cardinality(mine') <= Cardinality(on)
      BY <2>1, <3>5
    <3> QED
      BY <1>2, <3>7, <3>8 DEF on, mine
  <2>4. CASE outcome # OutcomeOf(e, verb, payload)
    <3>1. Cardinality(mine') \in Nat /\ Cardinality(mine') <= Cardinality(mine)
      BY <2>1, <2>2, FS_Subset, FS_CardinalityType
    <3>2. Where(feedback', OutcomeOf(e, verb, payload)) = told
      BY <1>1, <1>2, <2>4, OneMore
    <3> HIDE DEF mine, on, told
    <3>3. Cardinality(told) + Cardinality(mine') <= Cardinality(on)
      BY <2>1, <3>1
    <3> QED
      BY <1>2, <3>2, <3>3 DEF on, mine
  <2> QED
    BY <2>3, <2>4
<1>5. IsFiniteSet({p \in Operators : request'[p] # None})
  BY <1>1, <1>3, FewRequests
<1> QED
  BY <1>4, <1>5 DEF CountInv

\* Every step keeps the count.
LEMMA StepKeepsCount == TypeInv /\ CountInv /\ [DashboardNext]_dashboardVars => CountInv'
<1> SUFFICES ASSUME TypeInv, CountInv, [DashboardNext]_dashboardVars PROVE CountInv'
  OBVIOUS
<1>1. ASSUME UNCHANGED <<rows, feedback>>,
             \A o \in Operators : request'[o] # None => request'[o] = request[o]
      PROVE CountInv'
  BY <1>1, NothingAdded, FewRequests
<1>2. ASSUME NEW m \in HitlMessages, RouteHitl(m) PROVE CountInv'
  BY <1>1, <1>2 DEF RouteHitl
<1>3. CASE Consumer \/ WebCrash \/ UNCHANGED dashboardVars
  BY <1>1, <1>3
     DEF Consumer, StoreIncident, AckIncident, ConsumerCrash, WebCrash, dashboardVars
<1>4. ASSUME NEW o \in Operators, NEW verb \in Verbs, NEW e \in Events, Open(o, verb, e)
      PROVE CountInv'
  <2>1. /\ request'[o].place = "read" /\ UNCHANGED <<rows, feedback>>
        /\ \A p \in Operators : p # o => request'[p] = request[p]
    BY <1>4 DEF Open, TypeInv
  <2>2. {p \in Operators : request'[p] # None} \subseteq {p \in Operators : request[p] # None} \union {o}
    BY <2>1
  <2>3. IsFiniteSet({p \in Operators : request[p] # None} \union {o})
    BY FS_AddElement DEF CountInv
  <2>4. IsFiniteSet({p \in Operators : request'[p] # None})
    BY <2>2, <2>3, FS_Subset
  <2> QED
    BY <2>1, <2>4, NothingAdded
<1>5. ASSUME NEW o \in Operators, SaveIncident(o) PROVE CountInv'
  <2>1. request[o] # None /\ request[o] \in Request
    BY <1>5, InProgress DEF SaveIncident, SaveTurn
  <2>2. CASE request[o].verb = "MODIFY"
    <3>1. /\ request'[o] = [request[o] EXCEPT !.place = "saved"]
          /\ \A p \in Operators : p # o => request'[p] = request[p]
          /\ request[o].place = "written"
      BY <1>5, <2>1, <2>2, Stepped DEF SaveIncident, SaveTurn
    <3>2. RowOf(request'[o].event, request'[o].verb, request'[o].payload)
            = RowOf(request[o].event, request[o].verb, request[o].payload)
      BY <2>1, <3>1 DEF Request
    <3> QED
      BY <1>5, <2>1, <3>1, <3>2, NothingAdded, FewRequests DEF SaveIncident
  <2>3. CASE request[o].verb # "MODIFY"
    BY <1>1, <1>5, <2>3 DEF SaveIncident, EndRequest, TypeInv
  <2> QED
    BY <2>2, <2>3
<1>6. ASSUME NEW o \in Operators, RequestFails(o) PROVE CountInv'
  BY <1>1, <1>6 DEF RequestFails, EndRequest, TypeInv
<1> QED
  BY <1>2, <1>3, <1>4, <1>5, <1>6, RowWritten, OutcomeReported DEF DashboardNext, Views

\* No outcome is reported that the table of decisions does not hold, as often
\* as it is reported.
THEOREM OutcomesHaveRows == DashboardSpec => []OutcomeHasRow
<1>1. DashboardInit => CountInv
  <2> SUFFICES ASSUME DashboardInit PROVE CountInv
    OBVIOUS
  <2>1. {o \in Operators : request[o] # None} = {}
    BY DEF DashboardInit
  <2>2. ASSUME NEW e, NEW verb, NEW payload
        PROVE  /\ Unreported(e, verb, payload) = {}
               /\ Where(feedback, OutcomeOf(e, verb, payload)) = {}
               /\ Where(rows, RowOf(e, verb, payload)) = {}
    BY DEF DashboardInit, Unreported, Where
  <2> QED
    BY <2>1, <2>2, FS_EmptySet DEF CountInv
<1>2. TypeInv /\ CountInv => OutcomeHasRow
  <2> SUFFICES ASSUME TypeInv, CountInv, NEW i \in DOMAIN feedback, NEW verb \in Verbs
               PROVE  Cardinality(FeedbackFor(feedback[i].event, verb, feedback[i].payload))
                        <= Cardinality(RowsFor(feedback[i].event, verb, feedback[i].payload))
    BY DEF OutcomeHasRow
  <2> DEFINE e == feedback[i].event
             payload == feedback[i].payload
  <2>1. feedback[i] \in Outcome
    BY DEF TypeInv
  <2>2. e \in Events /\ payload \in Payloads
    BY <2>1 DEF Outcome
  <2>3. /\ FeedbackFor(e, verb, payload) = Where(feedback, OutcomeOf(e, verb, payload))
        /\ RowsFor(e, verb, payload) = Where(rows, RowOf(e, verb, payload))
    BY DEF FeedbackFor, RowsFor, Where, OutcomeOf, RowOf
  <2> HIDE DEF e, payload
  <2>4. /\ Cardinality(Unreported(e, verb, payload)) \in Nat
        /\ Cardinality(Where(rows, RowOf(e, verb, payload))) \in Nat
        /\ Cardinality(Where(feedback, OutcomeOf(e, verb, payload))) \in Nat
    BY Countable
  <2>5. Cardinality(Where(feedback, OutcomeOf(e, verb, payload)))
          <= Cardinality(Where(rows, RowOf(e, verb, payload)))
    BY <2>2, <2>4 DEF CountInv
  <2> QED
    BY <2>3, <2>5 DEF e, payload
<1> QED
  BY <1>1, <1>2, StepKeepsCount, TypesHold, PTL DEF DashboardSpec
=============================================================================
