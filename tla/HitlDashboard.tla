--------------------------- MODULE HitlDashboard ---------------------------
(***************************************************************************)
(* The operators' side of Layer 3: the management command consume_hitl,    *)
(* which turns the messages of hitl.queue into HitlIncident rows, and the  *)
(* views of the Django dashboard, one thread per request, in which         *)
(* operators approve, reject or modify incidents.  A view reads the        *)
(* incident once, at its beginning, and saves that copy at its end: status *)
(* and payload together.                                                   *)
(***************************************************************************)
EXTENDS Naturals, Sequences, FiniteSets

CONSTANTS
  HitlMessages,  \* the messages [event, payload] the Policy Agent may route here
  Events,        \* event ids
  Operators,     \* the requests that can be in progress at a time
  MaxRequests,   \* bound: how many requests are made
  MaxCrashes,    \* bound: how often a process of Layer 3 dies
  MayFail,       \* whether a database write or a publish can raise
  None           \* no such incident, no request in progress

ASSUME DashboardBounds ==
  /\ MaxRequests \in Nat
  /\ MaxCrashes \in Nat
  /\ MayFail \in BOOLEAN

VARIABLES
  sent,        \* the messages the Policy Agent routed
  hitl,        \* queue hitl.queue
  cpc,         \* consume_hitl: idle, stored
  incident,    \* table HitlIncident: event -> [status, payload]
  request,     \* per operator: the request in progress
  made,        \* how many requests were made
  rows,        \* table decisions
  feedback,    \* queue outcome.feedback: history
  crashes      \* how often a process died so far

dashboardVars == <<sent, hitl, cpc, incident, request, made, rows, feedback, crashes>>

Verbs == {"APPROVE", "REJECT", "MODIFY"}

Status == [APPROVE |-> "APPROVED", REJECT |-> "REJECTED", MODIFY |-> "MODIFIED"]

HitlOutcome == [APPROVE |-> "HITL_APPROVED", REJECT |-> "HITL_REJECTED",
                MODIFY |-> "HITL_MODIFIED"]

DashboardInit ==
  /\ sent = {}
  /\ hitl = <<>>
  /\ cpc = "idle"
  /\ incident = [e \in Events |-> None]
  /\ request = [o \in Operators |-> None]
  /\ made = 0
  /\ rows = <<>>
  /\ feedback = <<>>
  /\ crashes = 0

-----------------------------------------------------------------------------
(* consume_hitl.py                                                         *)

\* The Policy Agent publishes on hitl.queue.
RouteHitl(m) ==
  /\ m \notin sent
  /\ sent' = sent \union {m}
  /\ hitl' = Append(hitl, m)
  /\ UNCHANGED <<cpc, incident, request, made, rows, feedback, crashes>>

\* update_or_create by event id: whatever was known of the event, it is
\* pending now.  If this raises, the message goes back to the queue as it was.
StoreIncident ==
  LET m == Head(hitl) IN
  /\ cpc = "idle"
  /\ hitl # <<>>
  /\ incident' = [incident EXCEPT ![m.event] =
                    [status |-> "PENDING", payload |-> m.payload]]
  /\ cpc' = "stored"
  /\ UNCHANGED <<sent, hitl, request, made, rows, feedback, crashes>>

AckIncident ==
  /\ cpc = "stored"
  /\ hitl' = Tail(hitl)
  /\ cpc' = "idle"
  /\ UNCHANGED <<sent, incident, request, made, rows, feedback, crashes>>

\* consume_hitl dies between the database and the broker.
ConsumerCrash ==
  /\ crashes < MaxCrashes
  /\ cpc = "stored"
  /\ crashes' = crashes + 1
  /\ cpc' = "idle"
  /\ UNCHANGED <<sent, hitl, incident, request, made, rows, feedback>>

-----------------------------------------------------------------------------
(* views.py.  A request is [verb, event, payload, place].                  *)

Step(o, place) == request' = [request EXCEPT ![o].place = place]

EndRequest(o) == request' = [request EXCEPT ![o] = None]

\* HitlIncident.objects.get(id, status="PENDING") finds the incident.
Open(o, verb, e) ==
  /\ made < MaxRequests
  /\ request[o] = None
  /\ incident[e] # None
  /\ incident[e].status = "PENDING"
  /\ made' = made + 1
  /\ request' = [request EXCEPT ![o] =
       [verb |-> verb, event |-> e, payload |-> incident[e].payload, place |-> "read"]]
  /\ UNCHANGED <<sent, hitl, cpc, incident, rows, feedback, crashes>>

\* Variant: a decision that cannot be written is reported all the same.
MutWriteDecision(o) ==
  /\ request[o] # None
  /\ request[o].place = "read"
  /\ Step(o, "written")
  /\ UNCHANGED <<sent, hitl, cpc, incident, made, rows, feedback, crashes>>

\* write_decision
WriteDecision(o) ==
  /\ request[o] # None
  /\ request[o].place = "read"
  /\ rows' = Append(rows, [event |-> request[o].event, decision |-> request[o].verb,
                           payload |-> request[o].payload])
  /\ Step(o, "written")
  /\ UNCHANGED <<sent, hitl, cpc, incident, made, feedback, crashes>>

\* approve and reject publish next, modify_submit saves the incident first.
PublishTurn(o) ==
  /\ request[o] # None
  /\ request[o].place = IF request[o].verb = "MODIFY" THEN "saved" ELSE "written"

\* Variant: all views save first, as modify_submit does.
MutSaveTurn(o) == request[o] # None /\ request[o].place = "written"

SaveTurn(o) ==
  /\ request[o] # None
  /\ request[o].place = IF request[o].verb = "MODIFY" THEN "written" ELSE "published"

PublishOutcome(o) ==
  /\ PublishTurn(o)
  /\ feedback' = Append(feedback, [event |-> request[o].event,
                                   outcome |-> HitlOutcome[request[o].verb],
                                   payload |-> request[o].payload])
  /\ IF request[o].verb = "MODIFY" THEN EndRequest(o) ELSE Step(o, "published")
  /\ UNCHANGED <<sent, hitl, cpc, incident, made, rows, crashes>>

\* Variant: only the status column is written.
MutSaveIncident(o) ==
  /\ SaveTurn(o)
  /\ incident' = [incident EXCEPT ![request[o].event].status = Status[request[o].verb]]
  /\ IF request[o].verb = "MODIFY" THEN Step(o, "saved") ELSE EndRequest(o)
  /\ UNCHANGED <<sent, hitl, cpc, made, rows, feedback, crashes>>

\* incident.save(): every column of the copy read in Open.
SaveIncident(o) ==
  /\ SaveTurn(o)
  /\ incident' = [incident EXCEPT ![request[o].event] =
                    [status |-> Status[request[o].verb], payload |-> request[o].payload]]
  /\ IF request[o].verb = "MODIFY" THEN Step(o, "saved") ELSE EndRequest(o)
  /\ UNCHANGED <<sent, hitl, cpc, made, rows, feedback, crashes>>

\* A write or a publish raises: the operator sees an error page, and what was
\* done stays done; modify_submit catches the exception of its publish.
RequestFails(o) ==
  /\ MayFail
  /\ request[o] # None
  /\ EndRequest(o)
  /\ UNCHANGED <<sent, hitl, cpc, incident, made, rows, feedback, crashes>>

\* The web server dies and every request in progress with it.
WebCrash ==
  /\ crashes < MaxCrashes
  /\ \E o \in Operators : request[o] # None
  /\ crashes' = crashes + 1
  /\ request' = [o \in Operators |-> None]
  /\ UNCHANGED <<sent, hitl, cpc, incident, made, rows, feedback>>

Consumer == StoreIncident \/ AckIncident \/ ConsumerCrash

Views ==
  \/ \E o \in Operators :
       \/ \E verb \in Verbs, e \in Events : Open(o, verb, e)
       \/ WriteDecision(o)
       \/ PublishOutcome(o)
       \/ SaveIncident(o)
       \/ RequestFails(o)
  \/ WebCrash

DashboardNext == Consumer \/ Views \/ \E m \in HitlMessages : RouteHitl(m)

DashboardSpec == DashboardInit /\ [][DashboardNext]_dashboardVars
-----------------------------------------------------------------------------
(* Properties                                                              *)

RowsFor(e, verb, payload) ==
  {i \in DOMAIN rows : rows[i] = [event |-> e, decision |-> verb, payload |-> payload]}

FeedbackFor(e, verb, payload) ==
  {i \in DOMAIN feedback :
     feedback[i] = [event |-> e, outcome |-> HitlOutcome[verb], payload |-> payload]}

Decided(e, verb) == incident[e] # None /\ incident[e].status = Status[verb]

\* An incident that shows a decision has a row of exactly that decision about
\* exactly the payload it shows, although requests race with each other and
\* with new messages for the same incident (write_decision comes before save,
\* and save writes status and payload of one reading).
DecisionOnRecord ==
  \A e \in Events, verb \in Verbs :
    Decided(e, verb) => RowsFor(e, verb, incident[e].payload) # {}

\* The Learning Agent was told of every incident that shows APPROVED or
\* REJECTED; only a modification may stay unknown to it (views.py publishes
\* before saving, except in modify_submit).
AnsweredIsLearned ==
  \A e \in Events, verb \in {"APPROVE", "REJECT"} :
    Decided(e, verb) => FeedbackFor(e, verb, incident[e].payload) # {}

\* No outcome is reported that the table of decisions does not hold, as often
\* as it is reported.
OutcomeHasRow ==
  \A i \in DOMAIN feedback : \A verb \in Verbs :
    LET e == feedback[i].event payload == feedback[i].payload IN
    Cardinality(FeedbackFor(e, verb, payload)) <= Cardinality(RowsFor(e, verb, payload))

\* layer3/User_Guide.md:245: "consume_hitl uses update_or_create - safe to
\* re-run".  Running it again stores a message that was not acknowledged a
\* second time; a decided incident then stays decided.
DecidedStaysDecided ==
  [][\A e \in Events, verb \in Verbs :
       Decided(e, verb) => incident'[e].status # "PENDING"]_dashboardVars
=============================================================================
