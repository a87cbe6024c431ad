---------------------------- MODULE AutoExecutor ----------------------------
(***************************************************************************)
(* The Auto-Execution Engine (layer3/auto_executor/executor.py): it takes  *)
(* one message of auto.execute at a time, performs the recommended         *)
(* actions, writes a row to decisions.db, publishes outcome.feedback and   *)
(* acknowledges.  decisions.db and outcome.feedback are shared with the    *)
(* dashboard; they are kept as the sequence of everything ever written.    *)
(***************************************************************************)
EXTENDS Naturals, Sequences, FiniteSets

CONSTANTS
  AutoMessages,  \* the messages [event, payload] the Policy Agent may route here
  Inactive,      \* the payloads that recommend no action
  MaxCrashes,    \* bound: how often a process of Layer 3 dies
  MayFail        \* whether a database write or a publish can raise

VARIABLES
  sent,        \* the messages the Policy Agent routed
  auto,        \* queue auto.execute
  epc,         \* the engine: idle, executed, logged, told
  remedied,    \* per message: how often its actions were performed
  rows,        \* table decisions
  feedback,    \* queue outcome.feedback: history
  rejected,    \* messages the engine dead-lettered: history
  crashes      \* how often a process died so far

executorVars == <<sent, auto, epc, remedied, rows, feedback, rejected, crashes>>

ExecutorInit ==
  /\ sent = {}
  /\ auto = <<>>
  /\ epc = "idle"
  /\ remedied = [m \in AutoMessages |-> 0]
  /\ rows = <<>>
  /\ feedback = <<>>
  /\ rejected = {}
  /\ crashes = 0

Outcome(m) ==
  IF m.payload \in Inactive THEN "AUTO_EXECUTE_FAILURE" ELSE "AUTO_EXECUTE_SUCCESS"

\* The Policy Agent publishes on auto.execute.
RouteAuto(m) ==
  /\ m \notin sent
  /\ sent' = sent \union {m}
  /\ auto' = Append(auto, m)
  /\ UNCHANGED <<epc, remedied, rows, feedback, rejected, crashes>>

\* execute_actions: half a second of simulated remediation, or nothing to do.
Execute ==
  /\ epc = "idle"
  /\ auto # <<>>
  /\ remedied' = IF Head(auto).payload \in Inactive THEN remedied
                 ELSE [remedied EXCEPT ![Head(auto)] = @ + 1]
  /\ epc' = "executed"
  /\ UNCHANGED <<sent, auto, rows, feedback, rejected, crashes>>

\* Variant: a row that cannot be written is given up, the rest goes on.
MutWriteRow ==
  /\ epc = "executed"
  /\ epc' = "logged"
  /\ UNCHANGED <<sent, auto, remedied, rows, feedback, rejected, crashes>>

\* write_decision
WriteRow ==
  /\ epc = "executed"
  /\ rows' = Append(rows, [event |-> Head(auto).event, decision |-> "AUTO_EXECUTE",
                           payload |-> Head(auto).payload])
  /\ epc' = "logged"
  /\ UNCHANGED <<sent, auto, remedied, feedback, rejected, crashes>>

\* publish opens a connection of its own.
Tell ==
  /\ epc = "logged"
  /\ feedback' = Append(feedback, [event |-> Head(auto).event,
                                   outcome |-> Outcome(Head(auto)),
                                   payload |-> Head(auto).payload])
  /\ epc' = "told"
  /\ UNCHANGED <<sent, auto, remedied, rows, rejected, crashes>>

\* Variant: the message is acknowledged before the feedback is published.
MutAckMessage ==
  /\ epc = "logged"
  /\ auto' = Tail(auto)
  /\ epc' = "idle"
  /\ UNCHANGED <<sent, remedied, rows, feedback, rejected, crashes>>

AckMessage ==
  /\ epc = "told"
  /\ auto' = Tail(auto)
  /\ epc' = "idle"
  /\ UNCHANGED <<sent, remedied, rows, feedback, rejected, crashes>>

\* Variant: the failed message is put back into the queue.
MutReject ==
  /\ MayFail
  /\ epc \in {"executed", "logged"}
  /\ epc' = "idle"
  /\ UNCHANGED <<sent, auto, remedied, rows, feedback, rejected, crashes>>

\* The row cannot be written or the publish raises: dead letter.  What was
\* done before stays done.
Reject ==
  /\ MayFail
  /\ epc \in {"executed", "logged"}
  /\ rejected' = rejected \union {Head(auto)}
  /\ auto' = Tail(auto)
  /\ epc' = "idle"
  /\ UNCHANGED <<sent, remedied, rows, feedback, crashes>>

\* The process dies with a message in hand, which is delivered again.
ExecutorCrash ==
  /\ crashes < MaxCrashes
  /\ epc # "idle"
  /\ crashes' = crashes + 1
  /\ epc' = "idle"
  /\ UNCHANGED <<sent, auto, remedied, rows, feedback, rejected>>

Engine == Execute \/ WriteRow \/ Tell \/ AckMessage \/ Reject
-----------------------------------------------------------------------------
(* Properties                                                              *)

RowsOf(m) == {i \in DOMAIN rows : rows[i].event = m.event /\ rows[i].payload = m.payload
                                  /\ rows[i].decision = "AUTO_EXECUTE"}

FeedbackOf(m) == {i \in DOMAIN feedback :
                    feedback[i].event = m.event /\ feedback[i].payload = m.payload
                    /\ feedback[i].outcome = Outcome(m)}

\* The actions of a message are performed, recorded and reported again only
\* because the engine died over it: a failure that is caught repeats nothing.
RepeatsAreCrashes ==
  \A m \in AutoMessages :
    /\ remedied[m] <= 1 + crashes
    /\ Cardinality(RowsOf(m)) <= 1 + crashes
    /\ Cardinality(FeedbackOf(m)) <= 1 + crashes

\* The Learning Agent never hears of a remediation that is not in the table,
\* or of a success of something that was not done.
FeedbackHasRow ==
  \A m \in AutoMessages :
    /\ Cardinality(FeedbackOf(m)) <= Cardinality(RowsOf(m))
    /\ FeedbackOf(m) # {} => (remedied[m] > 0 <=> m.payload \notin Inactive)
=============================================================================
