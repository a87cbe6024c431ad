----------------------------- MODULE AgentChain -----------------------------
(***************************************************************************)
(* The Triage, Strategy and Policy Agents (layer2/agents) and the durable  *)
(* queues between them:                                                    *)
(*                                                                         *)
(*   anomaly.detected -> triage.result -> strategy.result                  *)
(*                                      -> auto.execute or hitl.queue      *)
(*                                                                         *)
(* Every agent has one message in hand at a time (prefetch_count=1), and   *)
(* handles it in the order compute, append to its log, publish, ack.  The  *)
(* message in hand stays at the head of its queue until it is acknowledged *)
(* and is delivered again when the agent dies before that.                 *)
(***************************************************************************)
EXTENDS Routing, Sequences, FiniteSets, Functions

CONSTANTS
  Events,        \* event ids
  Answers,       \* the answers the language model may give
  FileContents,  \* what the Policy Agent may find in threshold_config.json
  MaxCrashes,    \* bound: how often an agent dies
  MaxUnwritten,  \* bound: how often the Policy Agent cannot write to its log file
  MayFail,       \* whether an agent can fail on a message and live
  None           \* no answer, no threshold

ASSUME AnswersAreAnswers == Answers \subseteq Answer

ASSUME ContentsAreThresholds == FileContents \subseteq Int

ASSUME ChainBounds == MaxCrashes \in Nat /\ MaxUnwritten \in Nat /\ MayFail \in BOOLEAN

VARIABLES
  offered,     \* the events that were published on anomaly.detected
  anomaly,     \* queue anomaly.detected
  triage,      \* queue triage.result
  strategy,    \* queue strategy.result
  routed,      \* what the Policy Agent published, in order
  dead,        \* queue dead.letters
  pc,          \* per agent: idle, (asked,) logged, published
  answer,      \* locals of the Strategy Agent: the answer it got
  verdict,     \* locals of the Policy Agent: the threshold it applies
  lines,       \* how many lines policy_agent.jsonl has
  unwritten,   \* how many more could not be written to it
  crashes      \* how often an agent died so far

logs == <<lines, unwritten>>
vars == <<offered, anomaly, triage, strategy, routed, dead, pc, answer,
          verdict, logs, crashes>>

Agents == {"triage", "strategy", "policy"}

StrategyResult == [event : Events, answer : Answers]

Route == [event : Events, answer : Answers, threshold : 60..90,
          queue : {"auto.execute", "hitl.queue"}]

DeadLetter == [event : Events, agent : Agents, answer : Answers \union {None}]

\* The message that an agent rejected.
Rejected(e, a, reply) == Append(dead, [event |-> e, agent |-> a, answer |-> reply])

Init ==
  /\ offered = {}
  /\ anomaly = <<>>
  /\ triage = <<>>
  /\ strategy = <<>>
  /\ routed = <<>>
  /\ dead = <<>>
  /\ pc = [a \in Agents |-> "idle"]
  /\ answer = None
  /\ verdict = None
  /\ lines = 0
  /\ unwritten = 0
  /\ crashes = 0

\* Layer 1 publishes an incident (the Fusion Engine or the Validator).
Offer(e) ==
  /\ e \notin offered
  /\ offered' = offered \union {e}
  /\ anomaly' = Append(anomaly, e)
  /\ UNCHANGED <<triage, strategy, routed, dead, pc, answer, verdict, logs, crashes>>

Goto(a, place) == pc' = [pc EXCEPT ![a] = place]

\* Variant: nothing is appended.
MutLog == UNCHANGED logs

\* append_log, before the result is published: one line, or, if it cannot be
\* written, none, and the agent goes on.
Log ==
  \/ lines' = lines + 1 /\ UNCHANGED unwritten
  \/ unwritten < MaxUnwritten /\ unwritten' = unwritten + 1 /\ UNCHANGED lines

-----------------------------------------------------------------------------
(* triage_agent.py on_message                                              *)

\* The lines of this agent's log and the next one's are not counted: no property
\* is about them.
TriageLog ==
  /\ pc["triage"] = "idle"
  /\ anomaly # <<>>
  /\ Goto("triage", "logged")
  /\ UNCHANGED <<offered, anomaly, triage, strategy, routed, dead, answer, verdict, logs,
                 crashes>>

TriagePublish ==
  /\ pc["triage"] = "logged"
  /\ triage' = Append(triage, Head(anomaly))
  /\ Goto("triage", "published")
  /\ UNCHANGED <<offered, anomaly, strategy, routed, dead, answer, verdict, logs, crashes>>

\* Variant: never acknowledged, so it is delivered again.
MutTriageAck ==
  /\ pc["triage"] = "published"
  /\ Goto("triage", "idle")
  /\ UNCHANGED <<offered, anomaly, triage, strategy, routed, dead, answer, verdict, logs,
                 crashes>>

TriageAck ==
  /\ pc["triage"] = "published"
  /\ anomaly' = Tail(anomaly)
  /\ Goto("triage", "idle")
  /\ UNCHANGED <<offered, triage, strategy, routed, dead, answer, verdict, logs, crashes>>

\* publish raises, or append_log because there can be no directory: basic_nack
\* without requeue, so the message is dead-lettered.
TriageFails ==
  /\ MayFail
  /\ pc["triage"] = "logged"
  /\ dead' = Rejected(Head(anomaly), "triage", None)
  /\ anomaly' = Tail(anomaly)
  /\ Goto("triage", "idle")
  /\ UNCHANGED <<offered, triage, strategy, routed, answer, verdict, logs, crashes>>

-----------------------------------------------------------------------------
(* strategy_agent.py on_message                                            *)

\* The call ends after 35 seconds at the latest, with whatever answer.
StrategyAsk ==
  /\ pc["strategy"] = "idle"
  /\ triage # <<>>
  /\ answer' \in Answers
  /\ Goto("strategy", "asked")
  /\ UNCHANGED <<offered, anomaly, triage, strategy, routed, dead, verdict, logs, crashes>>

StrategyLog ==
  /\ pc["strategy"] = "asked"
  /\ Goto("strategy", "logged")
  /\ UNCHANGED <<offered, anomaly, triage, strategy, routed, dead, answer, verdict, logs,
                 crashes>>

StrategyPublish ==
  /\ pc["strategy"] = "logged"
  /\ strategy' = Append(strategy, [event |-> Head(triage), answer |-> answer])
  /\ Goto("strategy", "published")
  /\ UNCHANGED <<offered, anomaly, triage, routed, dead, answer, verdict, logs, crashes>>

StrategyAck ==
  /\ pc["strategy"] = "published"
  /\ triage' = Tail(triage)
  /\ answer' = None
  /\ Goto("strategy", "idle")
  /\ UNCHANGED <<offered, anomaly, strategy, routed, dead, verdict, logs, crashes>>

StrategyFails ==
  /\ MayFail
  /\ pc["strategy"] = "logged"
  /\ dead' = Rejected(Head(triage), "strategy", None)
  /\ triage' = Tail(triage)
  /\ answer' = None
  /\ Goto("strategy", "idle")
  /\ UNCHANGED <<offered, anomaly, strategy, routed, verdict, logs, crashes>>

-----------------------------------------------------------------------------
(* policy_agent.py on_message                                              *)

\* The threshold is read from the file for every message.
PolicyLog ==
  /\ pc["policy"] = "idle"
  /\ strategy # <<>>
  /\ ~RouteRaises(Head(strategy).answer)
  /\ verdict' \in {LoadThreshold(content) : content \in FileContents}
  /\ Log
  /\ Goto("policy", "logged")
  /\ UNCHANGED <<offered, anomaly, triage, strategy, routed, dead, answer, crashes>>

PolicyPublish ==
  LET message == Head(strategy) IN
  /\ pc["policy"] = "logged"
  /\ routed' = Append(routed,
                 [event |-> message.event, answer |-> message.answer,
                  threshold |-> verdict, queue |-> Queue(message.answer, verdict)])
  /\ Goto("policy", "published")
  /\ UNCHANGED <<offered, anomaly, triage, strategy, dead, answer, verdict, logs, crashes>>

PolicyAck ==
  /\ pc["policy"] = "published"
  /\ strategy' = Tail(strategy)
  /\ verdict' = None
  /\ Goto("policy", "idle")
  /\ UNCHANGED <<offered, anomaly, triage, routed, dead, answer, logs, crashes>>

\* Variant: what cannot be routed goes back to the queue.
MutPolicyRequeues ==
  /\ pc["policy"] = "idle"
  /\ strategy # <<>>
  /\ RouteRaises(Head(strategy).answer)
  /\ UNCHANGED vars

\* Variant: what cannot be routed is acknowledged and forgotten.
MutPolicyRaises ==
  /\ pc["policy"] = "idle"
  /\ strategy # <<>>
  /\ RouteRaises(Head(strategy).answer)
  /\ strategy' = Tail(strategy)
  /\ UNCHANGED <<offered, anomaly, triage, routed, dead, pc, answer, verdict, logs, crashes>>

\* route() raises: dead letter, and no line in the log.
PolicyRaises ==
  /\ pc["policy"] = "idle"
  /\ strategy # <<>>
  /\ RouteRaises(Head(strategy).answer)
  /\ dead' = Rejected(Head(strategy).event, "policy", Head(strategy).answer)
  /\ strategy' = Tail(strategy)
  /\ UNCHANGED <<offered, anomaly, triage, routed, pc, answer, verdict, logs, crashes>>

PolicyFails ==
  /\ MayFail
  /\ pc["policy"] = "logged"
  /\ dead' = Rejected(Head(strategy).event, "policy", Head(strategy).answer)
  /\ strategy' = Tail(strategy)
  /\ verdict' = None
  /\ Goto("policy", "idle")
  /\ UNCHANGED <<offered, anomaly, triage, routed, answer, logs, crashes>>

-----------------------------------------------------------------------------
\* An agent dies with a message in hand, also when an ack or a nack fails
\* because the connection is gone; it is started again.
Crash(a) ==
  /\ crashes < MaxCrashes
  /\ pc[a] # "idle"
  /\ crashes' = crashes + 1
  /\ Goto(a, "idle")
  /\ answer' = IF a = "strategy" THEN None ELSE answer
  /\ verdict' = IF a = "policy" THEN None ELSE verdict
  /\ UNCHANGED <<offered, anomaly, triage, strategy, routed, dead, logs>>

Triage   == TriageLog \/ TriagePublish \/ TriageAck \/ TriageFails
Strategy == StrategyAsk \/ StrategyLog \/ StrategyPublish \/ StrategyAck \/ StrategyFails
Policy   == PolicyLog \/ PolicyPublish \/ PolicyAck \/ PolicyRaises \/ PolicyFails

Next ==
  \/ \E e \in Events : Offer(e)
  \/ Triage
  \/ Strategy
  \/ Policy
  \/ \E a \in Agents : Crash(a)

Spec == Init /\ [][Next]_vars

\* Each agent blocks on its queue and works through it; an agent that died is
\* started again.  Nothing makes Layer 1 offer an event or an agent die.
FairSpec == Spec /\ WF_vars(Triage) /\ WF_vars(Strategy) /\ WF_vars(Policy)
-----------------------------------------------------------------------------
(* Properties                                                              *)

\* Every variable keeps its type; an agent past "idle" has a message in hand,
\* and the Strategy Agent an answer exactly while it handles one.
TypeOK ==
  /\ offered \subseteq Events
  /\ anomaly \in Seq(Events)
  /\ triage \in Seq(Events)
  /\ strategy \in Seq(StrategyResult)
  /\ routed \in Seq(Route)
  /\ dead \in Seq(DeadLetter)
  /\ pc \in [Agents -> {"idle", "asked", "logged", "published"}]
  /\ pc["triage"] # "idle" => anomaly # <<>>
  /\ pc["strategy"] # "idle" => triage # <<>> /\ answer \in Answers
  /\ pc["policy"] # "idle" => strategy # <<>> /\ verdict \in 60..90
  /\ lines \in Nat
  /\ unwritten \in Nat
  /\ crashes \in 0..MaxCrashes

Whereabouts(e) ==
  \/ e \in Range(anomaly)
  \/ e \in Range(triage)
  \/ \E m \in Range(strategy) : m.event = e
  \/ \E m \in Range(routed) : m.event = e
  \/ \E m \in Range(dead) : m.event = e

\* Wherever and whenever the agents die, an incident that Layer 1 published is
\* in a queue, routed, or among the dead letters: never gone (every agent
\* acknowledges after its publish, or dead-letters).
NothingLost == \A e \in offered : Whereabouts(e)

Waiting(a, queue) == Len(queue) - (IF pc[a] = "published" THEN 1 ELSE 0)

Copies == Waiting("triage", anomaly) + Waiting("strategy", triage)
          + Waiting("policy", strategy) + Len(routed) + Len(dead)

\* An incident is multiplied by nothing but the death of an agent between its
\* publish and its ack, and by one copy each time.
CrashesExplainCopies ==
  /\ Cardinality(offered) <= Copies
  /\ Copies <= Cardinality(offered) + crashes

InRouting == IF pc["policy"] = "logged" THEN 1 ELSE 0

\* What the log file of the Policy Agent, from which the routing is evaluated,
\* says too little or too much: an incident is routed without a line only if a
\* write failed, also when the agent died, and a line too many comes from a
\* death or a dead letter.
LogsExplained ==
  /\ Len(routed) + InRouting <= lines + unwritten
  /\ lines <= Len(routed) + InRouting + Len(dead) + crashes

\* Whatever threshold_config.json holds, nothing is executed automatically
\* that the model rated HIGH, was silent about, or is less than 60% sure of.
AutoIsConfident ==
  \A m \in Range(routed) : m.queue = "auto.execute" =>
    m.answer.shape = "object" /\ m.answer.tier # "HIGH" /\ m.answer.confidence >= 60

\* If the answer has the seven agreed fields, automatic execution means that
\* the model called the severity LOW or MEDIUM and proposed something to do:
\* the tier check of the schema and the tier rule of the router fit together.
ValidAutoIsMild ==
  \A m \in Range(routed) :
    (m.queue = "auto.execute" /\ SchemaValid(m.answer)) =>
      m.answer.severity \in {"LOW", "MEDIUM"} /\ m.answer.actions > 0

\* Every incident is routed or dead-lettered in the end, if agents that died
\* are started again.
EventuallySettled ==
  \A e \in Events :
    e \in offered ~> (\E m \in Range(routed) : m.event = e) \/ (\E m \in Range(dead) : m.event = e)

\* layer2/User_Guide.md:177: "Routes to auto.execute if risk_tier=LOW and
\* confidence >= threshold; otherwise routes to hitl.queue".
AutoOnlyLowRisk ==
  \A m \in Range(routed) : m.queue = "auto.execute" => m.answer.tier = "LOW"
=============================================================================
