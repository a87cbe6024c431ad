-------------------------- MODULE AgentChainProofs --------------------------
(***************************************************************************)
(* Safety of the agents of Layer 2 for every set of events and of answers, *)
(* every content of the threshold file and every number of deaths.         *)
(***************************************************************************)
EXTENDS AgentChain, Retrieval, DataFacts, FiniteSetTheorems

\* The Policy Agent always applies a threshold of its range.
LEMMA ThresholdInRange ==
  ASSUME NEW content \in FileContents
  PROVE  LoadThreshold(content) \in 60..90
  BY ContentsAreThresholds DEF LoadThreshold, Broken

-----------------------------------------------------------------------------

\* A dead letter of one of the agents is one, and comes last.
LEMMA RejectedFacts ==
  ASSUME TypeOK, NEW e \in Events, NEW a \in Agents, NEW reply \in Answers \union {None}
  PROVE  /\ Rejected(e, a, reply) \in Seq(DeadLetter)
         /\ Len(Rejected(e, a, reply)) = Len(dead) + 1
         /\ Range(Rejected(e, a, reply)) =
              Range(dead) \union {[event |-> e, agent |-> a, answer |-> reply]}
<1>1. [event |-> e, agent |-> a, answer |-> reply] \in DeadLetter
  BY DEF DeadLetter
<1>2. dead \in Seq(DeadLetter)
  BY DEF TypeOK
<1> QED
  BY <1>1, <1>2, AppendFacts, AppendRange DEF Rejected

\* What is at the head of the queues.
LEMMA HeadsTyped ==
  ASSUME TypeOK
  PROVE  /\ anomaly # <<>> => Head(anomaly) \in Events /\ Tail(anomaly) \in Seq(Events)
         /\ triage # <<>> => Head(triage) \in Events /\ Tail(triage) \in Seq(Events)
         /\ strategy # <<>> =>
              /\ Head(strategy) \in StrategyResult
              /\ Head(strategy).event \in Events
              /\ Head(strategy).answer \in Answers
              /\ Tail(strategy) \in Seq(StrategyResult)
<1>1. anomaly # <<>> => Head(anomaly) \in Events /\ Tail(anomaly) \in Seq(Events)
  BY TailFacts DEF TypeOK
<1>2. triage # <<>> => Head(triage) \in Events /\ Tail(triage) \in Seq(Events)
  BY TailFacts DEF TypeOK
<1>3. strategy # <<>> => Head(strategy) \in StrategyResult /\ Tail(strategy) \in Seq(StrategyResult)
  BY TailFacts DEF TypeOK
<1> QED
  BY <1>1, <1>2, <1>3 DEF StrategyResult

\* A proposal is put behind the others.
LEMMA ProposalFacts ==
  ASSUME TypeOK, NEW m \in StrategyResult
  PROVE  Append(strategy, m) \in Seq(StrategyResult) /\ Append(strategy, m) # <<>>
<1>1. strategy \in Seq(StrategyResult)
  BY DEF TypeOK
<1> QED
  BY <1>1, AppendFacts

\* Every state keeps the types of TypeOK.
THEOREM TypeCorrect == Spec => []TypeOK
<1>1. Init => TypeOK
  BY ChainBounds DEF Init, TypeOK, Agents
<1>2. TypeOK /\ [Next]_vars => TypeOK'
  <2> SUFFICES ASSUME TypeOK, [Next]_vars PROVE TypeOK'
    OBVIOUS
  <2> USE ChainBounds DEF TypeOK, Agents, Goto, Log, logs
  <2>1. ASSUME NEW e \in Events, Offer(e) PROVE TypeOK'
    <3>1. anomaly' \in Seq(Events) /\ anomaly' # <<>>
      BY <2>1, AppendFacts DEF Offer
    <3> QED
      BY <2>1, <3>1 DEF Offer
  <2>2. CASE TriageLog
    BY <2>2 DEF TriageLog
  <2>3. CASE TriagePublish
    <3>0. Head(anomaly) \in Events /\ triage' = Append(triage, Head(anomaly))
      BY <2>3, HeadsTyped DEF TriagePublish
    <3>1. triage' \in Seq(Events) /\ triage' # <<>>
      BY <3>0, AppendFacts
    <3> QED
      BY <2>3, <3>1 DEF TriagePublish
  <2>4. CASE TriageAck
    BY <2>4, HeadsTyped DEF TriageAck
  <2>5. CASE TriageFails
    BY <2>5, HeadsTyped, RejectedFacts DEF TriageFails
  <2>6. CASE StrategyAsk
    BY <2>6 DEF StrategyAsk
  <2>7. CASE StrategyLog
    BY <2>7 DEF StrategyLog
  <2>8. CASE StrategyPublish
    <3> DEFINE m == [event |-> Head(triage), answer |-> answer]
    <3>1. m \in StrategyResult
      BY <2>8, HeadsTyped DEF StrategyPublish, StrategyResult
    <3> HIDE DEF m
    <3>2. Append(strategy, m) \in Seq(StrategyResult) /\ Append(strategy, m) # <<>>
      BY <3>1, ProposalFacts
    <3> QED
      BY <2>8, <3>2 DEF StrategyPublish, m
  <2>9. CASE StrategyAck
    BY <2>9, HeadsTyped DEF StrategyAck
  <2>10. CASE StrategyFails
    BY <2>10, HeadsTyped, RejectedFacts DEF StrategyFails
  <2>11. CASE PolicyLog
    <3>1. PICK content \in FileContents : verdict' = LoadThreshold(content)
      BY <2>11 DEF PolicyLog
    <3>2. verdict' \in 60..90
      BY <3>1, ThresholdInRange
    <3> QED
      BY <2>11, <3>2 DEF PolicyLog
  <2>12. CASE PolicyPublish
    <3>1. routed' \in Seq(Route)
      <4>1. Head(strategy) \in StrategyResult
        BY <2>12, HeadsTyped DEF PolicyPublish
      <4>2. [event |-> Head(strategy).event, answer |-> Head(strategy).answer,
             threshold |-> verdict, queue |-> Queue(Head(strategy).answer, verdict)] \in Route
        BY <2>12, <4>1 DEF PolicyPublish, StrategyResult, Route, Queue
      <4> QED
        BY <2>12, <4>2, AppendFacts DEF PolicyPublish
    <3> QED
      BY <2>12, <3>1 DEF PolicyPublish
  <2>13. CASE PolicyAck
    BY <2>13, HeadsTyped DEF PolicyAck
  <2>14. CASE PolicyRaises
    BY <2>14, HeadsTyped, RejectedFacts DEF PolicyRaises
  <2>15. CASE PolicyFails
    BY <2>15, HeadsTyped, RejectedFacts DEF PolicyFails
  <2>16. ASSUME NEW a \in Agents, Crash(a) PROVE TypeOK'
    BY <2>16 DEF Crash
  <2>17. CASE UNCHANGED vars
    BY <2>17 DEF vars
  <2> QED
    BY <2>1, <2>2, <2>3, <2>4, <2>5, <2>6, <2>7, <2>8, <2>9, <2>10, <2>11, <2>12,
       <2>13, <2>14, <2>15, <2>16, <2>17
       DEF Next, Triage, Strategy, Policy
<1> QED
  BY <1>1, <1>2, PTL DEF Spec
-----------------------------------------------------------------------------
(* What is executed automatically.                                         *)

\* The rules that lead to auto.execute.
LEMMA AutoQueue ==
  ASSUME NEW x \in Answers, NEW threshold \in 60..90, Queue(x, threshold) = "auto.execute"
  PROVE  /\ x.shape = "object"
         /\ x.tier \in {"LOW", "MEDIUM"}
         /\ x.confidence >= threshold
<1>1. x \in Answer
  BY AnswersAreAnswers
<1> QED
  BY <1>1 DEF Queue, Reason, TimedOut, ValidJson, TierRead, Answer, Shapes, Tiers

\* Every message was put on the queue that the rules say.
ByTheRules == \A m \in Range(routed) : m \in Route /\ m.queue = Queue(m.answer, m.threshold)

LEMMA RoutedByTheRules == Spec => []ByTheRules
<1>1. Init => ByTheRules
  BY DEF Init, ByTheRules, Range
<1>2. TypeOK /\ TypeOK' /\ ByTheRules /\ [Next]_vars => ByTheRules'
  <2> SUFFICES ASSUME TypeOK, TypeOK', ByTheRules, [Next]_vars PROVE ByTheRules'
    OBVIOUS
  <2>1. CASE PolicyPublish
    <3> DEFINE m == [event |-> Head(strategy).event, answer |-> Head(strategy).answer,
                     threshold |-> verdict, queue |-> Queue(Head(strategy).answer, verdict)]
    <3>1. m \in Route
      BY <2>1, HeadsTyped DEF PolicyPublish, TypeOK, Route, Queue
    <3>2. routed' = Append(routed, m) /\ routed \in Seq(Route)
      BY <2>1 DEF PolicyPublish, TypeOK
    <3>3. m.queue = Queue(m.answer, m.threshold)
      OBVIOUS
    <3> HIDE DEF m
    <3>4. Range(routed') = Range(routed) \union {m}
      BY <3>1, <3>2, AppendRange
    <3> QED
      BY <3>1, <3>3, <3>4 DEF ByTheRules
  <2>2. CASE UNCHANGED routed
    BY <2>2 DEF ByTheRules
  <2> QED
    BY <2>1, <2>2 DEF Next, Triage, Strategy, Policy, Offer, TriageLog, TriagePublish, TriageAck,
       TriageFails, StrategyAsk, StrategyLog, StrategyPublish, StrategyAck, StrategyFails,
       PolicyLog, PolicyAck, PolicyRaises, PolicyFails, Crash, vars
<1> QED
  BY <1>1, <1>2, TypeCorrect, PTL DEF Spec

\* Nothing is executed automatically that the model rated HIGH, was silent
\* about, or is less than 60% sure of, whatever the threshold file holds.
THEOREM AutoConfident == Spec => []AutoIsConfident
<1>1. ByTheRules => AutoIsConfident
  <2> SUFFICES ASSUME ByTheRules, NEW m \in Range(routed), m.queue = "auto.execute"
               PROVE  m.answer.shape = "object" /\ m.answer.tier # "HIGH" /\ m.answer.confidence >= 60
    BY DEF AutoIsConfident
  <2>1. m.answer \in Answers /\ m.threshold \in 60..90 /\ Queue(m.answer, m.threshold) = "auto.execute"
    BY DEF ByTheRules, Route
  <2>2. m.answer.shape = "object" /\ m.answer.tier \in {"LOW", "MEDIUM"} /\ m.answer.confidence >= m.threshold
    BY <2>1, AutoQueue
  <2>3. m.answer.confidence \in Int
    BY <2>1, AnswersAreAnswers DEF Answer
  <2> QED
    BY <2>1, <2>2, <2>3
<1> QED
  BY <1>1, RoutedByTheRules, PTL

\* An answer with the seven agreed fields is executed automatically only if
\* the model called the severity LOW or MEDIUM and proposed something to do.
THEOREM ValidAutoMild == Spec => []ValidAutoIsMild
<1>1. ByTheRules => ValidAutoIsMild
  <2> SUFFICES ASSUME ByTheRules, NEW m \in Range(routed), m.queue = "auto.execute",
                      SchemaValid(m.answer)
               PROVE  m.answer.severity \in {"LOW", "MEDIUM"} /\ m.answer.actions > 0
    BY DEF ValidAutoIsMild
  <2>1. m.answer \in Answers /\ m.threshold \in 60..90 /\ Queue(m.answer, m.threshold) = "auto.execute"
    BY DEF ByTheRules, Route
  <2>2. m.answer.tier # "HIGH"
    BY <2>1, AutoQueue
  <2> QED
    BY <2>2 DEF SchemaValid, RISK_TIER_MAP
<1> QED
  BY <1>1, RoutedByTheRules, PTL
-----------------------------------------------------------------------------
(* The log of the Policy Agent, and the number of copies.                  *)

\* What one step does to the length of the queues and histories, and to the
\* places of the agents.
LEMMA Lengths ==
  ASSUME TypeOK
  PROVE  /\ Len(anomaly) \in Nat /\ Len(triage) \in Nat /\ Len(strategy) \in Nat
         /\ Len(routed) \in Nat /\ Len(dead) \in Nat
         /\ TriagePublish => Len(triage') = Len(triage) + 1
         /\ StrategyPublish => Len(strategy') = Len(strategy) + 1
         /\ PolicyPublish => Len(routed') = Len(routed) + 1
         /\ TriageAck \/ TriageFails => Len(anomaly') = Len(anomaly) - 1
         /\ StrategyAck \/ StrategyFails => Len(triage') = Len(triage) - 1
         /\ PolicyAck \/ PolicyRaises \/ PolicyFails => Len(strategy') = Len(strategy) - 1
         /\ TriageFails \/ StrategyFails \/ PolicyRaises \/ PolicyFails =>
              Len(dead') = Len(dead) + 1
         /\ \A e \in Events : Offer(e) => Len(anomaly') = Len(anomaly) + 1
<1> USE DEF TypeOK
<1>1. /\ Len(anomaly) \in Nat /\ Len(triage) \in Nat /\ Len(strategy) \in Nat
      /\ Len(routed) \in Nat /\ Len(dead) \in Nat
  OBVIOUS
<1>2. TriagePublish => Len(triage') = Len(triage) + 1
  BY DEF TriagePublish
<1>3. StrategyPublish => Len(strategy') = Len(strategy) + 1
  BY DEF StrategyPublish
<1>4. PolicyPublish => Len(routed') = Len(routed) + 1
  BY DEF PolicyPublish
<1>5. TriageAck \/ TriageFails => Len(anomaly') = Len(anomaly) - 1
  BY DEF TriageAck, TriageFails
<1>6. StrategyAck \/ StrategyFails => Len(triage') = Len(triage) - 1
  BY DEF StrategyAck, StrategyFails
<1>7. PolicyAck \/ PolicyRaises \/ PolicyFails => Len(strategy') = Len(strategy) - 1
  BY DEF PolicyAck, PolicyRaises, PolicyFails
<1>8. TriageFails \/ StrategyFails \/ PolicyRaises \/ PolicyFails => Len(dead') = Len(dead) + 1
  BY DEF TriageFails, StrategyFails, PolicyRaises, PolicyFails, Rejected
<1>9. \A e \in Events : Offer(e) => Len(anomaly') = Len(anomaly) + 1
  BY DEF Offer
<1> QED
  BY <1>1, <1>2, <1>3, <1>4, <1>5, <1>6, <1>7, <1>8, <1>9

\* An incident is routed without a line in the log of the Policy Agent only if
\* writing one failed, and a line too many comes from a death or a dead letter.
THEOREM LogsHonest == Spec => []LogsExplained
<1>1. Init => LogsExplained
  BY DEF Init, LogsExplained, InRouting, Agents
<1>2. TypeOK /\ LogsExplained /\ [Next]_vars => LogsExplained'
  <2> SUFFICES ASSUME TypeOK, LogsExplained, [Next]_vars PROVE LogsExplained'
    OBVIOUS
  <2>0. /\ pc \in [Agents -> {"idle", "asked", "logged", "published"}]
        /\ lines \in Nat /\ unwritten \in Nat
        /\ crashes \in Nat
        /\ Len(routed) \in Nat /\ Len(dead) \in Nat
    BY ChainBounds, Lengths DEF TypeOK
  <2> USE <2>0 DEF LogsExplained, InRouting, Goto, Agents, Log, logs
  <2>same. CASE /\ UNCHANGED routed
                /\ UNCHANGED logs
                /\ pc'["policy"] = pc["policy"]
                /\ Len(dead') \in {Len(dead), Len(dead) + 1}
                /\ crashes' \in {crashes, crashes + 1}
    BY <2>same
  <2>1. CASE \E e \in Events : Offer(e)
    BY <2>1, <2>same DEF Offer
  <2>2. CASE Triage
    BY <2>2, <2>same, Lengths DEF Triage, TriageLog, TriagePublish, TriageAck, TriageFails
  <2>3. CASE Strategy
    BY <2>3, <2>same, Lengths
       DEF Strategy, StrategyAsk, StrategyLog, StrategyPublish, StrategyAck, StrategyFails
  <2>4. CASE PolicyLog
    BY <2>4 DEF PolicyLog
  <2>5. CASE PolicyPublish
    BY <2>5, Lengths DEF PolicyPublish
  <2>6. CASE PolicyAck
    BY <2>6 DEF PolicyAck
  <2>7. CASE PolicyRaises
    BY <2>7, <2>same, Lengths DEF PolicyRaises
  <2>8. CASE PolicyFails
    <3>1. Len(dead') = Len(dead) + 1
      BY <2>8, Lengths
    <3>2. /\ pc["policy"] = "logged" /\ pc' = [pc EXCEPT !["policy"] = "idle"]
          /\ UNCHANGED <<routed, lines, unwritten, crashes>>
      BY <2>8 DEF PolicyFails
    <3> QED
      BY <3>1, <3>2
  <2>9. ASSUME NEW a \in Agents, Crash(a) PROVE LogsExplained'
    <3>1. CASE a = "policy"
      BY <2>9, <3>1 DEF Crash
    <3>2. CASE a # "policy"
      BY <2>9, <3>2, <2>same DEF Crash
    <3> QED
      BY <3>1, <3>2
  <2>10. CASE UNCHANGED vars
    BY <2>10 DEF vars
  <2> QED
    BY <2>1, <2>2, <2>3, <2>4, <2>5, <2>6, <2>7, <2>8, <2>9, <2>10 DEF Next, Policy
<1> QED
  BY <1>1, <1>2, TypeCorrect, PTL DEF Spec

\* Incidents are finitely many, and counted as often as there are copies.
CopiesInv == IsFiniteSet(offered) /\ CrashesExplainCopies

\* An incident is multiplied by nothing but the death of an agent between its
\* publish and its ack.
THEOREM CopiesExplained == Spec => []CrashesExplainCopies
<1>1. Init => CopiesInv
  BY FS_EmptySet DEF Init, CopiesInv, CrashesExplainCopies, Copies, Waiting, Agents
<1>2. TypeOK /\ CopiesInv /\ [Next]_vars => CopiesInv'
  <2> SUFFICES ASSUME TypeOK, CopiesInv, [Next]_vars PROVE CopiesInv'
    OBVIOUS
  <2>0. /\ pc \in [Agents -> {"idle", "asked", "logged", "published"}]
        /\ crashes \in Nat
        /\ Cardinality(offered) \in Nat
        /\ Len(anomaly) \in Nat /\ Len(triage) \in Nat /\ Len(strategy) \in Nat
        /\ Len(routed) \in Nat /\ Len(dead) \in Nat
    BY ChainBounds, FS_CardinalityType, Lengths DEF TypeOK, CopiesInv
  <2> USE <2>0 DEF CopiesInv, CrashesExplainCopies, Copies, Waiting, Goto, Agents, Log
  <2>1. ASSUME NEW e \in Events, Offer(e) PROVE CopiesInv'
    <3>1. IsFiniteSet(offered') /\ Cardinality(offered') = Cardinality(offered) + 1
      BY <2>1, FS_AddElement DEF Offer
    <3>2. Len(anomaly') = Len(anomaly) + 1
      BY <2>1, Lengths
    <3> QED
      BY <2>1, <3>1, <3>2 DEF Offer
  <2>2. CASE TriageLog \/ StrategyAsk \/ StrategyLog \/ PolicyLog
    BY <2>2 DEF TriageLog, StrategyAsk, StrategyLog, PolicyLog
  <2>3. CASE TriagePublish
    BY <2>3, Lengths DEF TriagePublish
  <2>4. CASE TriageAck
    <3>1. Len(anomaly') = Len(anomaly) - 1
      BY <2>4, Lengths
    <3>2. /\ pc["triage"] = "published" /\ pc' = [pc EXCEPT !["triage"] = "idle"]
          /\ UNCHANGED <<offered, triage, strategy, routed, dead, crashes>>
      BY <2>4 DEF TriageAck
    <3> QED
      BY <3>1, <3>2
  <2>5. CASE TriageFails
    <3>1. Len(anomaly') = Len(anomaly) - 1 /\ Len(dead') = Len(dead) + 1
      BY <2>5, Lengths
    <3>2. /\ pc["triage"] = "logged" /\ pc' = [pc EXCEPT !["triage"] = "idle"]
          /\ UNCHANGED <<offered, triage, strategy, routed, crashes>>
      BY <2>5 DEF TriageFails
    <3> QED
      BY <3>1, <3>2
  <2>6. CASE StrategyPublish
    BY <2>6, Lengths DEF StrategyPublish
  <2>7. CASE StrategyAck
    <3>1. Len(triage') = Len(triage) - 1
      BY <2>7, Lengths
    <3>2. /\ pc["strategy"] = "published" /\ pc' = [pc EXCEPT !["strategy"] = "idle"]
          /\ UNCHANGED <<offered, anomaly, strategy, routed, dead, crashes>>
      BY <2>7 DEF StrategyAck
    <3> QED
      BY <3>1, <3>2
  <2>8. CASE StrategyFails
    <3>1. Len(triage') = Len(triage) - 1 /\ Len(dead') = Len(dead) + 1
      BY <2>8, Lengths
    <3>2. /\ pc["strategy"] = "logged" /\ pc' = [pc EXCEPT !["strategy"] = "idle"]
          /\ UNCHANGED <<offered, anomaly, strategy, routed, crashes>>
      BY <2>8 DEF StrategyFails
    <3> QED
      BY <3>1, <3>2
  <2>9. CASE PolicyPublish
    BY <2>9, Lengths DEF PolicyPublish
  <2>10. CASE PolicyAck
    <3>1. Len(strategy') = Len(strategy) - 1
      BY <2>10, Lengths
    <3>2. /\ pc["policy"] = "published" /\ pc' = [pc EXCEPT !["policy"] = "idle"]
          /\ UNCHANGED <<offered, anomaly, triage, routed, dead, crashes>>
      BY <2>10 DEF PolicyAck
    <3> QED
      BY <3>1, <3>2
  <2>11. CASE PolicyRaises
    BY <2>11, Lengths DEF PolicyRaises
  <2>12. CASE PolicyFails
    <3>1. Len(strategy') = Len(strategy) - 1 /\ Len(dead') = Len(dead) + 1
      BY <2>12, Lengths
    <3>2. /\ pc["policy"] = "logged" /\ pc' = [pc EXCEPT !["policy"] = "idle"]
          /\ UNCHANGED <<offered, anomaly, triage, routed, crashes>>
      BY <2>12 DEF PolicyFails
    <3> QED
      BY <3>1, <3>2
  <2>13. ASSUME NEW a \in Agents, Crash(a) PROVE CopiesInv'
    <3>1. /\ pc' = [pc EXCEPT ![a] = "idle"] /\ crashes' = crashes + 1
          /\ UNCHANGED <<offered, anomaly, triage, strategy, routed, dead>>
      BY <2>13 DEF Crash
    <3>2. CASE a = "triage"
      BY <3>1, <3>2
    <3>3. CASE a = "strategy"
      BY <3>1, <3>3
    <3>4. CASE a = "policy"
      BY <3>1, <3>4
    <3> QED
      BY <3>2, <3>3, <3>4
  <2>14. CASE UNCHANGED vars
    BY <2>14 DEF vars
  <2> HIDE <2>0 DEF CopiesInv, CrashesExplainCopies, Copies, Waiting, Goto, Agents, Log
  <2> QED
    BY <2>1, <2>2, <2>3, <2>4, <2>5, <2>6, <2>7, <2>8, <2>9, <2>10, <2>11, <2>12, <2>13, <2>14
       DEF Next, Triage, Strategy, Policy
<1>3. CopiesInv => CrashesExplainCopies
  BY DEF CopiesInv
<1> QED
  BY <1>1, <1>2, <1>3, TypeCorrect, PTL DEF Spec
-----------------------------------------------------------------------------
(* No incident is lost.                                                    *)

\* The incidents that got as far as a route or a dead letter, to the queue of
\* the Policy Agent, to that of the Strategy Agent.
Settled   == {m.event : m \in Range(routed) \union Range(dead)}
Proposed  == {m.event : m \in Range(strategy)} \union Settled
Triaged   == Range(triage) \union Proposed
Somewhere == Range(anomaly) \union Triaged

\* What an agent has published is further down the chain than its message in
\* hand.
NotLostInv ==
  /\ offered \subseteq Somewhere
  /\ pc["triage"] = "published" => Head(anomaly) \in Triaged
  /\ pc["strategy"] = "published" => Head(triage) \in Proposed
  /\ pc["policy"] = "published" => Head(strategy).event \in Settled

\* What the operations on the queues do to their elements and heads.
LEMMA Elements ==
  ASSUME TypeOK
  PROVE  /\ \A e \in Events : /\ Range(Append(anomaly, e)) = Range(anomaly) \union {e}
                              /\ Range(Append(triage, e)) = Range(triage) \union {e}
                              /\ anomaly # <<>> => Head(Append(anomaly, e)) = Head(anomaly)
                              /\ triage # <<>> => Head(Append(triage, e)) = Head(triage)
         /\ \A m \in StrategyResult :
              /\ Range(Append(strategy, m)) = Range(strategy) \union {m}
              /\ strategy # <<>> => Head(Append(strategy, m)) = Head(strategy)
         /\ \A m \in Route : Range(Append(routed, m)) = Range(routed) \union {m}
         /\ anomaly # <<>> => Range(anomaly) = {Head(anomaly)} \union Range(Tail(anomaly))
         /\ triage # <<>> => Range(triage) = {Head(triage)} \union Range(Tail(triage))
         /\ strategy # <<>> => Range(strategy) = {Head(strategy)} \union Range(Tail(strategy))
<1> USE DEF TypeOK
<1>1. \A e \in Events : /\ Range(Append(anomaly, e)) = Range(anomaly) \union {e}
                        /\ Range(Append(triage, e)) = Range(triage) \union {e}
  BY AppendRange
<1>2. \A e \in Events : /\ anomaly # <<>> => Head(Append(anomaly, e)) = Head(anomaly)
                        /\ triage # <<>> => Head(Append(triage, e)) = Head(triage)
  BY AppendHead
<1>3. \A m \in StrategyResult :
              /\ Range(Append(strategy, m)) = Range(strategy) \union {m}
              /\ strategy # <<>> => Head(Append(strategy, m)) = Head(strategy)
  BY AppendRange, AppendHead
<1>4. \A m \in Route : Range(Append(routed, m)) = Range(routed) \union {m}
  BY AppendRange
<1>5. /\ anomaly # <<>> => Range(anomaly) = {Head(anomaly)} \union Range(Tail(anomaly))
      /\ triage # <<>> => Range(triage) = {Head(triage)} \union Range(Tail(triage))
      /\ strategy # <<>> => Range(strategy) = {Head(strategy)} \union Range(Tail(strategy))
  BY TailRange
<1> QED
  BY <1>1, <1>2, <1>3, <1>4, <1>5

\* What every step of the chain does to the queues, as sets.
LEMMA Movements ==
  ASSUME TypeOK
  PROVE  /\ \A e \in Events : Offer(e) => Range(anomaly') = Range(anomaly) \union {e}
         /\ TriagePublish => Range(triage') = Range(triage) \union {Head(anomaly)}
         /\ TriageAck \/ TriageFails => Range(anomaly) = {Head(anomaly)} \union Range(anomaly')
         /\ StrategyPublish =>
              Range(strategy') = Range(strategy) \union {[event |-> Head(triage), answer |-> answer]}
         /\ StrategyAck \/ StrategyFails => Range(triage) = {Head(triage)} \union Range(triage')
         /\ PolicyPublish =>
              \E m \in Route : m.event = Head(strategy).event /\ Range(routed') = Range(routed) \union {m}
         /\ PolicyAck \/ PolicyRaises \/ PolicyFails =>
              Range(strategy) = {Head(strategy)} \union Range(strategy')
         /\ TriageFails =>
              \E m : m.event = Head(anomaly) /\ Range(dead') = Range(dead) \union {m}
         /\ StrategyFails =>
              \E m : m.event = Head(triage) /\ Range(dead') = Range(dead) \union {m}
         /\ PolicyRaises \/ PolicyFails =>
              \E m : m.event = Head(strategy).event /\ Range(dead') = Range(dead) \union {m}
<1> USE DEF TypeOK
<1>1. \A e \in Events : Offer(e) => Range(anomaly') = Range(anomaly) \union {e}
  BY Elements DEF Offer
<1>2. TriagePublish => Range(triage') = Range(triage) \union {Head(anomaly)}
  BY Elements, HeadsTyped DEF TriagePublish
<1>3. TriageAck \/ TriageFails => Range(anomaly) = {Head(anomaly)} \union Range(anomaly')
  BY Elements DEF TriageAck, TriageFails
<1>4. ASSUME StrategyPublish
      PROVE  Range(strategy') = Range(strategy) \union {[event |-> Head(triage), answer |-> answer]}
  <2>1. [event |-> Head(triage), answer |-> answer] \in StrategyResult
    BY <1>4, HeadsTyped DEF StrategyPublish, StrategyResult
  <2> QED
    BY <1>4, <2>1, Elements DEF StrategyPublish
<1>5. StrategyAck \/ StrategyFails => Range(triage) = {Head(triage)} \union Range(triage')
  BY Elements DEF StrategyAck, StrategyFails
<1>6. ASSUME PolicyPublish
      PROVE  \E m \in Route : m.event = Head(strategy).event /\ Range(routed') = Range(routed) \union {m}
  <2> DEFINE m == [event |-> Head(strategy).event, answer |-> Head(strategy).answer,
                   threshold |-> verdict, queue |-> Queue(Head(strategy).answer, verdict)]
  <2>1. m \in Route /\ m.event = Head(strategy).event
    BY <1>6, HeadsTyped DEF PolicyPublish, Route, Queue
  <2>2. routed' = Append(routed, m)
    BY <1>6 DEF PolicyPublish
  <2> HIDE DEF m
  <2>3. Range(routed') = Range(routed) \union {m}
    BY <2>1, <2>2, Elements
  <2> QED
    BY <2>1, <2>3
<1>7. PolicyAck \/ PolicyRaises \/ PolicyFails =>
        Range(strategy) = {Head(strategy)} \union Range(strategy')
  BY Elements DEF PolicyAck, PolicyRaises, PolicyFails
<1>8. \A e \in Events, a \in Agents, reply \in Answers \union {None} :
        dead' = Rejected(e, a, reply) =>
          \E m : m.event = e /\ Range(dead') = Range(dead) \union {m}
  <2> TAKE e \in Events, a \in Agents, reply \in Answers \union {None}
  <2> HAVE dead' = Rejected(e, a, reply)
  <2> WITNESS [event |-> e, agent |-> a, answer |-> reply]
  <2> QED
    BY RejectedFacts
<1>9. TriageFails => \E m : m.event = Head(anomaly) /\ Range(dead') = Range(dead) \union {m}
  BY <1>8, HeadsTyped DEF TriageFails, Agents
<1>10. StrategyFails => \E m : m.event = Head(triage) /\ Range(dead') = Range(dead) \union {m}
  BY <1>8, HeadsTyped DEF StrategyFails, Agents
<1>11. PolicyRaises \/ PolicyFails =>
         \E m : m.event = Head(strategy).event /\ Range(dead') = Range(dead) \union {m}
  BY <1>8, HeadsTyped DEF PolicyRaises, PolicyFails, Agents
<1> QED
  BY <1>1, <1>2, <1>3, <1>4, <1>5, <1>6, <1>7, <1>9, <1>10, <1>11

\* Wherever and whenever the agents die, an incident that Layer 1 published is
\* in a queue, routed, or among the dead letters.
THEOREM NothingIsLost == Spec => []NothingLost
<1>1. Init => NotLostInv
  BY DEF Init, NotLostInv, Agents
<1>2. TypeOK /\ NotLostInv /\ [Next]_vars => NotLostInv'
  <2> SUFFICES ASSUME TypeOK, NotLostInv, [Next]_vars PROVE NotLostInv'
    OBVIOUS
  <2>0. pc \in [Agents -> {"idle", "asked", "logged", "published"}]
    BY DEF TypeOK
  <2> USE <2>0 DEF NotLostInv, Settled, Proposed, Triaged, Somewhere, Goto, Log, Agents
  <2>1. ASSUME NEW e \in Events, Offer(e) PROVE NotLostInv'
    <3>1. pc["triage"] = "published" => Head(anomaly') = Head(anomaly)
      BY <2>1, Elements DEF Offer, TypeOK
    <3> QED
      BY <2>1, <3>1, Movements DEF Offer
  <2>2. CASE TriageLog \/ StrategyAsk \/ StrategyLog \/ PolicyLog
    BY <2>2 DEF TriageLog, StrategyAsk, StrategyLog, PolicyLog
  <2>3. CASE TriagePublish
    <3>1. pc["strategy"] = "published" => Head(triage') = Head(triage)
      BY <2>3, Elements, HeadsTyped DEF TriagePublish, TypeOK
    <3> QED
      BY <2>3, <3>1, Movements DEF TriagePublish
  <2>4. CASE TriageAck
    BY <2>4, Movements DEF TriageAck
  <2>5. CASE TriageFails
    BY <2>5, Movements DEF TriageFails
  <2>6. CASE StrategyPublish
    <3>1. [event |-> Head(triage), answer |-> answer] \in StrategyResult
      BY <2>6, HeadsTyped DEF StrategyPublish, StrategyResult, TypeOK
    <3>2. pc["policy"] = "published" => Head(strategy') = Head(strategy)
      BY <2>6, <3>1, Elements DEF StrategyPublish, TypeOK
    <3> QED
      BY <2>6, <3>2, Movements DEF StrategyPublish
  <2>7. CASE StrategyAck
    BY <2>7, Movements DEF StrategyAck
  <2>8. CASE StrategyFails
    BY <2>8, Movements DEF StrategyFails
  <2>9. CASE PolicyPublish
    BY <2>9, Movements DEF PolicyPublish
  <2>10. CASE PolicyAck
    BY <2>10, Movements DEF PolicyAck
  <2>11. CASE PolicyRaises
    BY <2>11, Movements DEF PolicyRaises
  <2>12. CASE PolicyFails
    BY <2>12, Movements DEF PolicyFails
  <2>13. CASE \E a \in Agents : Crash(a)
    BY <2>13 DEF Crash
  <2>14. CASE UNCHANGED vars
    BY <2>14 DEF vars
  <2> QED
    BY <2>1, <2>2, <2>3, <2>4, <2>5, <2>6, <2>7, <2>8, <2>9, <2>10, <2>11, <2>12, <2>13, <2>14
       DEF Next, Triage, Strategy, Policy
<1>3. NotLostInv => NothingLost
  BY DEF NotLostInv, Settled, Proposed, Triaged, Somewhere, NothingLost, Whereabouts
<1> QED
  BY <1>1, <1>2, <1>3, TypeCorrect, PTL DEF Spec


-----------------------------------------------------------------------------
(* The past incidents that go into a prompt of the Strategy Agent: Retrieval, *)
(* for every collection and every number of upserts during the retrieval.     *)

StoredTiers == {"LOW", "HIGH", "MEDIUM"}
Hit         == [rank : Nat, tier : StoredTiers]

StoreTyped == store \in [Ranks -> Metadata \union {NoIncident}]

\* The hits are distinct incidents of the collection.
LEMMA HitsFacts ==
  ASSUME StoreTyped, NEW S \in SUBSET Present(store)
  PROVE  /\ IsFiniteSet(S) /\ Cardinality(S) \in Nat
         /\ Hits(S) \in Seq(Hit) /\ Len(Hits(S)) = Cardinality(S)
         /\ DOMAIN Hits(S) = 1..Cardinality(S)
         /\ \A i \in DOMAIN Hits(S) : /\ Hits(S)[i].rank \in S
                                      /\ Hits(S)[i].tier = store[Hits(S)[i].rank].tier
         /\ \A i, j \in DOMAIN Hits(S) : Hits(S)[i].rank = Hits(S)[j].rank => i = j
<1> DEFINE n == Cardinality(S)
           nth(i) == CHOOSE x \in S : Cardinality({y \in S : y < x}) = i - 1
           hit(i) == [rank |-> nth(i), tier |-> store[nth(i)].tier]
<1>1. S \in SUBSET (1..Documents) /\ Documents \in Nat
  BY RetrievalBounds DEF Present, Ranks
<1>2. IsFiniteSet(S) /\ n \in Nat
  <2>1. IsFiniteSet(1..Documents)
    BY <1>1, FS_Interval
  <2> QED
    BY <1>1, <2>1, FS_Subset, FS_CardinalityType
<1>3. \A i \in 1..n : nth(i) \in S /\ Cardinality({y \in S : y < nth(i)}) = i - 1
  <2> SUFFICES ASSUME NEW i \in 1..n
               PROVE  \E x \in S : Cardinality({y \in S : y < x}) = i - 1
    OBVIOUS
  <2>1. i - 1 \in Nat /\ i - 1 < n
    BY <1>2
  <2> QED
    BY <1>1, <2>1, Enumeration
<1>4. Hits(S) = [i \in 1..n |-> hit(i)]
  BY DEF Hits
<1> HIDE DEF nth
<1>5. \A i \in 1..n : hit(i) \in Hit
  <2> SUFFICES ASSUME NEW i \in 1..n PROVE hit(i) \in Hit
    OBVIOUS
  <2>1. nth(i) \in S /\ nth(i) \in Nat
    <3>1. nth(i) \in S
      BY <1>3
    <3>2. \A x \in S : x \in Nat
      BY <1>1
    <3> QED
      BY <3>1, <3>2
  <2>0. nth(i) \in Ranks /\ store[nth(i)] # NoIncident
    BY <2>1 DEF Present
  <2>2. store[nth(i)] \in Metadata
    BY <2>0 DEF StoreTyped
  <2>3. store[nth(i)].tier \in StoredTiers
    BY <2>2 DEF Metadata, StoredTiers
  <2> QED
    BY <2>1, <2>3 DEF Hit
<1>6. \A i \in 1..n : hit(i).rank = nth(i) /\ hit(i).tier = store[nth(i)].tier
  OBVIOUS
<1> HIDE DEF hit
<1>7. Hits(S) \in Seq(Hit) /\ Len(Hits(S)) = n /\ DOMAIN Hits(S) = 1..n
  BY <1>2, <1>4, <1>5
<1>8. \A i \in 1..n : Hits(S)[i].rank = nth(i) /\ Hits(S)[i].tier = store[nth(i)].tier
  BY <1>4, <1>6
<1>9. ASSUME NEW i \in 1..n, NEW j \in 1..n, nth(i) = nth(j) PROVE i = j
  <2>1. i - 1 = j - 1
    BY <1>3, <1>9
  <2> QED
    BY <1>2, <2>1
<1>10. \A i, j \in 1..n : Hits(S)[i].rank = Hits(S)[j].rank => i = j
  BY <1>8, <1>9
<1>11. \A i \in 1..n : /\ Hits(S)[i].rank \in S
                       /\ Hits(S)[i].tier = store[Hits(S)[i].rank].tier
  BY <1>3, <1>8
<1> QED
  BY <1>2, <1>7, <1>10, <1>11

LEMMA CutFacts ==
  ASSUME NEW hits \in Seq(Hit)
  PROVE  /\ Cut(hits) \in Seq(Hit) /\ Len(hits) \in Nat
         /\ Len(Cut(hits)) = IF Len(hits) < 3 THEN Len(hits) ELSE 3
         /\ DOMAIN Cut(hits) = 1..Len(Cut(hits))
         /\ DOMAIN Cut(hits) \subseteq DOMAIN hits
         /\ \A i \in DOMAIN Cut(hits) : Cut(hits)[i] = hits[i]
<1> DEFINE m == IF Len(hits) < NResults THEN Len(hits) ELSE NResults
<1>1. Len(hits) \in Nat /\ DOMAIN hits = 1..Len(hits)
  OBVIOUS
<1>2. m \in Int /\ m >= 0 /\ m <= Len(hits) /\ m = IF Len(hits) < 3 THEN Len(hits) ELSE 3
  BY <1>1 DEF NResults
<1>3. Cut(hits) = SubSeq(hits, 1, m)
  BY DEF Cut
<1> HIDE DEF m
<1>4. \A i \in 1..m : i \in 1..Len(hits) /\ hits[i] \in Hit
  <2>1. \A i \in 1..m : i \in 1..Len(hits)
    <3> DEFINE l == Len(hits)
    <3>1. l \in Nat
      BY <1>1
    <3> HIDE DEF l
    <3>2. m <= l
      BY <1>2 DEF l
    <3>3. \A i \in 1..m : i \in 1..l
      BY <1>2, <3>1, <3>2
    <3> QED
      BY <3>3 DEF l
  <2> QED
    BY <1>1, <2>1, ElementOfSeq
<1>5. /\ Cut(hits) \in Seq(Hit) /\ Len(Cut(hits)) = IF 1 <= m THEN m - 1 + 1 ELSE 0
      /\ \A i \in 1..m - 1 + 1 : Cut(hits)[i] = hits[1 + i - 1]
  BY <1>2, <1>3, <1>4, SubSeqProperties
<1>6. Len(Cut(hits)) = m
  BY <1>2, <1>5
<1>7. DOMAIN Cut(hits) = 1..m
  BY <1>5, <1>6, LenProperties
<1>8. \A i \in 1..m : Cut(hits)[i] = hits[i]
  <2>1. \A i \in 1..m : i \in 1..m - 1 + 1 /\ 1 + i - 1 = i
    BY <1>2
  <2> QED
    BY <1>5, <2>1
<1>9. 1..m \subseteq 1..Len(hits)
  BY <1>4
<1> QED
  BY <1>1, <1>2, <1>5, <1>6, <1>7, <1>8, <1>9

\* The tiers of some hits are one or both.
LEMMA TiersFacts ==
  ASSUME NEW hits \in Seq(Hit), hits # <<>>
  PROVE  Cardinality(TiersOf(hits)) = 1 <=> \A i \in DOMAIN hits : hits[i].tier = hits[1].tier
<1>1. 1 \in DOMAIN hits /\ \A i \in DOMAIN hits : hits[i].tier \in StoredTiers
  <2>1. Len(hits) \in Nat \ {0} /\ DOMAIN hits = 1..Len(hits)
    BY EmptySeq, LenProperties
  <2>2. 1 \in 1..Len(hits)
    BY <2>1
  <2>3. \A i \in DOMAIN hits : hits[i] \in Hit
    BY ElementOfSeq, <2>1
  <2> QED
    BY <2>1, <2>2, <2>3 DEF Hit
<1>2. TiersOf(hits) \in SUBSET StoredTiers /\ hits[1].tier \in TiersOf(hits)
  BY <1>1 DEF TiersOf
<1>3. IsFiniteSet(TiersOf(hits))
  <2>1. IsFiniteSet({"LOW"})
    BY FS_Singleton
  <2>2. IsFiniteSet({"LOW"} \union {"HIGH"})
    BY <2>1, FS_AddElement
  <2>3. IsFiniteSet({"LOW"} \union {"HIGH"} \union {"MEDIUM"})
    BY <2>2, FS_AddElement
  <2>4. StoredTiers = {"LOW"} \union {"HIGH"} \union {"MEDIUM"}
    BY DEF StoredTiers
  <2> QED
    BY <1>2, <2>3, <2>4, FS_Subset
<1>4. Cardinality(TiersOf(hits)) = 1 <=> \E t : TiersOf(hits) = {t}
  BY <1>3, FS_Singleton
<1>5. (\E t : TiersOf(hits) = {t}) <=> TiersOf(hits) = {hits[1].tier}
  BY <1>2
<1>6. TiersOf(hits) = {hits[1].tier} <=> \A i \in DOMAIN hits : hits[i].tier = hits[1].tier
  BY <1>1 DEF TiersOf
<1> QED
  BY <1>4, <1>5, <1>6

\* A context without doubles but for what was stored anew, and one-sided only for
\* want of room or of a counterexample.
Distinct(c) == \A i, j \in DOMAIN c : c[i].rank = c[j].rank => i = j

DistinctBut(c, new) == \A i, j \in DOMAIN c : c[i].rank = c[j].rank => i = j \/ c[i].rank \in new

Balanced(c) ==
  (Len(positive) < NResults /\ Cardinality(TiersOf(c)) = 1) => Opposed(c[1].tier) = {}

\* What the first query found and the retrieval still holds when it makes the
\* second: distinct hits of one tier, as stored unless stored anew.
Found ==
  /\ positive \in Seq(Hit) /\ positive # <<>>
  /\ Distinct(positive)
  /\ OneSided(positive)
  /\ \A i \in DOMAIN positive :
       positive[i].rank \in anew \/ positive[i].tier = store[positive[i].rank].tier

LEMMA SimilarArePresent == Similar \subseteq Present(store)
  BY DEF Similar, FirstOf

LEMMA NotEmpty ==
  ASSUME StoreTyped, NEW S \in SUBSET Present(store), S # {}
  PROVE  Cardinality(S) \in Nat \ {0} /\ Hits(S) \in Seq(Hit) /\ Hits(S) # <<>>
<1>1. /\ IsFiniteSet(S) /\ Cardinality(S) \in Nat
      /\ Hits(S) \in Seq(Hit) /\ Len(Hits(S)) = Cardinality(S)
  BY HitsFacts
<1>2. Cardinality(S) # 0
  BY <1>1, FS_EmptySet
<1>3. Hits(S) # <<>>
  BY <1>1, <1>2
<1> QED
  BY <1>1, <1>2, <1>3

\* What the first query returns.
LEMMA SimilarFacts ==
  ASSUME StoreTyped, Similar # {}
  PROVE  /\ Hits(Similar) \in Seq(Hit) /\ Hits(Similar) # <<>>
         /\ Distinct(Hits(Similar)) /\ Distinct(Cut(Hits(Similar)))
         /\ \A i \in DOMAIN Hits(Similar) :
              Hits(Similar)[i].tier = store[Hits(Similar)[i].rank].tier
<1> DEFINE hits == Hits(Similar)
           c == Cut(hits)
<1>1. Similar \in SUBSET Present(store)
  BY SimilarArePresent
<1>2. /\ hits \in Seq(Hit) /\ hits # <<>> /\ Distinct(hits)
      /\ \A i \in DOMAIN hits : hits[i].tier = store[hits[i].rank].tier
  BY <1>1, NotEmpty, HitsFacts DEF Distinct
<1> HIDE DEF hits
<1>3. DOMAIN c \subseteq DOMAIN hits /\ \A i \in DOMAIN c : c[i] = hits[i]
  BY <1>2, CutFacts
<1>4. Distinct(c)
  BY <1>2, <1>3 DEF Distinct
<1> QED
  BY <1>2, <1>4 DEF hits

\* A set that is not empty has a first element.
LEMMA FirstExists ==
  ASSUME NEW S \in SUBSET Nat, S # {}
  PROVE  FirstOf(S, 1) # {}
<1>1. PICK r \in S : \A x \in S : r <= x
  BY LeastNatural
<1>2. \A x \in S : ~(x < r)
  BY <1>1
<1>3. {x \in S : x < r} = {}
  BY <1>2
<1>4. Cardinality({x \in S : x < r}) < 1
  BY <1>3, FS_EmptySet
<1> QED
  BY <1>4 DEF FirstOf

\* What the second query adds to hits of one tier.
LEMMA ContrastFacts ==
  ASSUME StoreTyped, Found
  PROVE  LET c == Cut(positive \o Hits(FirstOf(Contrasts, 1)))
         IN  DistinctBut(c, anew) /\ Balanced(c)
<1> DEFINE p == positive
           F == FirstOf(Contrasts, 1)
           q == Hits(F)
           all == p \o q
           c == Cut(all)
           l == Len(p)
<1>1. F \in SUBSET Present(store) /\ F \subseteq Contrasts
  BY DEF FirstOf, Contrasts, Opposed
<1>2. p \in Seq(Hit) /\ p # <<>> /\ Distinct(p)
  BY DEF Found
<1>3. /\ q \in Seq(Hit) /\ Distinct(q) /\ Len(q) \in Nat /\ DOMAIN q = 1..Len(q)
      /\ \A j \in 1..Len(q) : q[j].rank \in F /\ q[j].tier = store[q[j].rank].tier
  <2> HIDE DEF F
  <2>1. /\ q \in Seq(Hit) /\ DOMAIN q = 1..Cardinality(F) /\ Len(q) = Cardinality(F)
        /\ Cardinality(F) \in Nat
        /\ \A i \in DOMAIN q : q[i].rank \in F /\ q[i].tier = store[q[i].rank].tier
        /\ \A i, j \in DOMAIN q : q[i].rank = q[j].rank => i = j
    BY <1>1, HitsFacts
  <2> HIDE DEF q
  <2> QED
    BY <2>1 DEF Distinct
<1> HIDE DEF p, F, q
<1>4. /\ all \in Seq(Hit) /\ l \in Nat \ {0} /\ DOMAIN p = 1..l /\ Len(all) = l + Len(q)
      /\ \A i \in 1..l : all[i] = p[i]
      /\ \A j \in 1..Len(q) : all[l + j] = q[j]
  <2>1. l \in Nat \ {0} /\ DOMAIN p = 1..l
    BY <1>2, EmptySeq, LenProperties
  <2>2. /\ all \in Seq(Hit) /\ Len(all) = l + Len(q)
        /\ \A i \in 1..Len(p) + Len(q) : all[i] = IF i <= Len(p) THEN p[i] ELSE q[i - Len(p)]
    BY <1>2, <1>3, ConcatProperties
  <2> HIDE DEF all, l
  <2>3. \A i \in 1..l : all[i] = p[i]
    BY <1>3, <2>1, <2>2 DEF l
  <2>4. \A j \in 1..Len(q) : all[l + j] = q[j]
    <3> SUFFICES ASSUME NEW j \in 1..Len(q) PROVE all[l + j] = q[j]
      OBVIOUS
    <3>1. l + j \in 1..l + Len(q) /\ ~(l + j <= l) /\ l + j - l = j
      BY <1>3, <2>1
    <3> QED
      BY <2>2, <3>1 DEF l
  <2> QED
    BY <2>1, <2>2, <2>3, <2>4
<1> HIDE DEF all, l
<1>5. /\ c \in Seq(Hit) /\ Len(all) \in Nat
      /\ Len(c) = IF Len(all) < 3 THEN Len(all) ELSE 3
      /\ DOMAIN c = 1..Len(c) /\ DOMAIN c \subseteq DOMAIN all /\ \A i \in DOMAIN c : c[i] = all[i]
  BY <1>4, CutFacts
<1> HIDE DEF c
<1>6. \A j \in 1..Len(q) : q[j].tier # p[1].tier
  <2>1. \A r \in F : store[r].tier # p[1].tier
    BY <1>1 DEF Contrasts, Opposed, Opposite, p
  <2> QED
    BY <1>3, <2>1
<1>7. l < 3 => \A i \in 1..l : p[i].tier = p[1].tier
  <2> SUFFICES ASSUME l < 3 PROVE \A i \in 1..l : p[i].tier = p[1].tier
    OBVIOUS
  <2>1. /\ Cut(p) \in Seq(Hit) /\ Len(Cut(p)) = l /\ DOMAIN Cut(p) = 1..l
        /\ \A i \in 1..l : Cut(p)[i] = p[i]
    BY <1>2, CutFacts DEF l
  <2>2. Cut(p) # <<>>
    BY <1>4, <2>1
  <2>3. Cardinality(TiersOf(Cut(p))) = 1
    BY DEF Found, OneSided, p
  <2>4. \A i \in DOMAIN Cut(p) : Cut(p)[i].tier = Cut(p)[1].tier
    BY <2>1, <2>2, <2>3, TiersFacts
  <2>5. 1 \in 1..l
    BY <1>4
  <2> QED
    BY <2>1, <2>4, <2>5
<1>8. \A i \in DOMAIN c : (i \in 1..l /\ c[i] = p[i]) \/
                          (l < 3 /\ i - l \in 1..Len(q) /\ i = l + (i - l) /\ c[i] = q[i - l])
  <2> SUFFICES ASSUME NEW i \in DOMAIN c
               PROVE  (i \in 1..l /\ c[i] = p[i]) \/
                      (l < 3 /\ i - l \in 1..Len(q) /\ i = l + (i - l) /\ c[i] = q[i - l])
    OBVIOUS
  <2>1. i \in 1..Len(c) /\ Len(c) \in Nat /\ Len(c) <= 3 /\ Len(c) <= l + Len(q) /\ c[i] = all[i]
    BY <1>4, <1>5
  <2>2. CASE i <= l
    <3>1. i \in 1..l
      BY <1>4, <2>1, <2>2
    <3> QED
      BY <1>4, <2>1, <3>1
  <2>3. CASE ~(i <= l)
    <3>1. l < 3 /\ i - l \in 1..Len(q) /\ i = l + (i - l)
      BY <1>3, <1>4, <2>1, <2>3
    <3>2. all[l + (i - l)] = q[i - l]
      BY <1>4, <3>1
    <3> QED
      BY <2>1, <3>1, <3>2
  <2> QED
    BY <2>2, <2>3
<1>9. DistinctBut(c, anew)
  <2> SUFFICES ASSUME NEW i \in DOMAIN c, NEW j \in DOMAIN c, c[i].rank = c[j].rank,
                      c[i].rank \notin anew
               PROVE  i = j
    BY DEF DistinctBut
  <2>1. \A a \in 1..l, b \in 1..Len(q) :
          l < 3 /\ p[a].rank \notin anew => p[a].rank # q[b].rank
    <3> SUFFICES ASSUME NEW a \in 1..l, NEW b \in 1..Len(q), l < 3, p[a].rank = q[b].rank,
                        p[a].rank \notin anew
                 PROVE  FALSE
      OBVIOUS
    <3>1. p[a].tier = store[p[a].rank].tier
      BY <1>4 DEF Found, p
    <3> QED
      BY <1>3, <1>6, <1>7, <3>1
  <2>2. CASE i \in 1..l /\ c[i] = p[i]
    <3>1. CASE j \in 1..l /\ c[j] = p[j]
      BY <1>2, <1>4, <2>2, <3>1 DEF Distinct
    <3> QED
      BY <1>8, <2>1, <2>2, <3>1
  <2>3. CASE l < 3 /\ i - l \in 1..Len(q) /\ i = l + (i - l) /\ c[i] = q[i - l]
    <3>1. CASE j \in 1..l /\ c[j] = p[j]
      BY <2>1, <2>3, <3>1
    <3>2. CASE l < 3 /\ j - l \in 1..Len(q) /\ j = l + (j - l) /\ c[j] = q[j - l]
      <4>1. i - l = j - l
        BY <1>3, <2>3, <3>2 DEF Distinct
      <4> QED
        BY <2>3, <3>2, <4>1
    <3> QED
      BY <1>8, <3>1, <3>2
  <2> QED
    BY <1>8, <2>2, <2>3
<1>10. Balanced(c)
  <2> SUFFICES ASSUME l < 3, Cardinality(TiersOf(c)) = 1, Opposed(c[1].tier) # {}
               PROVE  FALSE
    BY DEF Balanced, NResults, l, p
  <2>1. 1 \in DOMAIN c /\ c[1] = p[1] /\ c # <<>>
    <3>1. 1 \in DOMAIN c /\ 1 \in 1..l /\ c # <<>>
      BY <1>3, <1>4, <1>5
    <3> QED
      BY <1>4, <1>5, <3>1
  <2>2. Contrasts # {}
    BY <2>1 DEF Contrasts, p
  <2>3. F # {}
    <3>1. Contrasts \in SUBSET Nat
      BY RetrievalBounds DEF Contrasts, Opposed, Present, Ranks
    <3> QED
      BY <2>2, <3>1, FirstExists DEF F
  <2>4. Len(q) # 0
    <3>1. q # <<>>
      BY <1>1, <2>3, NotEmpty DEF q
    <3> QED
      BY <1>3, <3>1, EmptySeq
  <2>5. 1 \in 1..Len(q) /\ l + 1 \in DOMAIN c
    BY <1>3, <1>4, <1>5, <2>4
  <2>6. c[l + 1].tier # c[1].tier
    BY <1>4, <1>5, <1>6, <2>1, <2>5
  <2> QED
    BY <1>5, <2>1, <2>5, <2>6, TiersFacts
<1> QED
  BY <1>9, <1>10 DEF c, all, p, q, F

\* The finished context, and what it will be made of.
RetrievalInv ==
  /\ StoreTyped
  /\ place \in {"start", "contrast", "done"}
  /\ place = "start" => positive = <<>> /\ anew = {}
  /\ place # "done" => context = <<>>
  /\ place = "contrast" => Found
  /\ DistinctBut(context, anew)
  /\ place = "done" => Balanced(context)

LEMMA RetrievalStep == RetrievalInv /\ [RetrievalNext]_retrievalVars => RetrievalInv'
<1> SUFFICES ASSUME RetrievalInv, [RetrievalNext]_retrievalVars PROVE RetrievalInv'
  OBVIOUS
<1>0. \A new : DistinctBut(<<>>, new)
  BY DEF DistinctBut
<1>1. ASSUME UNCHANGED <<store, positive>>
      PROVE  \A c : Balanced(c)' = Balanced(c)
  BY <1>1 DEF Balanced, Opposed, Present, TiersOf
<1>2. CASE \E r \in Ranks, m \in Metadata : Upsert(r, m)
  <2>1. PICK r \in Ranks, m \in Metadata : Upsert(r, m)
    BY <1>2
  <2>2. /\ place # "done" /\ UNCHANGED <<place, positive, context>>
        /\ store' = [store EXCEPT ![r] = m]
        /\ anew' = IF place = "contrast" THEN anew \union {r} ELSE anew
    BY <2>1 DEF Upsert
  <2>3. store' \in [Ranks -> Metadata \union {NoIncident}]
    BY <2>2 DEF RetrievalInv, StoreTyped
  <2>4. ASSUME place = "contrast" PROVE Found'
    <3>1. /\ positive \in Seq(Hit) /\ positive # <<>> /\ Distinct(positive)
          /\ OneSided(positive)
      BY <2>4 DEF RetrievalInv, Found
    <3>2. ASSUME NEW i \in DOMAIN positive, positive[i].rank \notin anew'
          PROVE  positive[i].tier = store'[positive[i].rank].tier
      <4>1. positive[i].rank \notin anew /\ positive[i].rank # r
        BY <2>2, <2>4, <3>2
      <4>2. positive[i].tier = store[positive[i].rank].tier
        BY <2>4, <4>1 DEF RetrievalInv, Found
      <4>3. store'[positive[i].rank] = store[positive[i].rank]
        BY <2>2, <4>1
      <4> QED
        BY <4>2, <4>3
    <3>3. OneSided(positive)' = OneSided(positive) /\ Distinct(positive)' = Distinct(positive)
      BY <2>2 DEF OneSided, Cut, TiersOf, Distinct
    <3> QED
      BY <2>2, <3>1, <3>2, <3>3 DEF Found
  <2>5. DistinctBut(context, anew)'
    BY <1>0, <2>2 DEF RetrievalInv, DistinctBut
  <2> QED
    BY <2>2, <2>3, <2>4, <2>5 DEF RetrievalInv, StoreTyped
<1>3. CASE ReturnNothing
  <2>1. /\ place' = "done" /\ UNCHANGED <<store, positive, anew>>
        /\ context' = <<>>
    BY <1>3 DEF ReturnNothing, RetrievalInv
  <2>2. Cardinality(TiersOf(<<>>)) # 1
    <3>1. TiersOf(<<>>) = {}
      BY DEF TiersOf
    <3> QED
      BY <3>1, FS_EmptySet
  <2>3. Balanced(context)'
    BY <2>1, <2>2 DEF Balanced, TiersOf
  <2>4. DistinctBut(context, anew)'
    BY <2>1 DEF DistinctBut
  <2> QED
    BY <2>1, <2>3, <2>4 DEF RetrievalInv, StoreTyped
<1>4. CASE ReturnMixed
  <2>1. /\ place' = "done" /\ context' = Cut(Hits(Similar)) /\ UNCHANGED <<store, positive, anew>>
        /\ Similar # {} /\ ~OneSided(Hits(Similar))
    BY <1>4 DEF ReturnMixed
  <2>2. Cardinality(TiersOf(context')) # 1
    BY <2>1 DEF OneSided
  <2>3. Balanced(context)'
    BY <2>2 DEF Balanced, TiersOf
  <2>4. Distinct(context')
    BY <2>1, SimilarFacts DEF RetrievalInv
  <2>5. DistinctBut(context, anew)'
    BY <2>4 DEF Distinct, DistinctBut
  <2> QED
    BY <2>1, <2>3, <2>5 DEF RetrievalInv, StoreTyped
<1>5. CASE NeedContrast
  <2>1. /\ place' = "contrast" /\ positive' = Hits(Similar) /\ UNCHANGED <<store, context, anew>>
        /\ Similar # {} /\ OneSided(Hits(Similar)) /\ place = "start"
    BY <1>5 DEF NeedContrast
  <2>2. /\ positive' \in Seq(Hit) /\ positive' # <<>> /\ Distinct(positive')
        /\ \A i \in DOMAIN positive' : positive'[i].tier = store[positive'[i].rank].tier
    BY <2>1, SimilarFacts DEF RetrievalInv
  <2>3. OneSided(positive') /\ OneSided(positive)' = OneSided(positive')
        /\ Distinct(positive)' = Distinct(positive')
    BY <2>1 DEF OneSided, Cut, TiersOf, Distinct
  <2>4. Found'
    BY <2>1, <2>2, <2>3 DEF Found
  <2>5. DistinctBut(context, anew)'
    BY <1>0, <2>1 DEF RetrievalInv, DistinctBut
  <2> QED
    BY <2>1, <2>4, <2>5 DEF RetrievalInv, StoreTyped
<1>6. CASE AddContrast
  <2>1. /\ place = "contrast" /\ place' = "done" /\ UNCHANGED <<store, positive, anew>>
        /\ context' = Cut(positive \o Hits(FirstOf(Contrasts, 1)))
    BY <1>6 DEF AddContrast
  <2>2. DistinctBut(context', anew) /\ Balanced(context')
    BY <2>1, ContrastFacts DEF RetrievalInv
  <2>3. Balanced(context)'
    <3>1. Balanced(context)' <=>
            ((Len(positive) < NResults /\ Cardinality(TiersOf(context')) = 1)
             => Opposed(context'[1].tier) = {})
      BY <2>1 DEF Balanced, TiersOf, Opposed, Present, NResults
    <3> QED
      BY <2>2, <3>1 DEF Balanced
  <2>4. DistinctBut(context, anew)'
    BY <2>1, <2>2 DEF DistinctBut
  <2> QED
    BY <2>1, <2>3, <2>4 DEF RetrievalInv, StoreTyped
<1>7. CASE UNCHANGED retrievalVars
  <2>1. UNCHANGED <<store, place, positive, context, anew>>
    BY <1>7 DEF retrievalVars
  <2>2. /\ Found' = Found /\ Balanced(context)' = Balanced(context)
        /\ DistinctBut(context, anew)' = DistinctBut(context, anew)
    BY <2>1 DEF Found, OneSided, Cut, TiersOf, Distinct, DistinctBut, Balanced, Opposed, Present
  <2> QED
    BY <2>1, <2>2 DEF RetrievalInv, StoreTyped
<1> QED
  BY <1>2, <1>3, <1>4, <1>5, <1>6, <1>7 DEF RetrievalNext

LEMMA RetrievalAlways == RetrievalSpec => []RetrievalInv
<1>1. RetrievalInit => RetrievalInv
  BY DEF RetrievalInit, RetrievalInv, StoreTyped, DistinctBut
<1> QED
  BY <1>1, RetrievalStep, PTL DEF RetrievalSpec

\* The prompt never holds a past incident twice, whatever the Learning Agent
\* stores between the two queries, but for one that it stores anew.
THEOREM IncidentsAreDistinct == RetrievalSpec => []NoIncidentTwice
<1>1. RetrievalInv => NoIncidentTwice
  BY DEF RetrievalInv, NoIncidentTwice, DistinctBut
<1> QED
  BY <1>1, RetrievalAlways, PTL

\* Context of one tier out of less than three hits means that the second query
\* had no positive incident of the opposite tier to find.
THEOREM ContextIsBalanced == RetrievalSpec => []BalancedIfRoom
<1>1. RetrievalInv => BalancedIfRoom
  BY DEF RetrievalInv, BalancedIfRoom, Balanced
<1> QED
  BY <1>1, RetrievalAlways, PTL
=============================================================================
