-------------------------- MODULE FusionEngineProofs --------------------------
(***************************************************************************)
(* Safety of the Fusion Engine for every set of events, detectors and      *)
(* results, every window and every number of restarts.                     *)
(***************************************************************************)
EXTENDS FusionEngine, FiniteSetTheorems, TLAPS

\* What storing a result leaves for its event is an entry.
LEMMA StoredTyped ==
  ASSUME TypeOK, NEW r \in Results
  PROVE  Stored(r) \in Entries
<1> DEFINE old == IF r.event \in DOMAIN pending THEN pending[r.event] ELSE NewEntry
<1>1. old \in Entries
  BY WindowsAreTicks DEF TypeOK, Entries, NewEntry, Entry, Deadline
<1>2. Stored(r) = Entry(old.results \union {r}, old.age, old.fast \/ IsFastPath(r),
                       old.recovering)
  BY DEF Stored
<1> HIDE DEF old
<1>3. (old.fast \/ IsFastPath(r)) \in BOOLEAN
  OBVIOUS
<1> QED
  BY <1>1, <1>2, <1>3 DEF Entry, Entries

\* Every state keeps the types of TypeOK.
THEOREM TypeCorrect == Spec => []TypeOK
<1> USE WindowsAreTicks
<1>1. Init => TypeOK
  BY DEF Init, TypeOK, Statuses, NoStats
<1>2. TypeOK /\ [Next]_vars => TypeOK'
  <2> SUFFICES ASSUME TypeOK, [Next]_vars PROVE TypeOK'
    OBVIOUS
  <2> USE DEF TypeOK
  <2>0. Deadline \in Nat
    BY DEF Deadline
  <2>1. ASSUME NEW r \in Results, Produce(r) PROVE TypeOK'
    BY <2>1 DEF Produce, Statuses
  <2>2. ASSUME NEW r \in Results, IgnoreLate(r) PROVE TypeOK'
    BY <2>2 DEF IgnoreLate, Statuses, process
  <2>3. ASSUME NEW r \in Results, IgnoreDuplicate(r) PROVE TypeOK'
    BY <2>3 DEF IgnoreDuplicate, Statuses, process
  <2>ct. ASSUME NEW r \in Results PROVE CountTrigger(r) \in [Counters -> Nat]
    BY DEF CountTrigger, Counted
  <2>4. ASSUME NEW r \in Results, Store(r) PROVE TypeOK'
    <3>1. r.event \in Events
      BY ResultsHaveEvents
    <3> QED
      BY <2>4, StoredTyped, <2>ct, <3>1 DEF Store, Statuses, NewResult, Deliverable
  <2>fi. ASSUME NEW e \in Events, NEW entry \in Entries, NEW recovery \in BOOLEAN,
                NEW return \in {"ack", "check"}, Finalize(e, entry, recovery, return)
         PROVE  /\ DOMAIN pending' = DOMAIN pending \ {e}
                /\ \A x \in DOMAIN pending' : pending'[x] \in Entries
                /\ processed' \subseteq Events
                /\ pc' = "fuse"
                /\ job' \in Job
                /\ job'.return = return
    BY <2>fi DEF Finalize, Entries, Job
  <2>5. ASSUME NEW r \in Results, StoreLast(r) PROVE TypeOK'
    <3>1. r.event \in Events
      BY ResultsHaveEvents
    <3>2. todo = {}
      BY <2>5 DEF StoreLast, NewResult, Deliverable
    <3> QED
      BY <2>5, StoredTyped, <2>ct, <2>fi, <3>1, <3>2 DEF StoreLast, Statuses
  <2>6. ASSUME NEW r \in Results, Ack(r) PROVE TypeOK'
    BY <2>6 DEF Ack, Statuses
  <2>7. ASSUME Tick PROVE TypeOK'
    BY <2>7, <2>0 DEF Tick, Entries, Entry, Older
  <2>8. ASSUME StartCheck PROVE TypeOK'
    BY <2>8 DEF StartCheck
  <2>9. ASSUME NEW e \in Events, CheckKeep(e) PROVE TypeOK'
    BY <2>9, <2>0 DEF CheckKeep, Recovering, Entries, Entry
  <2>10. ASSUME NEW e \in Events, CheckFinalize(e) PROVE TypeOK'
    <3>1. pending[e] \in Entries
      BY <2>10 DEF CheckFinalize
    <3>2. PICK c \in BOOLEAN : Finalize(e, pending[e], c, "check")
      BY <2>10 DEF CheckFinalize, WindowEndsComplete
    <3>3. stats' \in [Counters -> Nat]
      BY <2>10 DEF CheckFinalize, Counted
    <3> QED
      BY <2>10, <3>1, <3>2, <3>3, <2>fi DEF CheckFinalize
  <2>11. ASSUME EndCheck PROVE TypeOK'
    BY <2>11 DEF EndCheck
  <2>12. ASSUME Suppress PROVE TypeOK'
    BY <2>12 DEF Suppress, Job, Counted
  <2>13. ASSUME Publish PROVE TypeOK'
    <3>1. job \in Job
      BY <2>13 DEF Publish
    <3> QED
      BY <2>13, <3>1 DEF Publish, Job, Publication
  <2>14. ASSUME PublishFails PROVE TypeOK'
    BY <2>14 DEF PublishFails, Job, Counted
  <2>15. ASSUME Record PROVE TypeOK'
    BY <2>15 DEF Record, Job, Counted
  <2>16. ASSUME RecordFails PROVE TypeOK'
    BY <2>16 DEF RecordFails, Job, Counted
  <2>17. ASSUME Crash PROVE TypeOK'
    BY <2>17 DEF Crash, Statuses, NoStats
  <2>18. CASE UNCHANGED vars
    BY <2>18 DEF vars
  <2> QED
    BY <2>1, <2>2, <2>3, <2>4, <2>5, <2>6, <2>7, <2>8, <2>9, <2>10, <2>11, <2>12,
       <2>13, <2>14, <2>15, <2>16, <2>17, <2>18
       DEF Next, Handle, Check, Decide
<1> QED
  BY <1>1, <1>2, PTL DEF Spec
-----------------------------------------------------------------------------
(* The facts every step of the thread is made of.                          *)

\* Storing a result that is not a duplicate keeps an entry faithful.
LEMMA StoredFaithful ==
  ASSUME TypeOK, IInv, NEW r \in Results, NewResult(r)
  PROVE  Faithful(Stored(r))
<1> DEFINE old == IF r.event \in DOMAIN pending THEN pending[r.event] ELSE NewEntry
<1>1. Faithful(old)
  <2>1. Faithful(NewEntry)
    BY DEF Faithful, NewEntry, Entry
  <2>2. \A e \in DOMAIN pending : Faithful(pending[e])
    BY DEF IInv, EntriesInv
  <2> QED
    BY <2>1, <2>2
<1>2. \A s \in old.results : s.model # r.model
  BY DEF NewResult, Seen, NewEntry, Entry
<1>3. Stored(r) = Entry(old.results \union {r}, old.age, old.fast \/ IsFastPath(r),
                       old.recovering)
  BY DEF Stored
<1> HIDE DEF old
<1>4. \A x, y \in old.results \union {r} : x.model = y.model => x = y
  BY <1>1, <1>2 DEF Faithful
<1>5. (old.fast \/ IsFastPath(r)) <=> \E x \in old.results \union {r} : IsFastPath(x)
  BY <1>1 DEF Faithful
<1>6. Stored(r).results = old.results \union {r}
  BY <1>3 DEF Entry
<1>7. Stored(r).fast = (old.fast \/ IsFastPath(r))
  <2> DEFINE b == old.fast \/ IsFastPath(r)
  <2>1. Stored(r) = Entry(old.results \union {r}, old.age, b, old.recovering)
    BY <1>3
  <2> HIDE DEF b
  <2>2. Stored(r).fast = b
    BY <2>1 DEF Entry
  <2> QED
    BY <2>2 DEF b
<1> QED
  BY <1>4, <1>5, <1>6, <1>7, Zenon DEF Faithful

\* Finalizing an event hands a faithful entry over to the decision.
LEMMA FinalizeKeepsInv ==
  ASSUME TypeOK, IInv, NEW e \in Events, e \notin processed, NEW entry \in Entries,
         NEW recovery \in BOOLEAN, NEW return \in {"ack", "check"},
         Finalize(e, entry, recovery, return),
         Faithful(entry),
         recovery <=> ~Complete(entry.results),
         recovery => entry.age = Deadline,
         UNCHANGED <<life, published>>
  PROVE  IInv'
<1>1. /\ DOMAIN pending' \subseteq DOMAIN pending
      /\ \A x \in DOMAIN pending' : pending'[x] = pending[x] /\ x # e
  BY DEF Finalize
<1>2. NoCompleteEntryWaits'
  BY <1>1 DEF IInv, NoCompleteEntryWaits, Complete, Seen
<1>3. EntriesInv'
  BY <1>1 DEF Finalize, IInv, EntriesInv, Faithful
<1>4. JobInv'
  BY DEF Finalize, JobInv, Faithful, RecoveryRule, Complete, Seen
<1>5. PublishedInv'
  BY DEF IInv, PublishedInv, Faithful, RecoveryRule, Complete, Seen
<1>6. OnceInv'
  BY DEF Finalize, IInv, OnceInv, FusedOncePerLife
<1> QED
  BY <1>2, <1>3, <1>4, <1>5, <1>6 DEF IInv
\* The invariant does not read the queue, the counters or the check's to-do list,
\* and only looks at pc to know whether a decision is being taken.
LEMMA DeciderIdleKeepsInv ==
  ASSUME IInv, UNCHANGED <<pending, processed, job, life, published>>,
         pc' = pc \/ pc' \notin {"fuse", "record"}
  PROVE  IInv'
<1> USE DEF IInv
<1>1. NoCompleteEntryWaits' /\ EntriesInv' /\ PublishedInv'
  BY DEF NoCompleteEntryWaits, EntriesInv, PublishedInv, Faithful, RecoveryRule, Complete, Seen
<1>2. JobInv'
  BY DEF JobInv, Faithful, RecoveryRule, Complete, Seen
<1>3. OnceInv'
  BY DEF OnceInv, FusedOncePerLife
<1> QED
  BY <1>1, <1>2, <1>3

\* Entries may get older or switch to recovery: what they hold stays the same.
LEMMA AgingKeepsInv ==
  ASSUME IInv, UNCHANGED <<processed, pc, job, life, published>>,
         DOMAIN pending' = DOMAIN pending,
         \A e \in DOMAIN pending : /\ pending'[e].results = pending[e].results
                                   /\ pending'[e].fast = pending[e].fast
  PROVE  IInv'
<1> USE DEF IInv
<1>1. NoCompleteEntryWaits'
  BY DEF NoCompleteEntryWaits, Complete, Seen
<1>2. EntriesInv'
  BY DEF EntriesInv, Faithful
<1>3. PublishedInv' /\ JobInv'
  BY DEF PublishedInv, JobInv, Faithful, RecoveryRule, Complete, Seen
<1>4. OnceInv'
  BY DEF OnceInv, FusedOncePerLife
<1> QED
  BY <1>1, <1>2, <1>3, <1>4

\* Every step keeps the inductive invariant.
LEMMA StepKeepsInv == TypeOK /\ IInv /\ [Next]_vars => IInv'
<1> SUFFICES ASSUME TypeOK, IInv, [Next]_vars PROVE IInv'
  OBVIOUS
<1>1. ASSUME NEW r \in Results, Produce(r) \/ IgnoreLate(r) \/ IgnoreDuplicate(r) \/ Ack(r)
      PROVE IInv'
  BY <1>1, DeciderIdleKeepsInv DEF Produce, IgnoreLate, IgnoreDuplicate, Ack, process
<1>2. ASSUME NEW r \in Results, Store(r) PROVE IInv'
  <2>1. /\ DOMAIN pending' = DOMAIN pending \union {r.event}
        /\ \A e \in DOMAIN pending' :
             pending'[e] = IF e = r.event THEN Stored(r) ELSE pending[e]
    BY <1>2 DEF Store
  <2>2. Faithful(Stored(r)) /\ ~Complete(Stored(r).results) /\ r.event \notin processed
    BY <1>2, StoredFaithful DEF Store, NewResult
  <2>3. NoCompleteEntryWaits'
    BY <2>1, <2>2 DEF IInv, NoCompleteEntryWaits, Complete, Seen
  <2>4. EntriesInv'
    <3>1. ASSUME NEW e \in DOMAIN pending' PROVE e \notin processed /\ Faithful(pending'[e])
      BY <2>1, <2>2, <3>1 DEF IInv, EntriesInv
    <3> QED
      BY <1>2, <3>1 DEF Store, EntriesInv, Faithful
  <2>5. PublishedInv' /\ JobInv'
    BY <1>2 DEF Store, NewResult, Deliverable, IInv, PublishedInv, JobInv, Faithful,
                RecoveryRule, Complete, Seen
  <2>6. OnceInv'
    BY <1>2 DEF Store, IInv, OnceInv, FusedOncePerLife
  <2> QED
    BY <2>3, <2>4, <2>5, <2>6 DEF IInv
<1>3. ASSUME NEW r \in Results, StoreLast(r) PROVE IInv'
  <2>1. Stored(r) \in Entries
    BY StoredTyped
  <2>2. r.event \in Events
    BY ResultsHaveEvents
  <2>3. r.event \notin processed /\ NewResult(r)
    BY <1>3 DEF StoreLast, NewResult
  <2>4. Faithful(Stored(r))
    BY <2>3, StoredFaithful
  <2> QED
    BY <1>3, <2>1, <2>2, <2>3, <2>4, FinalizeKeepsInv DEF StoreLast
<1>4. ASSUME NEW e \in Events, CheckFinalize(e) PROVE IInv'
  <2>1. e \in DOMAIN pending /\ pending[e] \in Entries
    BY <1>4 DEF CheckFinalize, TypeOK
  <2>2. e \notin processed /\ Faithful(pending[e]) /\ ~Complete(pending[e].results)
    BY <2>1 DEF IInv, EntriesInv, NoCompleteEntryWaits
  <2>3. ~WindowEndsComplete(pending[e])
    BY <2>2 DEF WindowEndsComplete
  <2>4. Finalize(e, pending[e], TRUE, "check") /\ RecoveryOver(pending[e])
    BY <1>4, <2>3 DEF CheckFinalize
  <2>5. pending[e].age = Deadline
    BY <2>1, <2>4, WindowsAreTicks DEF RecoveryOver, Entries, Deadline
  <2> QED
    BY <1>4, <2>1, <2>2, <2>4, <2>5, FinalizeKeepsInv DEF CheckFinalize
<1>5. ASSUME Tick PROVE IInv'
  BY <1>5, AgingKeepsInv DEF Tick, Entry
<1>6. ASSUME NEW e \in Events, CheckKeep(e) PROVE IInv'
  BY <1>6, AgingKeepsInv DEF CheckKeep, Entry
<1>7. ASSUME StartCheck \/ EndCheck \/ Suppress \/ PublishFails \/ Record \/ RecordFails
      PROVE IInv'
  <2>1. pc \in {"fuse", "record"} => job.return \in {"ack", "check"}
    BY DEF TypeOK, Job
  <2> QED
    BY <1>7, <2>1, DeciderIdleKeepsInv
       DEF StartCheck, EndCheck, Suppress, PublishFails, Record, RecordFails
<1>8. ASSUME Publish PROVE IInv'
  <2> DEFINE new == [event |-> job.event, life |-> life, results |-> job.results,
                     recovery |-> job.recovery, fast |-> job.fast, waited |-> job.waited]
  <2>1. /\ job.event \in processed /\ Faithful(job) /\ RecoveryRule(job)
        /\ pc' = "record" /\ UNCHANGED <<pending, processed, job, life>>
        /\ published' = Append(published, new)
    BY <1>8 DEF Publish, IInv, JobInv
  <2>2. /\ DOMAIN published' = DOMAIN published \union {Len(published) + 1}
        /\ \A i \in DOMAIN published : published'[i] = published[i] /\ i # Len(published) + 1
        /\ published'[Len(published) + 1] = new
    BY <2>1 DEF TypeOK
  <2>3. NoCompleteEntryWaits' /\ EntriesInv' /\ JobInv'
    BY <2>1 DEF IInv, NoCompleteEntryWaits, EntriesInv, JobInv, Faithful, RecoveryRule,
                Complete, Seen
  <2>4. Faithful(new) /\ RecoveryRule(new)
    BY <2>1 DEF Faithful, RecoveryRule
  <2>5. PublishedInv'
    <3>1. ASSUME NEW i \in DOMAIN published'
          PROVE Faithful(published'[i]) /\ RecoveryRule(published'[i])
      <4> HIDE DEF new
      <4> QED BY <2>2, <2>4 DEF IInv, PublishedInv
    <3> QED
      BY <3>1 DEF PublishedInv, Faithful, RecoveryRule, Complete, Seen
  <2>6. OnceInv'
    <3>1. \A i \in DOMAIN published : published[i].life = life => published[i].event # job.event
      BY <1>8 DEF Publish, IInv, OnceInv
    <3>2. life \in Nat
      BY DEF TypeOK
    <3> QED
      BY <2>1, <2>2, <3>1, <3>2 DEF IInv, OnceInv, FusedOncePerLife
  <2> QED
    BY <2>3, <2>5, <2>6 DEF IInv
<1>9. ASSUME Crash PROVE IInv'
  <2>1. NoCompleteEntryWaits' /\ EntriesInv' /\ JobInv'
    BY <1>9 DEF Crash, NoCompleteEntryWaits, EntriesInv, JobInv
  <2>2. PublishedInv'
    BY <1>9 DEF Crash, IInv, PublishedInv, Faithful, RecoveryRule, Complete, Seen
  <2>3. OnceInv'
    <3>1. \A i \in DOMAIN published : published[i].life \in Nat
      <4>1. \A i \in DOMAIN published : published[i] \in Publication
        BY DEF TypeOK
      <4> QED
        BY <4>1 DEF Publication
    <3>2. life \in Nat /\ life' = life + 1 /\ published' = published
      BY <1>9 DEF Crash, TypeOK
    <3>3. \A i \in DOMAIN published : published[i].life <= life
      BY DEF IInv, OnceInv
    <3>4. \A i \in DOMAIN published : published[i].life <= life' /\ published[i].life # life'
      BY <3>1, <3>2, <3>3
    <3> QED
      BY <3>2, <3>4 DEF IInv, OnceInv, FusedOncePerLife
  <2> QED
    BY <2>1, <2>2, <2>3 DEF IInv
<1>10. CASE UNCHANGED vars
  BY <1>10, DeciderIdleKeepsInv DEF vars
<1> QED
  BY <1>1, <1>2, <1>3, <1>4, <1>5, <1>6, <1>7, <1>8, <1>9, <1>10
     DEF Next, Handle, Check, Decide

LEMMA InvariantHolds == Spec => []IInv
<1>1. Init => IInv
  BY DEF Init, IInv, NoCompleteEntryWaits, EntriesInv, JobInv, PublishedInv, OnceInv,
         FusedOncePerLife
<1> QED
  BY <1>1, StepKeepsInv, TypeCorrect, PTL DEF Spec

-----------------------------------------------------------------------------
(* What follows from the invariant.                                        *)

\* Between two restarts no event is published twice.
THEOREM OncePerLife == Spec => []FusedOncePerLife
<1>1. IInv => FusedOncePerLife
  BY DEF IInv, OnceInv
<1> QED
  BY <1>1, InvariantHolds, PTL

\* No published event counts a detector twice.
THEOREM OneVoice == Spec => []OneVoicePerDetector
<1>1. IInv => OneVoicePerDetector
  BY DEF IInv, PublishedInv, Faithful, OneVoicePerDetector
<1> QED
  BY <1>1, InvariantHolds, PTL

\* Recovery is the label of incomplete events, after the whole deadline, and
\* the fast path note is exactly what the fused results justify.
THEOREM NotesHonest == Spec => []NotesAreHonest
<1>1. IInv => NotesAreHonest
  BY DEF IInv, PublishedInv, Faithful, RecoveryRule, NotesAreHonest, Deadline
<1> QED
  BY <1>1, InvariantHolds, PTL

\* The branch of the deadline check that finalizes a complete entry is dead:
\* no entry is complete while it waits.
THEOREM NoCompleteEntry == Spec => []NoCompleteEntryWaits
<1>1. IInv => NoCompleteEntryWaits
  BY DEF IInv
<1> QED
  BY <1>1, InvariantHolds, PTL

\* A finalized event is never correlated again by the same process.
THEOREM StaysFinalized == Spec => NeverReopened
<1>1. TypeOK /\ IInv' /\ [Next]_vars =>
        [life' = life => \A e \in processed : e \in processed' /\ e \notin DOMAIN pending']_vars
  <2> SUFFICES ASSUME TypeOK, IInv', Next, life' = life, NEW e \in processed
               PROVE  e \in processed' /\ e \notin DOMAIN pending'
    OBVIOUS
  <2>1. ~Crash
    BY DEF Crash, TypeOK
  <2>2. e \in processed'
    BY <2>1 DEF Next, Handle, Check, Decide, Produce, IgnoreLate, IgnoreDuplicate, Store,
           StoreLast, Ack, Tick, StartCheck, EndCheck, CheckKeep, CheckFinalize, Finalize,
           Suppress, Publish, PublishFails, Record, RecordFails, process
  <2> QED
    BY <2>2 DEF IInv, EntriesInv
<1> QED
  BY <1>1, TypeCorrect, InvariantHolds, PTL DEF Spec, NeverReopened
-----------------------------------------------------------------------------
(* No acknowledged result is forgotten, and the counters agree with what was *)
(* finalized.                                                              *)

\* The message in hand is one of the event being decided.
AckInv ==
  /\ life > 0
  /\ AckedIsAccountedFor
  /\ \A r \in Results : inbox[r] = "unacked" => r.event \in processed

\* Entries lose nothing but what is finalized, and nothing else is
\* acknowledged: what is on record stays on record.
LEMMA RecordKept ==
  ASSUME AckInv, life' = life, processed \subseteq processed',
         \A e \in DOMAIN pending :
           e \in processed' \/ (e \in DOMAIN pending' /\ pending[e].results \subseteq pending'[e].results),
         \A r \in Results :
           /\ inbox'[r] = "acked" => \/ inbox[r] = "acked"
                                     \/ r.event \in processed'
                                     \/ r.event \in DOMAIN pending' /\ r.model \in Seen(pending'[r.event].results)
           /\ inbox'[r] = "unacked" => inbox[r] = "unacked" \/ r.event \in processed'
  PROVE  AckInv'
<1>1. \A x, y : x \subseteq y => Seen(x) \subseteq Seen(y)
  BY DEF Seen
<1>2. ASSUME life = 1, NEW r \in Results, inbox'[r] = "acked"
      PROVE  r.event \in processed' \/ (r.event \in DOMAIN pending' /\ r.model \in Seen(pending'[r.event].results))
  <2>1. CASE inbox[r] = "acked"
    <3>1. r.event \in processed \/ (r.event \in DOMAIN pending /\ r.model \in Seen(pending[r.event].results))
      BY <1>2, <2>1 DEF AckInv, AckedIsAccountedFor, AcknowledgedIsStored
    <3> QED
      BY <1>1, <3>1
  <2> QED
    BY <1>2, <2>1
<1>3. AckedIsAccountedFor'
  BY <1>2 DEF AckedIsAccountedFor, AcknowledgedIsStored, Seen
<1> QED
  BY <1>3 DEF AckInv

\* Every step keeps what AckInv says.
LEMMA StepKeepsAck == TypeOK /\ AckInv /\ [Next]_vars => AckInv'
<1> SUFFICES ASSUME TypeOK, AckInv, [Next]_vars PROVE AckInv'
  OBVIOUS
<1>0. inbox \in [Results -> Statuses]
  BY DEF TypeOK
<1>1. ASSUME NEW r \in Results, Produce(r) PROVE AckInv'
  BY <1>0, <1>1, RecordKept DEF Produce
<1>2. ASSUME NEW r \in Results, IgnoreLate(r) \/ IgnoreDuplicate(r) PROVE AckInv'
  BY <1>0, <1>2, RecordKept DEF IgnoreLate, IgnoreDuplicate, process
<1>3. ASSUME NEW r \in Results, Store(r) PROVE AckInv'
  <2>1. /\ DOMAIN pending' = DOMAIN pending \union {r.event}
        /\ \A e \in DOMAIN pending' :
             pending'[e] = IF e = r.event THEN Stored(r) ELSE pending[e]
        /\ inbox' = [inbox EXCEPT ![r] = "acked"]
        /\ UNCHANGED <<processed, life>>
    BY <1>3 DEF Store
  <2>2. r \in Stored(r).results
    BY DEF Stored, Entry
  <2>3. r.event \in DOMAIN pending => pending[r.event].results \subseteq Stored(r).results
    BY DEF Stored, Entry
  <2>4. r.model \in Seen(pending'[r.event].results)
    BY <2>1, <2>2 DEF Seen
  <2> QED
    BY <1>0, <2>1, <2>3, <2>4, RecordKept
<1>4. ASSUME NEW r \in Results, StoreLast(r) PROVE AckInv'
  BY <1>0, <1>4, RecordKept DEF StoreLast, Finalize
<1>5. ASSUME NEW r \in Results, Ack(r) PROVE AckInv'
  <2>1. r.event \in processed
    BY <1>5 DEF Ack, AckInv
  <2> QED
    BY <1>0, <1>5, <2>1, RecordKept DEF Ack
<1>6. ASSUME NEW e \in Events, CheckFinalize(e) PROVE AckInv'
  <2>1. PICK c : Finalize(e, pending[e], c, "check")
    BY <1>6 DEF CheckFinalize
  <2> QED
    BY <1>6, <2>1, RecordKept DEF CheckFinalize, Finalize
<1>7. ASSUME NEW e \in Events, CheckKeep(e) PROVE AckInv'
  BY <1>7, RecordKept DEF CheckKeep, Entry
<1>8. CASE Tick
  BY <1>8, RecordKept DEF Tick, Entry
<1>9. CASE StartCheck \/ EndCheck \/ Decide \/ UNCHANGED vars
  BY <1>9, RecordKept
     DEF StartCheck, EndCheck, Decide, Suppress, Publish, PublishFails, Record, RecordFails, vars
<1>10. CASE Crash
  BY <1>0, <1>10 DEF Crash, AckInv, AckedIsAccountedFor, Statuses, TypeOK
<1> QED
  BY <1>1, <1>2, <1>3, <1>4, <1>5, <1>6, <1>7, <1>8, <1>9, <1>10 DEF Next, Handle, Check

\* As long as the process has not been restarted, the broker is never told to
\* forget a result that the process does not hold.
THEOREM AckedIsHeld == Spec => []AckedIsAccountedFor
<1>1. Init => AckInv
  BY DEF Init, AckInv, AckedIsAccountedFor, AcknowledgedIsStored
<1>2. AckInv => AckedIsAccountedFor
  BY DEF AckInv
<1> QED
  BY <1>1, <1>2, StepKeepsAck, TypeCorrect, PTL DEF Spec

\* CountersAddUp, of a set that can be counted.
CountInv == IsFiniteSet(processed) /\ CountersAddUp

\* An event is finalized once: the count of processed grows with it.
LEMMA FinalizeCounts ==
  ASSUME TypeOK, CountInv, pc \in {"poll", "check"}, NEW e \in Events, e \notin processed,
         processed' = processed \union {e}, pc' = "fuse",
         \A c \in {"published", "suppressed", "errors"} : stats'[c] = stats[c]
  PROVE  CountInv'
<1>1. IsFiniteSet(processed') /\ Cardinality(processed') = Cardinality(processed) + 1
  BY FS_AddElement DEF CountInv
<1> DEFINE total == stats["published"] + stats["suppressed"] + stats["errors"]
<1>2. total' = total
  OBVIOUS
<1>3. total = Cardinality(processed)
  BY DEF CountInv, CountersAddUp, TypeOK, Counters
<1>4. total \in Nat
  BY DEF TypeOK, Counters
<1> QED
  BY <1>1, <1>2, <1>3, <1>4 DEF CountInv, CountersAddUp

\* Every step keeps the counters in agreement.
LEMMA StepKeepsCount == TypeOK /\ IInv /\ CountInv /\ [Next]_vars => CountInv'
<1> SUFFICES ASSUME TypeOK, IInv, CountInv, [Next]_vars PROVE CountInv'
  OBVIOUS
<1>1. ASSUME NEW r \in Results, Produce(r) \/ IgnoreLate(r) \/ IgnoreDuplicate(r) PROVE CountInv'
  BY <1>1 DEF Produce, IgnoreLate, IgnoreDuplicate, process, CountInv, CountersAddUp
<1>2. ASSUME NEW r \in Results, Store(r) PROVE CountInv'
  <2>1. \A c \in {"published", "suppressed", "errors"} : stats'[c] = stats[c]
    BY <1>2 DEF Store, CountTrigger, Counted, Counters
  <2> QED
    BY <1>2, <2>1 DEF Store, CountInv, CountersAddUp
<1>3. ASSUME NEW r \in Results, StoreLast(r) PROVE CountInv'
  <2>1. \A c \in {"published", "suppressed", "errors"} : stats'[c] = stats[c]
    BY <1>3 DEF StoreLast, CountTrigger, Counted, Counters
  <2>2. r.event \in Events
    BY ResultsHaveEvents
  <2> QED
    BY <1>3, <2>1, <2>2, FinalizeCounts DEF StoreLast, NewResult, Deliverable, Finalize
<1>4. ASSUME NEW r \in Results, Ack(r) PROVE CountInv'
  BY <1>4 DEF Ack, CountInv, CountersAddUp
<1>5. ASSUME NEW e \in Events, CheckFinalize(e) PROVE CountInv'
  <2>1. \A c \in {"published", "suppressed", "errors"} : stats'[c] = stats[c]
    BY <1>5 DEF CheckFinalize, Counted, Counters
  <2>2. e \notin processed
    BY <1>5 DEF CheckFinalize, TypeOK, IInv, EntriesInv
  <2>3. PICK c : Finalize(e, pending[e], c, "check")
    BY <1>5 DEF CheckFinalize
  <2> QED
    BY <1>5, <2>1, <2>2, <2>3, FinalizeCounts DEF CheckFinalize, Finalize
<1>6. ASSUME NEW e \in Events, CheckKeep(e) PROVE CountInv'
  BY <1>6 DEF CheckKeep, CountInv, CountersAddUp
<1>7. CASE Tick \/ StartCheck \/ EndCheck \/ UNCHANGED vars
  BY <1>7 DEF Tick, StartCheck, EndCheck, vars, CountInv, CountersAddUp
<1>8. CASE Publish
  BY <1>8 DEF Publish, CountInv, CountersAddUp
<1>9. CASE Suppress \/ PublishFails \/ Record \/ RecordFails
  <2>1. PICK c \in {"published", "suppressed", "errors"} :
          \A d \in {"published", "suppressed", "errors"} :
            stats'[d] = IF d = c THEN stats[d] + 1 ELSE stats[d]
    <3>1. CASE Suppress
      BY <3>1 DEF Suppress, Counted, Counters
    <3>2. CASE PublishFails \/ RecordFails
      BY <3>2 DEF PublishFails, RecordFails, Counted, Counters
    <3>3. CASE Record
      <4>1. \A d \in {"published", "suppressed", "errors"} :
              stats'[d] = IF d = "published" THEN stats[d] + 1 ELSE stats[d]
        BY <3>3 DEF Record, Counted, Counters
      <4> QED
        BY <4>1
    <3> QED
      BY <1>9, <3>1, <3>2, <3>3
  <2>2. pc \in {"fuse", "record"} /\ pc' \in {"ack", "check"} /\ processed' = processed
    BY <1>9 DEF Suppress, PublishFails, Record, RecordFails, TypeOK, Job
  <2>3. \A d \in {"published", "suppressed", "errors"} : stats[d] \in Nat
    BY DEF TypeOK, Counters
  <2> QED
    BY <2>1, <2>2, <2>3 DEF CountInv, CountersAddUp
<1>10. CASE Crash
  <2>1. processed' = {} /\ stats' = NoStats /\ pc' = "poll"
    BY <1>10 DEF Crash
  <2> QED
    BY <2>1, FS_EmptySet DEF CountInv, CountersAddUp, NoStats, Counters
<1> QED
  BY <1>1, <1>2, <1>3, <1>4, <1>5, <1>6, <1>7, <1>8, <1>9, <1>10 DEF Next, Handle, Check, Decide

\* Every finalized event is counted once as published, suppressed or an error.
THEOREM CountersAgree == Spec => []CountersAddUp
<1>1. Init => CountInv
  BY FS_EmptySet DEF Init, CountInv, CountersAddUp, NoStats, Counters
<1>2. CountInv => CountersAddUp
  BY DEF CountInv
<1> QED
  BY <1>1, <1>2, StepKeepsCount, TypeCorrect, InvariantHolds, PTL DEF Spec
-----------------------------------------------------------------------------
(* The engine implements the contract.                                     *)

USE DEF Contract!vars

\* Every step of the engine is a step of the contract, or changes nothing the
\* contract sees.
LEMMA StepImplements ==
  TypeOK /\ IInv /\ [Next]_vars => [Contract!Next]_(Contract!vars)
<1> SUFFICES ASSUME TypeOK, IInv, [Next]_vars
             PROVE  [Contract!Next]_(Contract!vars)
  OBVIOUS
<1> DEFINE undecided == IF pc = "fuse" THEN {job.event} ELSE {}
           delivered == [i \in DOMAIN published |-> published[i].event]
<1>1. ASSUME NEW r \in Results, Store(r) PROVE Contract!Gather(r.event)
  BY <1>1 DEF Store, NewResult, Deliverable, Contract!Gather
<1>2. ASSUME NEW r \in Results, StoreLast(r) PROVE Contract!Close(r.event)
  BY <1>2 DEF StoreLast, NewResult, Deliverable, Finalize, Contract!Close
<1>3. ASSUME NEW e \in Events, CheckFinalize(e) PROVE Contract!Close(e)
  <2>1. e \notin processed
    BY <1>3 DEF CheckFinalize, TypeOK, IInv, EntriesInv
  <2>2. PICK c : Finalize(e, pending[e], c, "check")
    BY <1>3 DEF CheckFinalize
  <2> QED
    BY <1>3, <2>1, <2>2 DEF CheckFinalize, Finalize, Contract!Close
<1>4. ASSUME Suppress \/ PublishFails PROVE Contract!Drop(job.event)
  <2>1. pc = "fuse" /\ pc' # "fuse"
    BY <1>4 DEF Suppress, PublishFails, TypeOK, Job
  <2> QED
    BY <1>4, <2>1 DEF Suppress, PublishFails, Contract!Drop
<1>5. ASSUME Publish, NEW e \in Events, e = job.event PROVE Contract!Deliver(e)
  <2> DEFINE new == [event |-> job.event, life |-> life, results |-> job.results,
                     recovery |-> job.recovery, fast |-> job.fast, waited |-> job.waited]
  <2>1. /\ pc = "fuse" /\ pc' = "record" /\ published' = Append(published, new)
        /\ UNCHANGED <<pending, processed>>
    BY <1>5 DEF Publish
  <2>2. new.event = job.event
    OBVIOUS
  <2>3. published \in Seq(Publication)
    BY DEF TypeOK
  <2>4. delivered' = Append(delivered, job.event)
    <3> HIDE DEF new
    <3>1. /\ DOMAIN published = 1..Len(published) /\ Len(published) \in Nat
          /\ DOMAIN published' = 1..(Len(published) + 1)
          /\ \A i \in 1..(Len(published) + 1) :
               published'[i] = IF i = Len(published) + 1 THEN new ELSE published[i]
      BY <2>1, <2>3
    <3>2. Len(delivered) = Len(published)
      BY <3>1
    <3>3. Append(delivered, job.event) =
            [i \in 1..(Len(published) + 1) |->
               IF i = Len(published) + 1 THEN job.event ELSE delivered[i]]
      BY <3>2
    <3> QED
      BY <2>2, <3>1, <3>3
  <2> QED
    BY <1>5, <2>1, <2>4 DEF Contract!Deliver
<1>6. ASSUME Crash PROVE Contract!Restart
  BY <1>6 DEF Crash, Contract!Restart
<1>7. ASSUME NEW r \in Results, Produce(r) \/ IgnoreLate(r) \/ IgnoreDuplicate(r) \/ Ack(r)
      PROVE UNCHANGED <<DOMAIN pending, processed, undecided, delivered>>
  BY <1>7 DEF Produce, IgnoreLate, IgnoreDuplicate, Ack, process
<1>8. ASSUME Tick \/ StartCheck \/ EndCheck \/ Record \/ RecordFails
      PROVE UNCHANGED <<DOMAIN pending, processed, undecided, delivered>>
  <2>1. pc = "record" => job.return # "fuse"
    BY DEF TypeOK, Job
  <2> QED
    BY <1>8, <2>1 DEF Tick, StartCheck, EndCheck, Record, RecordFails
<1>9. ASSUME NEW e \in Events, CheckKeep(e)
      PROVE UNCHANGED <<DOMAIN pending, processed, undecided, delivered>>
  BY <1>9 DEF CheckKeep
<1>10. CASE UNCHANGED vars
  BY <1>10 DEF vars
<1>11. ASSUME NEW r \in Results PROVE r.event \in Events
  BY ResultsHaveEvents
<1>12. pc = "fuse" => job.event \in Events
  BY DEF TypeOK, Job
<1>13. ASSUME Decide PROVE [Contract!Next]_(Contract!vars)
  <2>1. CASE Suppress \/ PublishFails
    <3>1. job.event \in Events
      BY <2>1, <1>12 DEF Suppress, PublishFails
    <3> QED
      BY <1>4, <2>1, <3>1 DEF Contract!Next
  <2>2. CASE Publish
    <3>1. job.event \in Events
      BY <2>2, <1>12 DEF Publish
    <3>2. PICK e \in Events : e = job.event
      BY <3>1
    <3> QED
      BY <1>5, <2>2, <3>2 DEF Contract!Next
  <2>3. CASE Record \/ RecordFails
    <3>1. UNCHANGED <<DOMAIN pending, processed, undecided, delivered>>
      BY <1>8, <2>3
    <3> QED
      BY <3>1
  <2> QED
    BY <1>13, <2>1, <2>2, <2>3 DEF Decide
<1>14. ASSUME NEW r \in Results, Handle(r) PROVE [Contract!Next]_(Contract!vars)
  BY <1>1, <1>2, <1>7, <1>11, <1>14 DEF Handle, Contract!Next
<1>15. ASSUME Check PROVE [Contract!Next]_(Contract!vars)
  BY <1>3, <1>8, <1>9, <1>15 DEF Check, Contract!Next
<1> QED
  BY <1>6, <1>7, <1>8, <1>10, <1>13, <1>14, <1>15 DEF Next, Contract!Next

\* Between two restarts an event is closed once and then decided once.
THEOREM EngineImplementsContract == Spec => ImplementsContract
<1>1. Init => Contract!Init
  BY DEF Init, Contract!Init
<1> QED
  BY <1>1, StepImplements, TypeCorrect, InvariantHolds, PTL
     DEF Spec, ImplementsContract, Contract!Spec
=============================================================================
