---------------------------- MODULE FusionEngine ----------------------------
(***************************************************************************)
(* The Fusion Engine process (layer1/fusion_engine/fusion_engine.py) and   *)
(* the durable queue fusion.results it consumes from.                      *)
(*                                                                         *)
(* One thread alternates between dispatching messages and checking the     *)
(* correlation deadlines; pc is its position.  pending, processed and the  *)
(* counters live in the memory of the process and die with it; the queue   *)
(* and what was published survive.  A message is acknowledged as soon as   *)
(* it is stored in memory, except the one that completes an event, which   *)
(* is acknowledged after the event was fused.                              *)
(***************************************************************************)
EXTENDS FusionDecision, Sequences

CONSTANTS
  Events,       \* event ids
  Expected,     \* EXPECTED_DETECTORS
  Results,      \* the detector results that can be put on fusion.results
  Window,       \* correlation_window_s, in ticks
  Recovery,     \* correlation_recovery_window_s, in ticks
  MaxLives,     \* bound: how often the process is started
  MayFail,      \* whether a publish or the append to the results file can fail
  None          \* no job is running

ASSUME WindowsAreTicks ==
  /\ Window \in Nat
  /\ Recovery \in Nat
  /\ MaxLives \in Nat
  /\ MayFail \in BOOLEAN

ASSUME SomeDetectorExpected == Expected # {}

ASSUME ResultsHaveEvents == \A r \in Results : r.event \in Events

VARIABLES
  inbox,        \* broker state of every result
  pending,      \* event id -> correlation entry
  processed,    \* processed_event_ids
  pc,           \* where the thread is
  todo,         \* the events a running deadline check has still to visit
  job,          \* the arguments and locals of _fuse_and_cleanup
  stats,        \* the Prometheus counters
  life,         \* which start of the process this is
  published     \* what reached the exchange: history, survives restarts

process == <<pending, processed, pc, todo, job, stats>>
vars == <<inbox, pending, processed, pc, todo, job, stats, life, published>>

\* Variant: the recovery period is skipped.
MutDeadline == Window

\* When an incomplete event is finalized, in ticks after its first result.
Deadline == Window + Recovery

Statuses == {"absent", "ready", "unacked", "acked"}
Models   == {r.model : r \in Results}

Entries == [results : SUBSET Results, age : 0..Deadline,
            fast : BOOLEAN, recovering : BOOLEAN]

Entry(results, age, fast, recovering) ==
  [results |-> results, age |-> age, fast |-> fast, recovering |-> recovering]

Job == [event : Events, results : SUBSET Results, fast : BOOLEAN,
        recovery : BOOLEAN, waited : 0..Deadline, return : {"ack", "check"}]

Publication == [event : Events, life : Nat, results : SUBSET Results,
                recovery : BOOLEAN, fast : BOOLEAN, waited : 0..Deadline]

Counters == {"published", "compound", "suppressed", "errors", "triggered",
             "fastpath", "late"}

NoStats == [c \in Counters |-> 0]

\* The counters after each of the named ones was incremented.
Counted(names) == [c \in Counters |-> IF c \in names THEN stats[c] + 1 ELSE stats[c]]

\* detectors_seen: the models heard from.
Seen(results) == {r.model : r \in results}

Complete(results) == Expected \subseteq Seen(results)

Init ==
  /\ inbox = [r \in Results |-> "absent"]
  /\ pending = [e \in {} |-> {}]
  /\ processed = {}
  /\ pc = "poll"
  /\ todo = {}
  /\ job = None
  /\ stats = NoStats
  /\ life = 1
  /\ published = <<>>

-----------------------------------------------------------------------------
(* The environment: a detector publishes, time passes.                     *)

\* r.copy numbers the deliveries of one event to one detector; each yields one
\* result.
Produce(r) ==
  /\ \A s \in Results :
       <<s.event, s.model, s.copy>> = <<r.event, r.model, r.copy>> => inbox[s] = "absent"
  /\ inbox' = [inbox EXCEPT ![r] = "ready"]
  /\ UNCHANGED <<pending, processed, pc, todo, job, stats, life, published>>

Older(age) == IF age < Deadline THEN age + 1 ELSE age

\* time.monotonic advances.  An entry older than the last deadline does not
\* get older: no comparison tells the difference.  The thread reads the clock
\* once per check, so a tick during a check is one after it.
Tick ==
  /\ pc = "poll"
  /\ \E e \in DOMAIN pending : pending[e].age < Deadline
  /\ pending' = [e \in DOMAIN pending |->
                   Entry(pending[e].results, Older(pending[e].age),
                         pending[e].fast, pending[e].recovering)]
  /\ UNCHANGED <<inbox, processed, pc, todo, job, stats, life, published>>

-----------------------------------------------------------------------------
(* _handle_message                                                         *)

Deliverable(r) == pc = "poll" /\ inbox[r] = "ready"

\* The event is finalized: acknowledge and forget the late result.
IgnoreLate(r) ==
  /\ Deliverable(r)
  /\ r.event \in processed
  /\ inbox' = [inbox EXCEPT ![r] = "acked"]
  /\ UNCHANGED <<process, life, published>>

\* A second result of a detector that already answered for this event.
IgnoreDuplicate(r) ==
  /\ Deliverable(r)
  /\ r.event \notin processed
  /\ r.event \in DOMAIN pending
  /\ r.model \in Seen(pending[r.event].results)
  /\ inbox' = [inbox EXCEPT ![r] = "acked"]
  /\ UNCHANGED <<process, life, published>>

NewEntry == Entry({}, 0, FALSE, FALSE)

\* The correlation entry of r's event once r is stored in it.
Stored(r) ==
  LET old == IF r.event \in DOMAIN pending THEN pending[r.event] ELSE NewEntry IN
  Entry(old.results \union {r}, old.age, old.fast \/ IsFastPath(r), old.recovering)

\* Variant: late results are not recognized.
MutNewResultLate(r) ==
  /\ Deliverable(r)
  /\ r.event \in DOMAIN pending => r.model \notin Seen(pending[r.event].results)

\* Variant: detectors_seen is not consulted.
MutNewResultTwice(r) == Deliverable(r) /\ r.event \notin processed

\* The result is neither late nor a duplicate.
NewResult(r) ==
  /\ Deliverable(r)
  /\ r.event \notin processed
  /\ r.event \in DOMAIN pending => r.model \notin Seen(pending[r.event].results)

\* fast_path_triggered goes from False to True at most once per event.
Triggers(r) ==
  /\ Stored(r).fast
  /\ r.event \in DOMAIN pending => ~pending[r.event].fast

CountTrigger(r) == Counted(IF Triggers(r) THEN {"triggered"} ELSE {})

\* Variant: what arrives in the recovery period is acknowledged and dropped.
MutStore(r) ==
  /\ NewResult(r)
  /\ ~Complete(Stored(r).results)
  /\ pending' = [e \in DOMAIN pending \union {r.event} |->
                   IF e \notin DOMAIN pending THEN Stored(r)
                   ELSE IF e = r.event /\ ~pending[e].recovering THEN Stored(r)
                   ELSE pending[e]]
  /\ stats' = CountTrigger(r)
  /\ inbox' = [inbox EXCEPT ![r] = "acked"]
  /\ UNCHANGED <<processed, pc, todo, job, life, published>>

\* Other detectors are still awaited: store the result, acknowledge it.
Store(r) ==
  /\ NewResult(r)
  /\ ~Complete(Stored(r).results)
  /\ pending' = [e \in DOMAIN pending \union {r.event} |->
                   IF e = r.event THEN Stored(r) ELSE pending[e]]
  /\ stats' = CountTrigger(r)
  /\ inbox' = [inbox EXCEPT ![r] = "acked"]
  /\ UNCHANGED <<processed, pc, todo, job, life, published>>

\* Variant: the event is not remembered as processed.
MutFinalize(e, entry, recovery, return) ==
  /\ pending' = [x \in DOMAIN pending \ {e} |-> pending[x]]
  /\ processed' = processed
  /\ job' = [event |-> e, results |-> entry.results, fast |-> entry.fast,
             recovery |-> recovery, waited |-> entry.age, return |-> return]
  /\ pc' = "fuse"

\* The head of _fuse_and_cleanup: pop the entry, mark the event processed.
Finalize(e, entry, recovery, return) ==
  /\ pending' = [x \in DOMAIN pending \ {e} |-> pending[x]]
  /\ processed' = processed \union {e}
  /\ job' = [event |-> e, results |-> entry.results, fast |-> entry.fast,
             recovery |-> recovery, waited |-> entry.age, return |-> return]
  /\ pc' = "fuse"

\* The last expected detector answered: fuse before acknowledging.
StoreLast(r) ==
  /\ NewResult(r)
  /\ Complete(Stored(r).results)
  /\ Finalize(r.event, Stored(r), FALSE, "ack")
  /\ stats' = CountTrigger(r)
  /\ inbox' = [inbox EXCEPT ![r] = "unacked"]
  /\ UNCHANGED <<todo, life, published>>

Ack(r) ==
  /\ pc = "ack"
  /\ inbox[r] = "unacked"
  /\ inbox' = [inbox EXCEPT ![r] = "acked"]
  /\ pc' = "poll"
  /\ UNCHANGED <<pending, processed, todo, job, stats, life, published>>

-----------------------------------------------------------------------------
(* _check_expired_events                                                   *)

StartCheck ==
  /\ pc = "poll"
  /\ DOMAIN pending # {}
  /\ pc' = "check"
  /\ todo' = DOMAIN pending
  /\ UNCHANGED <<inbox, pending, processed, job, stats, life, published>>

\* Variant: nothing ever switches an entry to recovery.
MutRecovering(entry) == entry.recovering

\* recovery_active as the check leaves it for this entry.
Recovering(entry) == entry.recovering \/ entry.age >= Window

\* The entry became complete without being fused.  StoreLast fuses at once, so
\* no entry ever is: theorem NoCompleteEntryWaits.
WindowEndsComplete(entry) ==
  entry.age >= Window /\ ~entry.recovering /\ Complete(entry.results)

RecoveryOver(entry) == Recovering(entry) /\ entry.age >= Deadline

\* Variant: the check walks the live dictionary and visits an entry again.
MutCheckFinalize(e) ==
  LET complete == WindowEndsComplete(pending[e]) IN
  /\ pc = "check"
  /\ e \in todo
  /\ complete \/ RecoveryOver(pending[e])
  /\ Finalize(e, pending[e], ~complete, "check")
  /\ stats' = Counted(IF complete THEN {} ELSE {"late"})
  /\ UNCHANGED <<inbox, todo, life, published>>

\* The entry stays: its window or its recovery period is still running.
CheckKeep(e) ==
  /\ pc = "check"
  /\ e \in todo
  /\ ~WindowEndsComplete(pending[e])
  /\ ~RecoveryOver(pending[e])
  /\ pending' = [pending EXCEPT ![e] = Entry(@.results, @.age, @.fast, Recovering(@))]
  /\ todo' = todo \ {e}
  /\ UNCHANGED <<inbox, processed, pc, job, stats, life, published>>

\* The recovery period is over: fuse what arrived.
CheckFinalize(e) ==
  LET complete == WindowEndsComplete(pending[e]) IN
  /\ pc = "check"
  /\ e \in todo
  /\ complete \/ RecoveryOver(pending[e])
  /\ Finalize(e, pending[e], ~complete, "check")
  /\ todo' = todo \ {e}
  /\ stats' = Counted(IF complete THEN {} ELSE {"late"})
  /\ UNCHANGED <<inbox, life, published>>

EndCheck ==
  /\ pc = "check"
  /\ todo = {}
  /\ pc' = "poll"
  /\ UNCHANGED <<inbox, pending, processed, todo, job, stats, life, published>>

-----------------------------------------------------------------------------
(* The rest of _fuse_and_cleanup: _fuse, _publish, the counters.           *)

\* Variant: a suppressed event is not counted.
MutSuppress ==
  /\ pc = "fuse"
  /\ Suppressed(job.results)
  /\ pc' = job.return
  /\ UNCHANGED <<inbox, pending, processed, todo, job, stats, life, published>>

Suppress ==
  /\ pc = "fuse"
  /\ Suppressed(job.results)
  /\ stats' = Counted({"suppressed"})
  /\ pc' = job.return
  /\ UNCHANGED <<inbox, pending, processed, todo, job, life, published>>

\* The fused event carries FusedEvent(job.results) besides these fields.
Publish ==
  /\ pc = "fuse"
  /\ ~Suppressed(job.results)
  /\ published' = Append(published,
                    [event |-> job.event, life |-> life, results |-> job.results,
                     recovery |-> job.recovery, fast |-> job.fast,
                     waited |-> job.waited])
  /\ pc' = "record"
  /\ UNCHANGED <<inbox, pending, processed, todo, job, stats, life>>

\* basic_publish raises; the exception is counted and swallowed.
PublishFails ==
  /\ MayFail
  /\ pc = "fuse"
  /\ ~Suppressed(job.results)
  /\ stats' = Counted({"errors"})
  /\ pc' = job.return
  /\ UNCHANGED <<inbox, pending, processed, todo, job, life, published>>

\* The copy in fusion_results.jsonl is written, then the counters.
Record ==
  /\ pc = "record"
  /\ stats' = Counted({"published"}
                \union (IF FusionType(Anomalies(job.results)) = "compound" THEN {"compound"} ELSE {})
                \union (IF job.fast THEN {"fastpath"} ELSE {}))
  /\ pc' = job.return
  /\ UNCHANGED <<inbox, pending, processed, todo, job, life, published>>

\* The append raises after the publish: counted as an error, not as published.
RecordFails ==
  /\ MayFail
  /\ pc = "record"
  /\ stats' = Counted({"errors"})
  /\ pc' = job.return
  /\ UNCHANGED <<inbox, pending, processed, todo, job, life, published>>

-----------------------------------------------------------------------------
\* The process dies anywhere and is started again: memory is empty, and the
\* broker makes the unacknowledged message deliverable again.
Crash ==
  /\ life < MaxLives
  /\ life' = life + 1
  /\ inbox' = [r \in Results |-> IF inbox[r] = "unacked" THEN "ready" ELSE inbox[r]]
  /\ pending' = [e \in {} |-> {}]
  /\ processed' = {}
  /\ pc' = "poll"
  /\ todo' = {}
  /\ job' = None
  /\ stats' = NoStats
  /\ UNCHANGED published

Handle(r) == IgnoreLate(r) \/ IgnoreDuplicate(r) \/ Store(r) \/ StoreLast(r) \/ Ack(r)

Check == StartCheck \/ EndCheck
         \/ \E e \in Events : CheckKeep(e) \/ CheckFinalize(e)

Decide == Suppress \/ Publish \/ PublishFails \/ Record \/ RecordFails

Next ==
  \/ \E r \in Results : Produce(r) \/ Handle(r)
  \/ Tick
  \/ Check
  \/ Decide
  \/ Crash

Spec == Init /\ [][Next]_vars

(***************************************************************************)
(* Fairness.  run() loops forever over process_data_events and             *)
(* _check_expired_events, so the thread always takes its next step and a   *)
(* check always comes; time passes whatever the thread does.  Detectors    *)
(* and crashes are not obliged to happen, and some ready message is        *)
(* handled if the loop keeps returning to the broker (strong fairness).    *)
(***************************************************************************)
Fairness ==
  /\ WF_vars(Check)
  /\ WF_vars(Decide)
  /\ SF_vars(Tick)
  /\ SF_vars(\E r \in Results : Handle(r))

FairSpec == Spec /\ Fairness
-----------------------------------------------------------------------------
(* Properties                                                              *)

\* Every variable keeps its type, and a deadline check only visits entries
\* that are still pending (the code iterates over a copy of the dictionary).
TypeOK ==
  /\ inbox \in [Results -> Statuses]
  /\ DOMAIN pending \subseteq Events
  /\ \A e \in DOMAIN pending : pending[e] \in Entries
  /\ processed \subseteq Events
  /\ pc \in {"poll", "check", "fuse", "record", "ack"}
  /\ todo \subseteq DOMAIN pending
  /\ todo # {} => pc = "check" \/ (pc \in {"fuse", "record"} /\ job.return = "check")
  /\ pc \in {"fuse", "record", "ack"} => job \in Job
  /\ stats \in [Counters -> Nat]
  /\ life \in Nat
  /\ published \in Seq(Publication)

Fusions(e) == {i \in DOMAIN published : published[i].event = e}

\* While one process lives, an event reaches anomaly.detected at most once,
\* however late, duplicated or interleaved the detector results are
\* (processed_event_ids and the pop in _fuse_and_cleanup).
FusedOncePerLife ==
  \A i, j \in DOMAIN published :
    published[i].event = published[j].event /\ published[i].life = published[j].life
      => i = j

\* No detector is counted twice in a fused event, so "compound" means that two
\* different models saw an anomaly (detectors_seen).
OneVoicePerDetector ==
  \A i \in DOMAIN published : \A r, s \in published[i].results :
    r.model = s.model => r = s

\* What a fused event says of itself is true: it is a recovery if and only if
\* an expected detector is missing, then after the whole window and recovery
\* period, and it has the fast path note if and only if one of the results it
\* was fused from triggers it, whichever order they came in
\* (correlation_recovery, missing_detectors, fast_path_triggered).
NotesAreHonest ==
  \A i \in DOMAIN published :
    /\ published[i].recovery <=> ~Complete(published[i].results)
    /\ published[i].recovery => published[i].waited = Window + Recovery
    /\ published[i].fast <=> \E r \in published[i].results : IsFastPath(r)

\* Every finalized event is counted exactly once as published, suppressed or
\* an error, up to the one being decided.
CountersAddUp ==
  stats["published"] + stats["suppressed"] + stats["errors"]
    + (IF pc \in {"fuse", "record"} THEN 1 ELSE 0) = Cardinality(processed)

\* A result was acknowledged: its event is finalized, or an entry has the
\* detector's answer.
AcknowledgedIsStored ==
  \A r \in Results : inbox[r] = "acked" =>
    \/ r.event \in processed
    \/ r.event \in DOMAIN pending /\ r.model \in Seen(pending[r.event].results)

\* As long as the process has not been restarted, the broker is never told to
\* forget a result that the process does not hold ("ACK after safely storing
\* the result in pending").
AckedIsAccountedFor == life = 1 => AcknowledgedIsStored

\* A finalized event is never correlated again by the same process.
NeverReopened ==
  [][life' = life => \A e \in processed : e \in processed' /\ e \notin DOMAIN pending']_vars

\* Every event that starts to correlate is finalized by the process, if it
\* does not die first: no entry waits forever for detectors that stay silent.
EventuallyFinalized ==
  \A e \in Events : \A l \in 1..MaxLives :
    (e \in DOMAIN pending /\ life = l) ~> (e \in processed \/ life # l)

-----------------------------------------------------------------------------
(* The inductive invariant behind the properties above.  The results held  *)
(* for an event are one per model and agree with the fast path flag; an    *)
(* entry that waits is incomplete; the event being decided is finalized    *)
(* and, until it is published, was not published by this process.          *)

Faithful(x) ==
  /\ \A r, s \in x.results : r.model = s.model => r = s
  /\ x.fast <=> \E r \in x.results : IsFastPath(r)

RecoveryRule(x) ==
  /\ x.recovery <=> ~Complete(x.results)
  /\ x.recovery => x.waited = Deadline

NoCompleteEntryWaits ==
  \A e \in DOMAIN pending : ~Complete(pending[e].results)

EntriesInv ==
  \A e \in DOMAIN pending : e \notin processed /\ Faithful(pending[e])

JobInv ==
  pc \in {"fuse", "record"} =>
    job.event \in processed /\ Faithful(job) /\ RecoveryRule(job)

PublishedInv ==
  \A i \in DOMAIN published : Faithful(published[i]) /\ RecoveryRule(published[i])

OnceInv ==
  /\ FusedOncePerLife
  /\ \A i \in DOMAIN published :
       /\ published[i].life <= life
       /\ published[i].life = life =>
            /\ published[i].event \in processed
            /\ pc = "fuse" => published[i].event # job.event

IInv == NoCompleteEntryWaits /\ EntriesInv /\ JobInv /\ PublishedInv /\ OnceInv

\* The engine implements the contract of module CorrelationContract: whatever
\* the queue, the clock and the failures do, an event is closed once and
\* decided once between two restarts.
Contract == INSTANCE CorrelationContract WITH
  gathering <- DOMAIN pending,
  closed    <- processed,
  undecided <- IF pc = "fuse" THEN {job.event} ELSE {},
  delivered <- [i \in DOMAIN published |-> published[i].event]

ImplementsContract == Contract!Spec
=============================================================================
