# A verification project for the fyp-pipeline

TLA+ modules of the self-healing IoT pipeline in `src/`: Layer 1 finds
anomalies in events, Layer 2 asks a language model what to do about them,
Layer 3 does it or asks an operator, and what came of it moves the threshold
that Layer 2 routes by. The layers are processes around RabbitMQ queues. Every
process handles one message at a time, so what is hard is not in a handler but
between handlers: a death between two steps, a redelivery, a publish that
fails, two requests over one row, a file read while it is written.

* [1 Inventory](#1-inventory)
* [2 Modules and code](#2-modules-and-code)
* [3 Runs](#3-runs)
* [4 Proofs](#4-proofs)
* [5 Disagreements](#5-disagreements)
* [6 What is left out](#6-what-is-left-out)
* [7 Plan](#7-plan)

## 1 Inventory

How the parts are connected (queue names over the arrows are those of
`layer1/rabbitmq/setup_topology.py`):

    SEG --raw.events--> Validator --validated.event--> ADM Runner + Feature Store
                            |                               |
          malformed events  |                               | detection.fanout
                            |                               v
                            |                         five detectors
                            |                               | fusion.results
                            v                               v
                    anomaly.detected <------------- Fusion Engine
                            |
      Triage --triage.result--> Strategy --strategy.result--> Policy
                                                                |
               auto.execute --> Executor <----------------------+
               hitl.queue ----> consume_hitl --> dashboard <----+
                                   |
      Executor, dashboard --outcome.feedback--> Learning Agent
      Learning Agent --threshold_config.json--> Policy
      Learning Agent --ChromaDB--> Triage

| Component | State it keeps | Operations | What makes it correct |
|---|---|---|---|
| Synthetic Event Generator (`seg/`) | the corpus file, how far it was replayed | replay, replay again | an event of a node and component always carries the same metrics; a replay repeats ids |
| Validator, Schema Drift Router (`validator/`) | `_seen_ids`, in memory | parse, flag duplicates, forward or bypass, ack | each message is passed on; the flag tells the truth |
| ADM Runner, Feature Store, Baseline Calibrator (`adm/`, `feature_store/`) | a calibrator and a rolling window per component, a baseline file per component | calibrate, freeze, save, withhold, fan out, requeue | an event is scored against exactly the calibration of its component, with the run of events before it, in order, across restarts |
| Feature Computer (`feature_computers.py`) | none | z-scores, moving averages, silence, authentication rate, shift score | what a detector reads means what its threshold takes it to mean, also in a short window |
| Five detectors (`adm/detectors/`) | trained models, result files | detect, publish, write a line, ack | each event is answered by each detector; a severe verdict survives the fusion |
| Fusion Engine (`fusion_engine/`) | `pending`, `processed_event_ids`, counters, in memory | correlate, fast path, window, recovery, fuse, publish, ack | one fused event, honest about how it came about, none waiting for ever |
| Triage, Strategy, Policy Agents (`layer2/agents/`) | log files | enrich, ask the model, validate, route | no incident is lost; only what was rated mild runs by itself |
| ChromaDB retrieval (`chromadb_utils/`) | the collections | query in three steps, upsert | relevant, balanced, no repetition |
| Learning Agent | `threshold_config.json`, ChromaDB | upsert, move the average, ack | the threshold that routes is earned by outcomes; the knowledge is the latest |
| Executor (`auto_executor/`) | none (rows in decisions.db) | execute, write, report, ack | what is reported was done and recorded |
| HITL dashboard, `consume_hitl` (`dashboard/`) | table HitlIncident, rows in decisions.db | store, approve, reject, modify | what an incident shows was decided and reported |
| RabbitMQ topology | durable queues, `dead.letters` | declare, bind | modelled where it is used |
| Prometheus, Grafana, Ollama client, connection helpers, training, benchmarks, evaluation | | | not modelled, see section 6 |

The behaviours that are hard: acknowledgements that come before something is
durable (Fusion Engine) or after something is published (everybody else, so a
death repeats it); memory that a restart forgets; publishes whose exceptions are
swallowed, requeue, dead-letter or kill the process, each in its place; two
web requests, or a request and the consumer, over one row; files truncated
before they are written; confidences that are weighted, averaged and compared; statistics of
windows that a restart empties while the baselines are restored.
`PROJECT.json` lists each at its line, with the property that would catch it.

## 2 Modules and code

One action is one step between which another process can act or this one can
die: what runs between two effects that others see (a publish, an ack, a write)
is one action. Queues are sequences; an unacknowledged message stays the head of
its queue until its ack, which is what RabbitMQ's redelivery to the only
consumer amounts to: every callback runs alone, prefetch is 1 but for the Validator and
the Fusion Engine, and what was prefetched comes again in its place. In the Fusion Engine,
where five producers share a queue, results are taken in any order. A failed ack means the
connection is gone, which is a death. Every model bounds the number of deaths
and faults, and nothing else of the behaviour.

`map` in `PROJECT.json` names the lines behind every definition. A definition
called `Mut...` is a variant of the one below it as a plausible bug would make it;
no specification uses them, they show that a property can fail.

**Fusion Engine** - `FusionDecision` is `_fuse` and `_is_fast_path` as operators
over sets of results, with confidences in ten-thousandths. `FusionEngine` is the
thread around it. `pending`, `processed` and `stats` are the attributes and
counters of the same names, `pc`, `todo` and `job` are where the thread is, the
list copy of the deadline check and the arguments of `_fuse_and_cleanup`,
`inbox` is what the broker knows of each result, `published` and `life` are
history. `Handle` is `_handle_message` (late, duplicate, stored, completing),
`Check` is `_check_expired_events` (one entry at a time, between which entries
are removed), `Decide` is `_fuse_and_cleanup` after the entry was popped: suppress,
publish, fail, count. `Tick` advances monotonic time for every entry that waits;
an entry's age is capped where nothing distinguishes it any more.
`CorrelationContract` is what the engine promises, without queue, clock or
failure: events gather, close once, and are delivered at most once between two
restarts. `FusionEngineProofs` holds the theorems, `MCFusion` the instances.

**Validator and intake** - `Validator` is `ValidatorConsumer.on_message`: check and
remember (`Remember`), forward (`Forward`) or bypass (`Bypass`), acknowledge (`Ack`),
garbage (`RejectGarbage`). A publish that raises ends the process, so it is
`Crash`. So does a message that raises where nothing catches it (`Raise`): JSON that is no object
has no `get`, an `event_id` may have no hash, and bytes that are no UTF-8 are not a
`JSONDecodeError`. It stays the head of its queue. `EventTemplates` is what an event of each kind carries, from the tables of the
generator. `Intake` puts the replay of a corpus before the Validator and the ADM Runner
behind it: `validated.event` is the Validator's history of publications and the runner's
stream, and the three processes die on their own. `MCIntake` is the instance,
`ValidatorProofs` holds the theorems on the Validator and on the composition.

**Feature Store** - `FeatureStore` follows one event of `validated.event` through
`FeatureStore.process` and `ADMRunner.on_message`: `Update` is the calibrator's update,
`OpenFile` and `WriteFile` are the two halves of a save that can fail in either,
`Push` is the append to the rolling window, then `Withhold`, `FanOut`, `FanOutFails`, `Ack`.
A baseline is the set of the events it was computed from and a window the sequence of
those it holds, which is what the properties of this module tell apart.
`FeatureComputer` is what is computed from them, over integers: an average in
hundredths, a z-score as the thresholds it passes (squares compared with squares, so
exactly), the shift score as whether it is 0. `Scoring` joins the two with the
detectors: the window of the event that was fanned out, the samples that the detectors
take from its features, their verdicts. `MCScoring` is the instance, with events out of
`EventTemplates`; `FeatureStoreProofs` holds the theorems of `FeatureStore`, and those on
the features and on what the detectors make of them.

**Detectors** - `Detectors` is `detect` of each of the five classes on a sample of the
features it reads, including the votes of the trained models, up to the fields the
engine reads. `DetectorPool` is the process around each of them. `MCDetector` has
samples on both sides of every threshold of the code, and the configured weights;
`DetectorPoolProofs` holds the theorems on the verdicts and on what `_fuse` makes of them.

**Agents** - `Routing` is what depends on one message only: `schema_validator`, the
flags of the strategy result, `load_threshold` and `route`. An answer of the language
model is a shape and the fields the code looks at. `AgentChain` is the three handlers
between their queues and the dead letters, with the log line, the publish and the ack
as steps of their own. The line is that of the Policy Agent, which the routing is
evaluated from, and its write may fail (`Log`): `append_log` swallows that. `MCChain` has one answer per class of behaviour, `AgentChainProofs`
the theorems; `DataFacts` are the lemmas on queues, ranges, counting and induction
that the proof modules share.

**Retrieval** - `retrieve_rag_context` as three steps over a collection in order of
similarity, with `upsert_incident` as a concurrent action between them. Its tiers are LOW, HIGH and
one that is neither, since `learning_agent.py:195` stores what the language model says. Its theorems
are in `AgentChainProofs`, whose Triage Agent calls it.

**Layer 3 and learning** - `AutoExecutor`, `HitlDashboard` (a request is a record with
the copy of the incident it read and the place it has reached) and `LearningAgent`
share the table of decisions and `outcome.feedback`, kept as the sequence of
everything ever written. `ResponseLoop` composes them with the routing by the learned
threshold, each by `INSTANCE` on the shared variables. `MCDashboard` and `MCResponse`
are the instances, `HitlDashboardProofs` and `ResponseLoopProofs` hold the theorems.

## 3 Runs

Every run stops where a bound says so, so deadlock is not checked anywhere: a system
that has handled all it was given waits for messages. What must happen is stated as
liveness instead.

| Run | Instance | Question |
|---|---|---|
| `FusionOneEvent` | 1 event, two expected detectors and one unknown, 7 possible results, window 1 + recovery 1 ticks, 2 lives | is what is published single, honest, and in time? |
| `FusionTwoEvents` | 2 events, 5 results, 2 lives | do counters and finalization agree; is the contract implemented? |
| `Chain` | 2 incidents, 6 answers, threshold file broken or extreme, 1 log line that cannot be written, 1 death, failures anywhere | is an incident lost, multiplied, or run by itself without cause? |
| `ChainTier` | 1 incident, every answer | see section 5 |
| `Dashboard` | 1 incident routed twice, 2 concurrent requests, 3 in all, 1 death, failures anywhere | do incident, rows and outcomes agree? |
| `DashboardRerun` | 1 operator, 1 death | see section 5 |
| `Loop` | 1 incident with three answers, 1 request, 1 death, failures anywhere | do actions, rows, outcomes, knowledge and threshold agree? |
| `Intake` | corpora of 2 events replayed twice, a stray message without JSON and one that ends the Validator, 1 death of the Validator, 1 fault of the runner, a failing disk | does everything come through, and what does the duplicate flag say? |
| `Detection` | 1 event, 5 processes, 1 fault, a sample on each side of every threshold, four pairs of anomalies | is it answered; what becomes of a severe verdict? |
| `Context` | every collection of up to 6 incidents of three tiers, 1 upsert between the queries and any number before | what is retrieved? |
| `Features` | streams of 4 events of 2 components on 2 nodes with 2 faults; streams of up to 32 events without | which baseline and which window is an event scored with, and what do short, mixed or late windows make the detectors say? |
| `Shift` | the same | see section 5 |

What the passing runs show, by property:

* *Fusion*. `FusedOncePerLife`: whatever is late, repeated or recovered, one life of the
  engine publishes an event once. `OneVoicePerDetector`: a repeated answer does not
  count twice. `NotesAreHonest`: the marks of a publication (recovered,
  fast) match the results it holds, although they were set by different steps.
  `AckedIsAccountedFor`: as long as the process lives, an acknowledged result is in an
  entry or its event finalized. It is restricted to the first life because the engine acknowledges
  results that are in memory only: a crash loses the results of a waiting event, and
  the run finds that at once without the restriction. `CountersAddUp`: published, suppressed and failed account for every
  finalized event. `NeverReopened`, `EventuallyFinalized`, `ImplementsContract`.
* *Chain*. `NothingLost`, `CrashesExplainCopies`: an incident is somewhere, and there are
  at most as many copies as deaths. `LogsExplained`: the log that the routing is evaluated from
  lacks the line of a routed incident only if a write failed, and has too many only after a death
  or a dead letter. `AutoIsConfident`, `ValidAutoIsMild`: two rules in two
  files together keep severe incidents away from automatic execution, if the answer is
  valid. `EventuallySettled`. `NothingLost` counts a dead letter as a place: an answer without JSON
  does end there, because `route` reads the missing object before its first rule.
* *Dashboard*. `DecisionOnRecord`, `AnsweredIsLearned`, `OutcomeHasRow`: what an incident shows
  has its row and was reported, and nothing is reported without a row, in every race.
* *Loop*. `RepeatsAreCrashes`, `FeedbackHasRow`, `KnownWasDecided`: through three processes,
  the knowledge base says only what was decided. `KnownIsLatest`: and says the latest of it.
  `UpdatesAreDecisions`: the threshold moves at most once per decision and death. `AppliedIsEarned`:
  what the Policy Agent applies lies between 0.65 and the signals of the outcomes taken so far, so
  nothing is executed on a threshold that no outcome asked for, also while the file is empty or torn.
  `AutoIsLearned`: what was executed automatically is fed back and learned.
* *Intake*. `EveryMessagePassedOn`: what has left `raw.events` is where its body demands.
  `FlagTellsTruth`: between two deaths one event of an id at most goes on unflagged, and a
  flagged one was preceded by another message of its id, never by its own redelivery.
  (Nobody reads the flag: `dedup_flag` occurs in the Validator only.) `EventuallyThrough`: every
  message put on `raw.events` before one that ends the Validator is calibrated with, scored, reported
  or dead-lettered in the end. It and what is behind it are exempt: they never come through.
* *Features*. `BaselineIsExact`, `BaselineSurvives`: an event is scored against exactly
  `CalibrationN` events of its component, and a complete file is used from then on and never
  damaged. `WindowIsExplained`, `OrderKept`: a window is the gapless run of the events of its
  node and component since the start, withheld ones among them, repeats one only after a refused publish, and the
  detectors get each event with the run that ends with it. `ShortWindowIsRaw`: a window of
  less than 5 events passes no z threshold of a detector, and no deviation is HIGH before the
  10th (errors: the 17th) or CRITICAL before the 26th event, so after a restart the raw thresholds
  decide. `FloodIsOfTheMinute`, `DropHasCause`: an alarm has its cause in readings of the last
  minute, or the last twenty, and a late scoring causes none (the confidence and the severity of a
  throughput alarm do depend on the lag, `throughput_drop.py:174`, and no property says otherwise). `NoFictitiousZero`: the
  zero that stands for a missing metric never meets a real reading of the same metric.
* *Detection*. `EventuallyAnswered`; `SevereIsPublished`: whichever answers are in, no CRITICAL
  verdict falls below the minimum to publish, nor a HIGH one unless the forest of the auth
  detector contradicts its gate. The answers are those given so far,
  so every subset of the five occurs.
* *Context*. `NoIncidentTwice`: only an incident that is itself stored between the queries can be
  returned twice, whatever else is stored then. `BalancedIfRoom`: if less than three hits were found,
  a context of one tier means that there is no positive incident of the tier the code looks for
  against it: HIGH for LOW, LOW for anything else. With three hits there never is a contrast (section 5).

**Bounds.** `MaxLives`, `MaxCrashes`, `MaxFaults` bound failures: the code keeps
no memory of how often it failed, so two failures (one to leave a trace, one over the
trace) reach what more would; where one is used, the redelivered message meets what
the first attempt left. `MaxUnwritten` bounds the log lines that fail, `MaxStrays` the messages of
others on `raw.events` (two: one of each kind), `MaxUpserts` those between the two queries: one
can change what the second finds in every way. Windows are one tick because only before, at and after the deadline differ.
Two events or components show interference; two detectors and an unknown one give
every completeness an entry can have. Results are in the instance once per verdict that the
decision distinguishes. Six incidents are three retrieved, one contrast, and two more
than the cut leaves room for. Windows of 3 to 32 events are on both sides of
every length at which the largest possible z-score of a window (the root of its length less 1) passes a threshold
(5, 10, 17, 26) and of the 20 and the 30 events computed with; the deque of 1000 is cut to 31, just
over what is used. In `Intake` windows hold 2 of 3. In `Loop` one rejection is enough to bring the
threshold below the confidence of the mild answer, so that what was left to operators is
executed from then on.

**Fairness.** Every process loops on a blocking consumer, so each process has weak
fairness of its steps (`WF` of `Triage`,
`Work`, `Engine`, `Learn`...). The environment has none: nothing has to be offered, no
operator has to answer, nothing has to fail, and failures end with their bound. That a process which died is
started again is an assumption: the repository has no unit files yet (`layer1/User_Guide.md:370`), its guides have the
operator do it. Liveness says nothing of a process that stays down. The Fusion Engine's
loop alternates between the broker (`process_data_events`) and the deadline check, so
the steps of a check and of a decision are weakly fair; time passes and some ready
message is handled if the loop comes back to them again and again, which is strong
fairness because either is disabled while the thread is inside a check.

**Violation runs.** Each checks one property that a document or comment states and that the
code does not keep; TLC's trace is the evidence.

## 4 Proofs

Seven modules hold theorems and one, `DataFacts`, the lemmas they share; each theorem is
about a specification of the modules it extends (`HitlDashboard`'s is `DashboardSpec`,
`Retrieval`'s `RetrievalSpec`, `Intake`'s `IntakeSpec`), for every value of their constants.
Every invariant that a passing run checks is proved.

| Module | Theorem | Says |
|---|---|---|
| `FusionEngineProofs` | `TypeCorrect` | the state keeps its types, and a finished check leaves no work behind |
| | `OncePerLife` | `FusedOncePerLife` |
| | `OneVoice` | `OneVoicePerDetector` |
| | `NotesHonest` | `NotesAreHonest` |
| | `NoCompleteEntry` | no entry waits that all expected detectors have answered |
| | `StaysFinalized` | `NeverReopened` |
| | `AckedIsHeld` | `AckedIsAccountedFor` |
| | `CountersAgree` | `CountersAddUp` |
| | `EngineImplementsContract` | the engine refines `CorrelationContract` |
| `DetectorPoolProofs` | `SevereArePublished` | `SevereIsPublished` |
| | `FusedEventIsSound` | what `_fuse` publishes has the greatest weighted confidence, a probability, and the gravest severity of its anomalies |
| `AgentChainProofs` | `TypeCorrect` | the state keeps its types |
| | `AutoConfident`, `ValidAutoMild` | `AutoIsConfident`, `ValidAutoIsMild` |
| | `LogsHonest` | `LogsExplained` |
| | `CopiesExplained` | `CrashesExplainCopies` |
| | `NothingIsLost` | `NothingLost` |
| | `IncidentsAreDistinct` | `NoIncidentTwice` |
| | `ContextIsBalanced` | `BalancedIfRoom` |
| `ValidatorProofs` | `NothingIsLost` | `EveryMessagePassedOn` |
| | `FlagIsTrue` | `FlagTellsTruth` |
| | `IntakeIsValidator`, `IntakeIsFeatureStore` | the composed intake implements the specifications of the Validator and of the Feature Store |
| | `IntakeIsSafe` | `EveryMessagePassedOn` and `FlagTellsTruth` in the composition |
| | `NeverHeldUp` | the bound on `validated.event` never disables the Validator |
| `FeatureStoreProofs` | `ExactBaselines` | `BaselineIsExact` |
| | `BaselinesSurvive` | `BaselineSurvives` |
| | `WindowsExplained` | `WindowIsExplained` |
| | `FannedInOrder` | `OrderKept` |
| | `DeviationIsBounded` | no value of n is further from their mean than the root of n - 1 standard deviations |
| | `ShortWindowsAreRaw` | `ShortWindowIsRaw` |
| | `FloodsAreOfTheMinute` | `FloodIsOfTheMinute` |
| | `DropsHaveCause` | `DropHasCause` |
| | `GeneratedEventsAreAlike` | generated events that are valid carry the same metrics if they share node and component |
| | `ZerosAreMeasured` | `NoFictitiousZero` |
| `HitlDashboardProofs` | `DecisionsOnRecord`, `AnswersLearned` | `DecisionOnRecord`, `AnsweredIsLearned` |
| | `OutcomesHaveRows` | `OutcomeHasRow` |
| `ResponseLoopProofs` | `AppliedEarned` | `AppliedIsEarned` |
| | `LatestIsKnown`, `KnownIsOnRecord` | `KnownIsLatest`, `KnownWasDecided` |
| | `UpdatesAreFew` | `UpdatesAreDecisions` |
| | `RepeatsAreFew`, `ReportsHaveRows` | `RepeatsAreCrashes`, `FeedbackHasRow` |
| `DataFacts` | lemmas | what an append and a tail do to the length and the elements of a queue; ranges, sums of a recursive function, sets of naturals closed under successor |

They rest on the named assumptions of the modules, which TLC evaluates in the runs, and on
these hypotheses:

* `OwnFiles` (`ExactBaselines`, `BaselinesSurvive`): no two components share a baseline file.
  `_baseline_path` replaces every run of characters that are not letters, digits, `_` or `-` by
  one `_`, so two names that differ in such runs only would share one; the components the
  generator knows do not.
* `NamesDiffer` (`SevereArePublished`, `FusedEventIsSound`): the five detectors have different
  names. `SamplesAreMeasured` (both): rates, percentages, times, z-scores and probabilities are not
  negative, a throughput or a vote can be missing. No upper bound is assumed: the code caps what it reports.
* `FortyPercentCounts` (`SevereArePublished`): a confidence of 40 %, weighted, reaches the minimum to
  publish. In `fusion_config.json` the least weight of a detector that can say more than MEDIUM is
  0.75 and the minimum 0.30, so it does, with nothing to spare: with a greater minimum the theorem is lost.
  `MCDetector` has TLC evaluate these three (`HypothesesHold`).
* `CarryTheSame` (`ZerosAreMeasured`): events of a node and component carry the same of the
  metrics that detectors average.
  `GeneratedEventsAreAlike` proves it of the generator's events, and TLC evaluates that the
  mixed streams of the run are such events (`MixedIsGenerated`). The others are events in the
  shape of the generator's with readings put at the limits that the other properties are about;
  `NoFictitiousZero` is checked of them too.

**Fusion Engine.** None of the properties is
inductive: that an event is not published twice depends on where the thread is, since it
is finalized before it is published. The invariant `IInv` therefore says of each place a
result can be - an entry, the event in hand, a publication - that it is faithful (one
result per detector, the fast-path mark true of them), that entries and the event in
hand exclude each other, that a complete entry never waits, and that the event in hand was
not published in this life. The lemma `InvariantHolds` has one step per action; `StoredFaithful` and its
neighbours state what storing and finalizing do, once. The refinement maps the entries to
what gathers, `processed_event_ids` to what is closed, the event being decided to the
undecided one. `AckInv` adds to `AckedIsAccountedFor` that a message which the engine still
holds is one of a finalized event, and `FinalizeCounts` that finalizing adds one event.

**Agents.** `ByTheRules` (every routed message is on the queue that the rules give it) is
inductive, and the two properties of automatic execution follow from it and from what
`LoadThreshold` can return. `LogsExplained`, which counts lines and failed writes together, is inductive with the types. `CopiesInv` adds
that incidents are finitely many. `NothingLost` needs to know where a published but
unacknowledged message is: `NotLostInv` orders the queues (somewhere, triaged, proposed,
settled) and says that the result of the message in hand is already further down.

**Validator.** `PassedInv` says that every emitted message waits, was passed on, or is the
one in hand and published; `FlagInv` relates `_seen_ids`, the flag in hand and the labels of
what was forwarded in this life. A message that ends the process empties `_seen_ids` without a
death being counted, so that the ids of this life are in it holds only as long as no such message is
at the head (`Stopped`); from then on nothing is forwarded.

**The intake.** That the composition implements its parts is shown step by step: `SourceInv`
(the corpus is one, the replay is one of the allowed) makes every replayed line a message
(`EmitsAreEmits`, from `CorporaAreMessages`), so generator steps are messages to the Validator; and a
`Forward` puts a well-formed event at the end of the runner's stream. So the theorems of either
specification hold in the composition (`IntakeIsSafe`). The Feature Store bounds its stream by `MaxEvents`,
which could hold the Validator up in the composition and hide what happens then; `CopiesInv`
(publications are at most the messages that have left the queue, plus one, plus deaths) shows
that it does not.

**Feature Store.** Three invariants on top of the types (`QueueInv`: the queue is the end of
the stream). `BaselineInv`: a calibrator holds events that are done with, or the one in
hand (so no event counts twice, whatever is requeued); it is frozen exactly at
`CalibrationN`; a complete file holds an exact baseline; and while a component calibrates it has
no complete file. `WindowInv`: a window that is not empty is a `Run` that ends with the
last event of its key that was taken, starts after the start unless it is full, and is
longer than its events by the refusals at most, one of which (`Retried`) may still be to
come. `RecentInv`: the same of what was published. The lemmas on `Run` and `Latest` say once
what an append and a cut do.

**Features.** What is computed from a window is a fold over its values, and no installed prover
does induction with an operator as a parameter. The proofs go around that: a fold is a recursive
function on the natural numbers, and `SetInduction` (a set of numbers with 0 and all
successors is all of them) stands for the induction. For `DeviationIsBounded`,
`SquaresOfSums` shows by such an induction that the square of a sum is at most the number of the
values times the sum of their squares; put for all values but the latest, it gives
(n x - sum)^2 <= (n - 1) (n * squares - sum^2) for the latest x (`LatestOfSquares`).
A z-score over the root of n - 1 is therefore impossible, and `ShortWindowsAreRaw` compares the squares
of the thresholds with the lengths. An average lies between bounds of what it is taken of
(`AverageBounds`, `AuthRateIsAverage`), from which the flood and the drop follow. `ZerosAreMeasured` needs
`WindowInv`: a window holds the events of one node and component.

**Detectors.** `SevereArePublished` goes through the verdicts of each detector: a CRITICAL one has
at least 40 % confidence, a HIGH one too unless the forest disputes the gate of the auth detector, and
`_fuse` suppresses only if no anomaly weighs enough. `FusedEventIsSound` needs that the maxima of `_fuse`
are taken over finite sets that are not empty (`GreatestExists`, by induction over cardinality), and that
what each detector reports as confidence, with its divisions and caps, is a probability (`VerdictsAreProbable`).

**Retrieval.** `RetrievalInv` says what the first query has to have found when the second
starts, and which incidents were stored since; that the finished context, cut to three, is
distinct but for those (`DistinctBut`) and balanced follows from it (`ContrastFacts`), for any number of upserts.

**Dashboard.** What an incident shows was put there by a request, so `RequestInv` says first
that a request past `write_decision` has its row and one past the publish its outcome;
`ShownInv` carries that over to the incident when it is saved. `CountInv` counts: for every
incident, verb and payload the outcomes and the requests that still have to publish one
are together no more than the rows.

**The loop.** After the types, six invariants about the composition. `EarnedInv`: what is in the file, and
what is about to be written, lies between 0.65 and the signals heard; a move goes from the one towards
the other (`MovedBetween`), and signals once heard stay heard (`HeardGrows`). `KnownInv`: what is upserted and
not acknowledged is in ChromaDB, hence at most one message ahead of `handled`.
`RecordInv`: every report, and everything executor or dashboard are about to
report, has a row. `UpdatesInv` bounds the moves of the threshold by the messages done with, the one
saved, and the deaths; `CountInv` the reports by the rows. `ExecutionInv`: a message that
waits was acted on, recorded and reported no more often than processes died, one in hand once
more as far as the engine has got with it. That needs a message to wait once only, and
messages to differ in event or payload (`MessagesAreKnown`).

Only model-checked: liveness, which is beyond the prover (`EventuallyFinalized`,
`EventuallyThrough`, `EventuallyAnswered`, `EventuallySettled`, `AutoIsLearned`), and the three properties of
section 5, which fail. Assumed by every proof about windows and features is the integer
arithmetic of `FeatureComputer`, not the floating point of numpy.

## 5 Disagreements

Three statements of the documents fail in a run:

* `ChainTier`: `layer2/User_Guide.md:177` wants automatic execution for LOW only. `route` compares
  the tier with HIGH and nothing else, and the verdict of the schema validator is logged but not
  consulted: a tier the model invents (MEDIUM) is executed.
* `DashboardRerun`: `layer3/User_Guide.md:245` calls running `consume_hitl` again safe. A message that
  was not acknowledged sets an incident back to PENDING after an operator decided it.
* `Shift`: `feature_computers.py:174` wants the shift score to measure how a window deviates
  from its baseline. If no reading lies within the baseline's range the proportions
  are 0/0, `max(0.0, nan)` is 0.0, and the greatest shift scores like none.

Read in the code and left to later runs: `processed_event_ids` dies with the process,
so a redelivery after a restart fuses an event again, while `fusion_engine.py:53-54` says each
event is fused exactly once; the comments at `fusion_engine.py:286-300` describe a window of 3 s where the configuration has 5 s; `route` fails on a missing answer before
"Rule 1 - Timeout or parse error" (`policy_agent.py:64`); a log line precedes its publish,
so the counts of `layer2/README.md:52` are too high after a death; two concurrent
requests can decide one incident twice; a baseline whose save failed is not saved
again; the Policy Agent can read the threshold file while it is empty, and then applies
0.65; `query.py:12` promises a contrast example if all hits have one
tier, which is appended to the list before it is cut to three (`:72`), so with three hits of one
tier it is lost, and which for a tier the model invented is looked for among LOW only (`:53`);
`layer1/docs/layer1_component_log.md:130-131` has an event appended to the rolling window only when its
component is calibrated, but `feature_store.py:121` appends before the gate at `:127`, so windows hold
withheld events (`WindowIsExplained` counts them in); a message that raises at
`validator.py:201`, `:207` or `:209` ends the Validator at every delivery and blocks `raw.events`,
where the same log says "NACK, dead-letter" (`:92`) and `validator.py:10-14` that what fails
validation is caught; "Every agent appends one JSON line per processed message"
(`layer2/README.md:52`), but `append_log` swallows a failed write, and does raise, against its own
comment, if the directory cannot be made (`file_logger.py:21`);
the docstring `baseline_calibrator.py:4-5`, `:28-30` calibrates on 100 events per node and component,
which `feature_store.py:55` and `layer1/README.md:25` have superseded by component; `silence_duration_s` is said to be 0.0 while throughput is
non-zero (`feature_computers.py:214`) but is the time since that reading's timestamp, which the
detector therefore combines with a low reading; a z-score that is over its threshold decides
the severity even where the raw value is over a graver one (a load of 99 % with a z of 2.1 is
MEDIUM); a restart restores the baselines but not the windows; a component's first
`CALIBRATION_N` - 1 events are withheld, where `layer1/User_Guide.md:188` counts
`CALIBRATION_N`; the tiers of the generator's ground truth differ from those of
`schema_validator.py`; a detected anomaly of low weighted confidence is suppressed although
`layer1/User_Guide.md:266` says only all-normal events are; `fusion_type` is never
"low_confidence", so `policy_agent.py:70` is dead.

## 6 What is left out

* The trained models: their votes and probabilities are samples. Of the features, those that
  no threshold reads (minimum, maximum, rate of change, spike count) and the size of the
  shift score, of which only whether it is 0 is modelled. Which of the features the
  trained models read matters to their votes only.
* How the generator samples a corpus and labels it: a corpus is one of a small set, with
  metrics at the ends, the quarters and the middle of their ranges, and noise of a few percent.
* Messages no component of the pipeline sends: results that are no JSON or have no event
  id, strategy results without an event. Exceptions inside the detectors that a validated event can not cause.
* Wording: prompts, summaries, explanations. The list pages, serializers and websocket of
  the dashboard, which only read. Prometheus, except the counters that properties relate.
* The Ollama client (its timeout is an input), training, benchmarks,
  evaluation and data sets.
* Failures of the broker itself: its queues are durable and its messages persistent.

## 7 Plan

1. Done: the Fusion Engine with its contract and proofs; the agents; Layer 3 and the loop;
   Validator, calibration, detectors, retrieval.
2. Done: the rolling window and the features (`FeatureStore`, `FeatureComputer`, `Scoring`);
   the intake composed of generator, Validator and runner; proofs of the agents, the
   Validator, the Feature Store, the dashboard and the loop.
3. Compose the rest of Layer 1: detectors and engine around their queues, so
   that repeated answers have their real causes; an abstract specification of delivery
   that Validator, detectors and agents each implement.
4. Retrieval inside Triage, against the Learning Agent's upserts.
5. Done: proofs of the retrieval, of the features and detectors, of the fused event, and that
   the composed intake implements its parts. Left with items 3 and 4: that their compositions
   implement the parts they are made of.
