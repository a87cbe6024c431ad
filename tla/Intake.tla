------------------------------- MODULE Intake -------------------------------
(***************************************************************************)
(* The way of an event into the system: the generator replays its corpus   *)
(* (layer1/seg/seg.py) on raw.events, the Validator passes events on, and  *)
(* what it publishes on validated.event is the stream of the ADM Runner.   *)
(* The three are processes that die on their own and share nothing but the *)
(* queues.                                                                 *)
(***************************************************************************)
EXTENDS Validator, EventTemplates

CONSTANTS
  Corpora,        \* the corpora: sequences of events, with copy = 0
  Replays,        \* bound: how often the generator is started
  MaxStrays,      \* bound: how many messages others publish on raw.events
  SafeName, CalibrationN, WindowSize, DequeSize, MaxFaults, DiskMayFail,
  None, Torn      \* see FeatureStore

ASSUME IntakeBound == Replays \in Nat \ {0} /\ MaxStrays \in Nat /\ IsFiniteSet(RawMessages)

ASSUME CorporaAreMessages ==
  \A c \in Corpora :
    /\ Len(c) \in Nat
    /\ \A i \in 1..Len(c), r \in 1..Replays : [c[i] EXCEPT !.copy = r] \in RawMessages

VARIABLES
  corpus,     \* events_1950.jsonl
  replay,     \* the replay under way
  line,       \* how many lines of the corpus it has published
  queue, calibrator, window, apc, file, fanned, withheld, since, refused, faults

source == <<corpus, replay, line>>
runner == <<queue, calibrator, window, apc, file, fanned, withheld, since, refused, faults>>

WellFormed == {m \in RawMessages : m.body = "valid"}
MostEvents == Cardinality(RawMessages) + MaxCrashes

FS == INSTANCE FeatureStore
        WITH Arrivals <- WellFormed, MaxEvents <- MostEvents, stream <- validated

IntakeInit ==
  /\ Init
  /\ FS!Init
  /\ corpus \in Corpora
  /\ replay = 1
  /\ line = 0

\* replay: the next line of the corpus.
ReplayLine ==
  /\ line < Len(corpus)
  /\ line' = line + 1
  /\ Emit([corpus[line + 1] EXCEPT !.copy = replay])
  /\ UNCHANGED <<corpus, replay, runner>>

\* The generator is started again, after its end or its death, and begins with
\* the first line.
ReplayAgain ==
  /\ replay < Replays
  /\ line > 0
  /\ replay' = replay + 1
  /\ line' = 0
  /\ UNCHANGED <<corpus, vars, runner>>

\* Somebody else publishes on raw.events.
Stray ==
  /\ Cardinality({m \in emitted : m.copy = 0}) < MaxStrays
  /\ \E m \in RawMessages : m.copy = 0 /\ Emit(m)
  /\ UNCHANGED <<source, runner>>

ValidatorPublishes == Forward /\ FS!Arrive(Current) /\ UNCHANGED source

ValidatorWorks ==
  \/ ValidatorPublishes
  \/ (RejectGarbage \/ Raise \/ Remember \/ Bypass \/ Ack) /\ UNCHANGED <<source, runner>>

ValidatorDies == Crash /\ UNCHANGED <<source, runner>>

RunnerWorks == UNCHANGED <<source, vars>> /\ FS!Work

RunnerFails == UNCHANGED <<source, vars>> /\ (FS!FanOutFails \/ FS!Crash)

IntakeNext ==
  ReplayLine \/ ReplayAgain \/ Stray \/ ValidatorWorks \/ ValidatorDies \/ RunnerWorks \/ RunnerFails

IntakeSpec == IntakeInit /\ [][IntakeNext]_<<source, vars, runner>>

\* The two consumers block on their queues and are started again when they
\* died; the generator need not go on.
FairSpec ==
  /\ IntakeSpec
  /\ WF_<<source, vars, runner>>(ValidatorWorks)
  /\ WF_<<source, vars, runner>>(RunnerWorks)
-----------------------------------------------------------------------------
(* Properties                                                              *)

Handled(p) == p \in FS!Occurring(withheld) \/ \E i \in DOMAIN fanned : fanned[i].event = p

\* It is, or waits behind, a message that ends every process it is delivered to.
Blocked(m) ==
  \E i, j \in DOMAIN raw : i <= j /\ raw[i].body = "fatal" /\ raw[j] = m

Through(m) ==
  CASE m.body = "valid"     -> \E p \in ForwardedAs(m) : Handled(p)
    [] m.body = "malformed" -> BypassedAs(m) # {}
    [] OTHER                -> m \in garbage

\* Every message that is put on raw.events before one that ends the Validator
\* comes through, wherever the processes die, the disk fails or the broker refuses:
\* a well-formed one is scored or calibrated with, a malformed one is reported,
\* garbage is dead-lettered; behind such a message nothing comes through.  (The
\* messages are finitely many and stay through, so that all of them are at a time
\* says no more than that each of them is.)
EventuallyThrough == []<>(\A m \in emitted : Blocked(m) \/ Through(m))
=============================================================================
