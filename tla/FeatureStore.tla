---------------------------- MODULE FeatureStore ----------------------------
(***************************************************************************)
(* The ADM Runner (layer1/adm/adm_runner.py) with the Feature Store it     *)
(* calls in-process (layer1/feature_store).  An event of validated.event   *)
(* calibrates its component until CalibrationN events were seen, and is    *)
(* withheld; from then on the baseline is frozen, a copy is in a file, and *)
(* events are fanned out to the five detectors, each with the last events  *)
(* of its own node and component.  A restart forgets everything but the    *)
(* files.                                                                  *)
(*                                                                         *)
(* An event is known by its position in the stream of validated events.  A *)
(* baseline is the set of the positions it was recorded from, a window the *)
(* sequence of those it holds; what is computed from a window is           *)
(* FeatureComputer.                                                        *)
(***************************************************************************)
EXTENDS FeatureComputer

CONSTANTS
  Arrivals,        \* the events [node, component, ...] that can be published
  MaxEvents,       \* bound: how many events are published
  SafeName,        \* component -> name of its baseline file
  CalibrationN,    \* calibration_n
  WindowSize,      \* window_size: how much of a window is computed with
  DequeSize,       \* MAX_DEQUE_SIZE: how much of it is kept
  MaxFaults,       \* bound: how many deaths and failed publishes there are
  DiskMayFail,     \* whether writing a baseline file can raise
  None,            \* no calibrator, no file
  Torn             \* the content of a file between truncation and write

ASSUME CalibrationTakesEvents == CalibrationN \in Nat \ {0}
ASSUME WindowFitsDeque == WindowSize \in Nat \ {0} /\ DequeSize \in Nat /\ WindowSize <= DequeSize
ASSUME FaultBounds == MaxFaults \in Nat /\ DiskMayFail \in BOOLEAN /\ MaxEvents \in Nat

Components == {e.component : e \in Arrivals}
Files      == {SafeName[c] : c \in Components}

\* _window_key
WindowKey(e) == <<e.node, e.component>>

Keys == {WindowKey(e) : e \in Arrivals}

ASSUME ComponentsHaveFiles == Components \subseteq DOMAIN SafeName

VARIABLES
  stream,       \* what was published on validated.event: history
  queue,        \* validated.event: positions in stream, the head in hand
  calibrator,   \* component -> None or [events, frozen]
  window,       \* key -> positions in stream, the latest last
  apc,          \* the thread: idle, updated, opened, saved, processed, fanned
  file,         \* baseline file -> None, Torn or the baseline
  fanned,       \* published on detection.fanout: history
  withheld,     \* acknowledged without being published: history
  since,        \* the first position taken in this life: history
  refused,      \* failed publishes in this life: history
  faults        \* deaths and failed publishes so far

vars == <<stream, queue, calibrator, window, apc, file, fanned, withheld, since, refused, faults>>

history == <<since, refused>>

\* The process is started with events waiting, and used as many faults.
StartedWith(events, used) ==
  /\ stream = events
  /\ queue = [p \in DOMAIN events |-> p]
  /\ calibrator = [c \in Components |-> None]
  /\ window = [k \in Keys |-> <<>>]
  /\ apc = "idle"
  /\ file = [f \in Files |-> None]
  /\ fanned = <<>>
  /\ withheld = <<>>
  /\ since = 1
  /\ refused = 0
  /\ faults = used

Init == StartedWith(<<>>, 0)

\* The Validator publishes an event.
Arrive(e) ==
  /\ Len(stream) < MaxEvents
  /\ stream' = Append(stream, e)
  /\ queue' = Append(queue, Len(stream) + 1)
  /\ UNCHANGED <<calibrator, window, apc, file, fanned, withheld, history, faults>>

Current   == Head(queue)
Component == stream[Current].component
Key       == WindowKey(stream[Current])

\* Variant: one file for all components.
MutBaselinePath(c) == CHOOSE f \in Files : TRUE

BaselinePath(c) == SafeName[c]

Calibrator(events, frozen) == [events |-> events, frozen |-> frozen]

\* Variant: a restart begins with a fresh calibration.
MutGetCalibrator(c) ==
  IF calibrator[c] # None THEN calibrator[c] ELSE Calibrator({}, FALSE)

\* _get_calibrator: the one in memory, else the baseline in the file if it can
\* be read, else a fresh one.
GetCalibrator(c) ==
  LET stored == file[BaselinePath(c)] IN
  IF calibrator[c] # None THEN calibrator[c]
  ELSE IF stored \notin {None, Torn} THEN Calibrator(stored, TRUE)
  ELSE Calibrator({}, FALSE)

\* BaselineCalibrator.update.  The count is the number of update calls; no
\* calibrator is updated twice with one event: BaselineIsExact.
Updated(cal, i) ==
  IF cal.frozen THEN cal
  ELSE Calibrator(cal.events \union {i}, Cardinality(cal.events) + 1 >= CalibrationN)

\* FeatureStore.process, up to the calibrator's update ...
Update ==
  LET before == GetCalibrator(Component)
      after  == Updated(before, Current) IN
  /\ apc = "idle"
  /\ queue # <<>>
  /\ calibrator' = [calibrator EXCEPT ![Component] = after]
  /\ apc' = IF after.frozen /\ ~before.frozen THEN "updated" ELSE "saved"
  /\ UNCHANGED <<stream, queue, window, file, fanned, withheld, history, faults>>

\* ... BaselineCalibrator.save when the baseline is complete: open(path, "w")
\* empties the file ...
OpenFile ==
  /\ apc = "updated"
  /\ file' = [file EXCEPT ![BaselinePath(Component)] = Torn]
  /\ apc' = "opened"
  /\ UNCHANGED <<stream, queue, calibrator, window, fanned, withheld, history, faults>>

\* ... and the baseline is written to it ...
WriteFile ==
  /\ apc = "opened"
  /\ file' = [file EXCEPT ![BaselinePath(Component)] = calibrator[Component].events]
  /\ apc' = "saved"
  /\ UNCHANGED <<stream, queue, calibrator, window, fanned, withheld, history, faults>>

\* ... or save raises, which is logged, and not tried again ...
SaveFails ==
  /\ DiskMayFail
  /\ apc \in {"updated", "opened"}
  /\ apc' = "saved"
  /\ UNCHANGED <<stream, queue, calibrator, window, file, fanned, withheld, history, faults>>

\* Variant: windows pool the nodes of a component, as baselines do.
MutPush ==
  /\ apc = "saved"
  /\ window' = [k \in Keys |-> IF k[2] = Component THEN Latest(Append(window[k], Current), DequeSize)
                               ELSE window[k]]
  /\ apc' = "processed"
  /\ UNCHANGED <<stream, queue, calibrator, file, fanned, withheld, history, faults>>

\* ... and the event enters the rolling window, which drops its oldest.
Push ==
  /\ apc = "saved"
  /\ window' = [window EXCEPT ![Key] = Latest(Append(@, Current), DequeSize)]
  /\ apc' = "processed"
  /\ UNCHANGED <<stream, queue, calibrator, file, fanned, withheld, history, faults>>

\* process returned None: acknowledge.
Withhold ==
  /\ apc = "processed"
  /\ ~calibrator[Component].frozen
  /\ withheld' = Append(withheld, Current)
  /\ queue' = Tail(queue)
  /\ apc' = "idle"
  /\ UNCHANGED <<stream, calibrator, window, file, fanned, history, faults>>

\* Variant: the oldest entries of the window are taken.
MutEnriched ==
  [event |-> Current, baseline |-> calibrator[Component].events,
   recent |-> SubSeq(window[Key], 1, IF Len(window[Key]) > WindowSize THEN WindowSize ELSE Len(window[Key]))]

\* What the features of the event in hand are computed from.
Enriched ==
  [event |-> Current, baseline |-> calibrator[Component].events,
   recent |-> Latest(window[Key], WindowSize)]

FanOut ==
  /\ apc = "processed"
  /\ calibrator[Component].frozen
  /\ fanned' = Append(fanned, Enriched)
  /\ apc' = "fanned"
  /\ UNCHANGED <<stream, queue, calibrator, window, file, withheld, history, faults>>

Refuse ==
  /\ faults < MaxFaults
  /\ apc = "processed"
  /\ calibrator[Component].frozen
  /\ faults' = faults + 1
  /\ refused' = refused + 1
  /\ apc' = "idle"
  /\ UNCHANGED <<stream, calibrator, window, file, fanned, withheld, since>>

\* Variant: the event is rejected without requeue.
MutFanOutDropped == Refuse /\ queue' = Tail(queue)

\* basic_publish raises: basic_nack with requeue, to where the event was.  It
\* stays in the window, and enters it again when it comes again.
FanOutFails == Refuse /\ UNCHANGED queue

Ack ==
  /\ apc = "fanned"
  /\ queue' = Tail(queue)
  /\ apc' = "idle"
  /\ UNCHANGED <<stream, calibrator, window, file, fanned, withheld, history, faults>>

\* The process dies and is started again.
Crash ==
  /\ faults < MaxFaults
  /\ faults' = faults + 1
  /\ calibrator' = [c \in Components |-> None]
  /\ window' = [k \in Keys |-> <<>>]
  /\ since' = IF queue = <<>> THEN Len(stream) + 1 ELSE Current
  /\ refused' = 0
  /\ apc' = "idle"
  /\ UNCHANGED <<stream, queue, file, fanned, withheld>>

Work == Update \/ OpenFile \/ WriteFile \/ SaveFails \/ Push \/ Withhold \/ FanOut \/ Ack

Next == Work \/ FanOutFails \/ Crash \/ \E e \in Arrivals : Arrive(e)

Spec == Init /\ [][Next]_vars

\* The thread blocks on its queue; a process that died is started again, and a
\* failed publish is tried again.
FairSpec == Spec /\ WF_vars(Work)
-----------------------------------------------------------------------------
(* Properties                                                              *)

Occurring(seq) == {seq[i] : i \in DOMAIN seq}

Exact(baseline, c) ==
  Cardinality(baseline) = CalibrationN /\ \A p \in baseline : stream[p].component = c

\* Whatever is requeued, redelivered or restored from a file: an event is
\* scored against exactly CalibrationN different events of its own component.
BaselineIsExact ==
  \A i \in DOMAIN fanned : Exact(fanned[i].baseline, stream[fanned[i].event].component)

\* The baselines "are persisted to a JSON file per component so that the
\* calibration survives a Feature Store restart" (baseline_calibrator.py:10):
\* a complete file is never emptied or replaced, and once it is there no event
\* of its component is withheld.
BaselineSurvives ==
  [][/\ \A f \in Files : file[f] \notin {None, Torn} => file'[f] = file[f]
     /\ withheld' # withheld => file[BaselinePath(Component)] \in {None, Torn}]_vars

\* The positions of a key from the first to the last: what a window must hold.
Own(k, first, last) == {p \in first..last : p \in DOMAIN stream /\ WindowKey(stream[p]) = k}

\* A sequence of positions is a run of the events of k: in order, repeated only
\* by refusals, and without a gap.
Unbroken(seq, k) ==
  /\ \A i \in 1..(Len(seq) - 1) : seq[i] <= seq[i + 1]
  /\ seq # <<>> => Occurring(seq) = Own(k, seq[1], seq[Len(seq)])

\* "stateful Feature Store, order matters" (adm_runner.py:182).  A window holds
\* the events of its node and component that were taken since the process was
\* started, all of them until it is full, in their order, and repeats one only if
\* its publication was refused in between.  Withheld ones are among them: the code
\* appends before its calibration gate (layer1_component_log.md draws it behind).
WindowIsExplained ==
  \A k \in Keys :
    LET w == window[k] IN
    /\ Unbroken(w, k)
    /\ w # <<>> /\ Len(w) < DequeSize => Own(k, since, w[1]) = {w[1]}
    /\ Len(w) <= Cardinality(Occurring(w)) + refused

\* The detectors get an event with the run of events that ends with it, and
\* they get the events in the order of validated.event.
OrderKept ==
  /\ \A i \in 1..(Len(fanned) - 1) : fanned[i].event <= fanned[i + 1].event
  /\ \A i \in DOMAIN fanned :
       LET r == fanned[i].recent IN
       /\ r[Len(r)] = fanned[i].event
       /\ Unbroken(r, WindowKey(stream[r[Len(r)]]))
=============================================================================
