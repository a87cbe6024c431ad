------------------------- MODULE FeatureStoreProofs -------------------------
(***************************************************************************)
(* Safety of the ADM Runner with the Feature Store for every set of events *)
(* and components, every size of calibration and of the windows, and every *)
(* number of faults, provided that no two components share a file; and of  *)
(* what the detectors make of the windows.                                 *)
(***************************************************************************)
EXTENDS Scoring, EventTemplates, DataFacts, FiniteSetTheorems

\* _baseline_path gives no two components the same file name.
OwnFiles == \A c, d \in Components : SafeName[c] = SafeName[d] => c = d

\* How many events are done with: those before the queue.
Taken == Len(stream) - Len(queue)

Places == {"idle", "updated", "opened", "saved", "processed", "fanned"}

\* The queue is what is left of the stream.
QueueInv ==
  /\ stream \in Seq(Arrivals)
  /\ queue \in Seq(Nat)
  /\ Taken \in Nat
  /\ \A i \in DOMAIN queue : queue[i] = Taken + i
  /\ apc \in Places
  /\ apc # "idle" => queue # <<>>

\* The event in hand.
LEMMA InHand ==
  ASSUME QueueInv, queue # <<>>
  PROVE  /\ Current = Taken + 1
         /\ Current \in DOMAIN stream
         /\ stream[Current] \in Arrivals
         /\ Component \in Components
         /\ Key \in Keys
<1>1. /\ Current = queue[1] /\ Len(queue) \in Nat \ {0} /\ DOMAIN queue = 1..Len(queue)
  BY TailFacts DEF QueueInv, Current
<1>2. Len(stream) \in Nat /\ DOMAIN stream = 1..Len(stream)
  BY LenProperties DEF QueueInv
<1>3. Current = Taken + 1
  BY <1>1 DEF QueueInv
<1>4. Current \in DOMAIN stream
  BY <1>1, <1>2, <1>3 DEF QueueInv, Taken
<1>5. stream[Current] \in Arrivals
  BY <1>2, <1>4, ElementOfSeq DEF QueueInv
<1> QED
  BY <1>3, <1>4, <1>5 DEF Component, Components, Key, Keys

\* The Validator publishes: the queue and the stream grow, the event in hand
\* stays.
LEMMA ArriveFacts ==
  ASSUME QueueInv, NEW e \in Arrivals, Arrive(e)
  PROVE  /\ QueueInv' /\ Taken' = Taken
         /\ DOMAIN stream \subseteq DOMAIN stream'
         /\ \A p \in DOMAIN stream : stream'[p] = stream[p]
         /\ \A p \in DOMAIN stream' : p \in DOMAIN stream \/ p > Len(stream)
         /\ queue # <<>> => Current' = Current /\ Component' = Component /\ Key' = Key
<1>1. /\ stream' = Append(stream, e) /\ queue' = Append(queue, Len(stream) + 1)
      /\ stream \in Seq(Arrivals) /\ queue \in Seq(Nat) /\ apc' = apc
  BY DEF Arrive, QueueInv
<1>2. Len(stream) \in Nat
  BY <1>1, LenProperties
<1>3. /\ stream' \in Seq(Arrivals) /\ Len(stream') = Len(stream) + 1
      /\ DOMAIN stream = 1..Len(stream) /\ DOMAIN stream' = 1..Len(stream) + 1
      /\ \A p \in 1..Len(stream) : stream'[p] = stream[p]
  BY <1>1, AppendFacts
<1>4. /\ queue' \in Seq(Nat) /\ Len(queue') = Len(queue) + 1 /\ queue' # <<>>
      /\ Len(queue) \in Nat
      /\ DOMAIN queue = 1..Len(queue) /\ DOMAIN queue' = 1..Len(queue) + 1
      /\ queue'[Len(queue) + 1] = Len(stream) + 1
      /\ \A i \in 1..Len(queue) : queue'[i] = queue[i]
  BY <1>1, <1>2, AppendFacts
<1>5. Taken' = Taken /\ Taken \in Nat
  BY <1>2, <1>3, <1>4 DEF Taken, QueueInv
<1>6. \A i \in DOMAIN queue' : queue'[i] = Taken + i
  <2> SUFFICES ASSUME NEW i \in 1..Len(queue) + 1 PROVE queue'[i] = Taken + i
    BY <1>4
  <2>1. CASE i \in 1..Len(queue)
    BY <1>4, <2>1 DEF QueueInv
  <2>2. CASE i = Len(queue) + 1
    <3>1. Taken + i = Len(stream) + 1
      BY <1>2, <1>4, <2>2 DEF Taken
    <3> QED
      BY <1>4, <2>2, <3>1
  <2> QED
    BY <1>4, <2>1, <2>2
<1>7. QueueInv'
  BY <1>1, <1>3, <1>4, <1>5, <1>6 DEF QueueInv
<1>8. queue # <<>> => Current' = Current
  BY <1>1, <1>2, AppendHead DEF Current
<1>9. queue # <<>> => Component' = Component /\ Key' = Key
  BY <1>3, <1>8, InHand DEF Component, Key
<1>10. \A p \in DOMAIN stream' : p \in DOMAIN stream \/ p > Len(stream)
  BY <1>2, <1>3
<1> QED
  BY <1>3, <1>5, <1>7, <1>8, <1>9, <1>10

\* An event is acknowledged: the next one is at the head.
LEMMA DoneFacts ==
  ASSUME QueueInv, queue # <<>>, queue' = Tail(queue), stream' = stream, apc' = "idle"
  PROVE  QueueInv' /\ Taken' = Taken + 1
<1>1. /\ queue' \in Seq(Nat) /\ Len(queue) \in Nat \ {0} /\ Len(queue') = Len(queue) - 1
      /\ DOMAIN queue' = 1..Len(queue) - 1 /\ DOMAIN queue = 1..Len(queue)
      /\ \A i \in 1..Len(queue) - 1 : queue'[i] = queue[i + 1]
  BY TailFacts DEF QueueInv
<1>2. Len(stream) \in Nat
  BY LenProperties DEF QueueInv
<1>3. Taken' = Taken + 1 /\ Taken \in Nat
  BY <1>1, <1>2 DEF Taken, QueueInv
<1>4. \A i \in DOMAIN queue' : queue'[i] = Taken' + i
  <2> SUFFICES ASSUME NEW i \in 1..Len(queue) - 1 PROVE queue'[i] = Taken' + i
    BY <1>1
  <2>1. i + 1 \in 1..Len(queue) /\ queue'[i] = queue[i + 1]
    BY <1>1
  <2>2. queue[i + 1] = Taken + (i + 1)
    BY <1>1, <2>1 DEF QueueInv
  <2> QED
    BY <1>3, <2>1, <2>2
<1> QED
  BY <1>1, <1>3, <1>4 DEF QueueInv, Places

Calibrators == [events : SUBSET Nat, frozen : BOOLEAN]
Publications == [event : Nat, baseline : SUBSET Nat, recent : Seq(Nat)]

TypeInv ==
  /\ QueueInv
  /\ calibrator \in [Components -> Calibrators \union {None}]
  /\ window \in [Keys -> Seq(Nat)]
  /\ file \in [Files -> (SUBSET Nat) \union {None, Torn}]
  /\ fanned \in Seq(Publications)
  /\ since \in Nat
  /\ refused \in Nat
  /\ apc # "idle" => calibrator[Component] \in Calibrators

\* A calibrator is one of its kind, fetched or updated.
LEMMA CalibratorTypes ==
  ASSUME TypeInv, NEW c \in Components, NEW i \in Nat
  PROVE  GetCalibrator(c) \in Calibrators /\ Updated(GetCalibrator(c), i) \in Calibrators
<1> DEFINE before == GetCalibrator(c)
<1>1. file[BaselinePath(c)] \in (SUBSET Nat) \union {None, Torn}
  BY DEF TypeInv, Files, BaselinePath
<1>2. before \in Calibrators
  BY <1>1 DEF TypeInv, GetCalibrator, Calibrator, Calibrators
<1>3. ASSUME NEW cal \in Calibrators PROVE Updated(cal, i) \in Calibrators
  <2>1. cal.events \union {i} \in SUBSET Nat
    BY <1>3 DEF Calibrators
  <2>2. (Cardinality(cal.events) + 1 >= CalibrationN) \in BOOLEAN
    OBVIOUS
  <2> QED
    BY <1>3, <2>1, <2>2 DEF Updated, Calibrator, Calibrators
<1> QED
  BY <1>2, <1>3

\* The end of a sequence.
LEMMA LatestFacts ==
  ASSUME NEW w \in Seq(Nat), NEW n \in Nat \ {0}
  PROVE  /\ Latest(w, n) \in Seq(Nat)
         /\ Len(Latest(w, n)) = IF Len(w) > n THEN n ELSE Len(w)
         /\ \A i \in 1..Len(Latest(w, n)) : Latest(w, n)[i] = w[i + Len(w) - Len(Latest(w, n))]
<1> DEFINE from == IF Len(w) > n THEN Len(w) - n + 1 ELSE 1
           recent == SubSeq(w, from, Len(w))
<1>1. Len(w) \in Nat /\ from \in Int /\ from >= 1 /\ from <= Len(w) + 1
  OBVIOUS
<1>2. \A i \in from..Len(w) : w[i] \in Nat
  BY <1>1
<1>3. Latest(w, n) = recent
  BY DEF Latest
<1> HIDE DEF from
<1>4. /\ recent \in Seq(Nat)
      /\ Len(recent) = IF from <= Len(w) THEN Len(w) - from + 1 ELSE 0
      /\ \A i \in 1..Len(w) - from + 1 : recent[i] = w[from + i - 1]
  BY <1>1, <1>2, SubSeqProperties
<1>5. Len(recent) = Len(w) - from + 1
  BY <1>1, <1>4
<1> HIDE DEF recent
<1>6. Len(recent) = IF Len(w) > n THEN n ELSE Len(w)
  BY <1>1, <1>5 DEF from
<1>7. ASSUME NEW i \in 1..Len(recent) PROVE recent[i] = w[i + Len(w) - Len(recent)]
  <2>1. from + i - 1 = i + Len(w) - Len(recent)
    BY <1>1, <1>5
  <2> QED
    BY <1>4, <1>5, <2>1
<1> QED
  BY <1>3, <1>4, <1>6, <1>7

LEMMA TypeInit == ASSUME Init PROVE TypeInv
<1>1. /\ stream = <<>> /\ queue = [p \in DOMAIN <<>> |-> p] /\ apc = "idle" /\ fanned = <<>>
      /\ since = 1 /\ refused = 0
  BY DEF Init, StartedWith
<1>2. queue = <<>>
  BY <1>1
<1>3. QueueInv
  BY <1>1, <1>2 DEF QueueInv, Taken, Places
<1> QED
  BY <1>1, <1>3 DEF TypeInv, Init, StartedWith

\* The other steps leave the event in hand where it is.
LEMMA SameHand ==
  ASSUME QueueInv, UNCHANGED <<stream, queue>>, apc' \in Places, apc' # "idle" => queue # <<>>
  PROVE  QueueInv' /\ Taken' = Taken /\ Current' = Current /\ Component' = Component /\ Key' = Key
BY DEF QueueInv, Taken, Current, Component, Key

LEMMA TypeStep == ASSUME TypeInv, [Next]_vars PROVE TypeInv'
<1> USE DEF TypeInv
<1>1. ASSUME NEW e \in Arrivals, Arrive(e) PROVE TypeInv'
  <2>1. QueueInv' /\ (queue # <<>> => Component' = Component)
    BY <1>1, ArriveFacts
  <2>2. UNCHANGED <<calibrator, window, apc, file, fanned, history>>
    BY <1>1 DEF Arrive
  <2>3. apc # "idle" => queue # <<>>
    BY DEF QueueInv
  <2> QED
    BY <2>1, <2>2, <2>3 DEF history
<1>2. CASE Update
  <2>1. queue # <<>> /\ UNCHANGED <<stream, queue, window, file, fanned, history>>
        /\ apc' \in {"updated", "saved"}
        /\ calibrator' = [calibrator EXCEPT ![Component] = Updated(GetCalibrator(Component), Current)]
    BY <1>2 DEF Update
  <2>2. Component \in Components /\ Current \in Nat
    BY <2>1, InHand DEF QueueInv
  <2>3. Updated(GetCalibrator(Component), Current) \in Calibrators
    BY <2>2, CalibratorTypes
  <2>4. QueueInv' /\ Component' = Component
    BY <2>1, SameHand DEF Places
  <2> QED
    BY <2>1, <2>2, <2>3, <2>4 DEF history
<1>3. CASE OpenFile
  <2>1. apc = "updated" /\ apc' = "opened" /\ UNCHANGED <<stream, queue, calibrator, window, fanned, history>>
        /\ file' = [file EXCEPT ![BaselinePath(Component)] = Torn]
    BY <1>3 DEF OpenFile
  <2>2. QueueInv' /\ Component' = Component
    BY <2>1, SameHand DEF Places, QueueInv
  <2> QED
    BY <2>1, <2>2 DEF history
<1>4. CASE WriteFile
  <2>1. apc = "opened" /\ apc' = "saved" /\ UNCHANGED <<stream, queue, calibrator, window, fanned, history>>
        /\ file' = [file EXCEPT ![BaselinePath(Component)] = calibrator[Component].events]
    BY <1>4 DEF WriteFile
  <2>2. QueueInv' /\ Component' = Component
    BY <2>1, SameHand DEF Places, QueueInv
  <2>3. calibrator[Component].events \in SUBSET Nat
    BY <2>1 DEF Calibrators
  <2> QED
    BY <2>1, <2>2, <2>3 DEF history
<1>5. CASE SaveFails
  <2>1. apc # "idle" /\ apc' = "saved" /\ UNCHANGED <<stream, queue, calibrator, window, file, fanned, history>>
    BY <1>5 DEF SaveFails
  <2>2. QueueInv' /\ Component' = Component
    BY <2>1, SameHand DEF Places, QueueInv
  <2> QED
    BY <2>1, <2>2 DEF history
<1>6. CASE Push
  <2>1. apc = "saved" /\ apc' = "processed" /\ UNCHANGED <<stream, queue, calibrator, file, fanned, history>>
        /\ window' = [window EXCEPT ![Key] = Latest(Append(window[Key], Current), DequeSize)]
    BY <1>6 DEF Push
  <2>2. QueueInv' /\ Component' = Component
    BY <2>1, SameHand DEF Places, QueueInv
  <2>3. Key \in Keys /\ Current \in Nat
    BY <2>1, InHand DEF QueueInv
  <2>4. Append(window[Key], Current) \in Seq(Nat)
    BY <2>3, AppendFacts
  <2>5. DequeSize \in Nat \ {0}
    BY WindowFitsDeque
  <2>6. Latest(Append(window[Key], Current), DequeSize) \in Seq(Nat)
    BY <2>4, <2>5, LatestFacts
  <2> QED
    BY <2>1, <2>2, <2>6 DEF history
<1>7. CASE Withhold
  <2>1. apc = "processed" /\ apc' = "idle" /\ queue' = Tail(queue)
        /\ UNCHANGED <<stream, calibrator, window, file, fanned, history>>
    BY <1>7 DEF Withhold
  <2>2. QueueInv'
    BY <2>1, DoneFacts DEF QueueInv
  <2> QED
    BY <2>1, <2>2 DEF history
<1>8. CASE FanOut
  <2>1. apc = "processed" /\ apc' = "fanned" /\ fanned' = Append(fanned, Enriched)
        /\ UNCHANGED <<stream, queue, calibrator, window, file, history>>
    BY <1>8 DEF FanOut
  <2>2. QueueInv' /\ Component' = Component
    BY <2>1, SameHand DEF Places, QueueInv
  <2>3. Enriched \in Publications
    <3>1. Key \in Keys /\ Current \in Nat
      BY <2>1, InHand DEF QueueInv
    <3>2. WindowSize \in Nat \ {0}
      BY WindowFitsDeque
    <3>3. Latest(window[Key], WindowSize) \in Seq(Nat)
      BY <3>1, <3>2, LatestFacts
    <3>4. calibrator[Component].events \in SUBSET Nat
      BY <2>1 DEF Calibrators
    <3> QED
      BY <3>1, <3>3, <3>4 DEF Enriched, Publications
  <2>4. fanned' \in Seq(Publications)
    BY <2>1, <2>3, AppendFacts
  <2> QED
    BY <2>1, <2>2, <2>4 DEF history
<1>9. CASE FanOutFails
  <2>1. apc' = "idle" /\ refused' = refused + 1
        /\ UNCHANGED <<stream, queue, calibrator, window, file, fanned, since>>
    BY <1>9 DEF FanOutFails, Refuse
  <2>2. QueueInv'
    BY <2>1, SameHand DEF Places
  <2> QED
    BY <2>1, <2>2
<1>10. CASE Ack
  <2>1. apc = "fanned" /\ apc' = "idle" /\ queue' = Tail(queue)
        /\ UNCHANGED <<stream, calibrator, window, file, fanned, history>>
    BY <1>10 DEF Ack
  <2>2. QueueInv'
    BY <2>1, DoneFacts DEF QueueInv
  <2> QED
    BY <2>1, <2>2 DEF history
<1>11. CASE Crash
  <2>1. apc' = "idle" /\ refused' = 0 /\ UNCHANGED <<stream, queue, file, fanned>>
        /\ calibrator' = [c \in Components |-> None] /\ window' = [k \in Keys |-> <<>>]
        /\ since' = IF queue = <<>> THEN Len(stream) + 1 ELSE Current
    BY <1>11 DEF Crash
  <2>2. QueueInv'
    BY <2>1, SameHand DEF Places
  <2>3. since' \in Nat
    BY <2>1, InHand, LenProperties DEF QueueInv
  <2> QED
    BY <2>1, <2>2, <2>3
<1>12. CASE UNCHANGED vars
  <2>1. UNCHANGED <<stream, queue, calibrator, window, apc, file, fanned, since, refused>>
    BY <1>12 DEF vars
  <2>2. QueueInv' /\ Component' = Component
    BY <2>1, SameHand DEF QueueInv
  <2> QED
    BY <2>1, <2>2
<1> QED
  BY <1>1, <1>2, <1>3, <1>4, <1>5, <1>6, <1>7, <1>8, <1>9, <1>10, <1>11, <1>12 DEF Next, Work

-----------------------------------------------------------------------------
(* Baselines                                                               *)

\* A calibrator of c is made of events of c, CalibrationN when it is frozen and
\* fewer before.
Sound(c, cal) ==
  /\ IsFiniteSet(cal.events)
  /\ \A p \in cal.events : p \in DOMAIN stream /\ stream[p].component = c
  /\ IF cal.frozen THEN Cardinality(cal.events) = CalibrationN
                   ELSE Cardinality(cal.events) < CalibrationN

\* None of its events is still to come.
Past(cal) == \A p \in cal.events : p <= IF apc = "idle" THEN Taken ELSE Taken + 1

Stored(c) == file[BaselinePath(c)] \notin {None, Torn}

\* As long as a component calibrates it has no complete file.
CalibratorInv ==
  \A c \in Components :
    calibrator[c] # None =>
      /\ Sound(c, calibrator[c])
      /\ calibrator[c].frozen \/ (~Stored(c) /\ Past(calibrator[c]))

FileInv ==
  \A c \in Components : Stored(c) => Sound(c, Calibrator(file[BaselinePath(c)], TRUE))

\* The calibrator of the event in hand, and what save does with it.
HandInv ==
  apc # "idle" =>
    /\ Sound(Component, calibrator[Component])
    /\ calibrator[Component].frozen \/ ~Stored(Component)
    /\ apc \in {"updated", "opened"} => calibrator[Component].frozen /\ ~Stored(Component)

FannedInv ==
  \A i \in DOMAIN fanned :
    /\ fanned[i].event \in DOMAIN stream
    /\ Sound(stream[fanned[i].event].component, Calibrator(fanned[i].baseline, TRUE))

BaselineInv == CalibratorInv /\ FileInv /\ HandInv /\ FannedInv

\* Sound depends on the events recorded only, which no step changes.
LEMMA SoundStays ==
  ASSUME NEW c, NEW cal, Sound(c, cal),
         DOMAIN stream \subseteq DOMAIN stream', \A p \in DOMAIN stream : stream'[p] = stream[p]
  PROVE  Sound(c, cal)'
BY DEF Sound

\* What update makes of the calibrator it fetched.
LEMMA UpdateIsSound ==
  ASSUME TypeInv, BaselineInv, apc = "idle", queue # <<>>
  PROVE  LET before == GetCalibrator(Component)
             after  == Updated(before, Current) IN
         /\ Sound(Component, after)
         /\ after.frozen \/ (~Stored(Component) /\ \A p \in after.events : p <= Taken + 1)
         /\ after.frozen /\ ~before.frozen => ~Stored(Component)
<1> DEFINE before == GetCalibrator(Component)
           after  == Updated(before, Current)
<1>1. Component \in Components /\ Current = Taken + 1 /\ Current \in DOMAIN stream /\ Taken \in Nat
  BY InHand DEF TypeInv, QueueInv
<1>2. before \in Calibrators /\ after \in Calibrators
  BY <1>1, CalibratorTypes
<1>3. /\ Sound(Component, before)
      /\ before.frozen \/ (~Stored(Component) /\ \A p \in before.events : p <= Taken)
  <2>1. CASE calibrator[Component] # None
    <3>1. before = calibrator[Component]
      BY <2>1 DEF GetCalibrator
    <3> QED
      BY <1>1, <2>1, <3>1 DEF BaselineInv, CalibratorInv, Past
  <2>2. CASE calibrator[Component] = None /\ Stored(Component)
    <3>1. before = Calibrator(file[BaselinePath(Component)], TRUE)
      BY <2>2 DEF GetCalibrator, Stored
    <3>2. before.frozen
      BY <3>1 DEF Calibrator
    <3> QED
      BY <1>1, <2>2, <3>1, <3>2 DEF BaselineInv, FileInv
  <2>3. CASE calibrator[Component] = None /\ ~Stored(Component)
    <3>1. before.events = {} /\ before.frozen = FALSE
      BY <2>3 DEF GetCalibrator, Stored, Calibrator
    <3>2. IsFiniteSet({}) /\ Cardinality({}) = 0 /\ 0 < CalibrationN
      BY FS_EmptySet, CalibrationTakesEvents
    <3>3. Sound(Component, before)
      BY <3>1, <3>2 DEF Sound
    <3> QED
      BY <2>3, <3>1, <3>3
  <2> QED
    BY <2>1, <2>2, <2>3
<1>4. ASSUME before.frozen
      PROVE  after = before
  BY <1>4 DEF Updated
<1>5. ASSUME ~before.frozen
      PROVE  Sound(Component, after) /\ \A p \in after.events : p <= Taken + 1
  <2>1. IsFiniteSet(before.events) /\ Cardinality(before.events) < CalibrationN
    BY <1>3, <1>5 DEF Sound
  <2>2. Current \notin before.events
    BY <1>1, <1>3, <1>5
  <2>3. /\ IsFiniteSet(before.events \union {Current})
        /\ Cardinality(before.events \union {Current}) = Cardinality(before.events) + 1
        /\ Cardinality(before.events) \in Nat
    BY <2>1, <2>2, FS_AddElement, FS_CardinalityType
  <2>4. /\ after.events = before.events \union {Current}
        /\ after.frozen <=> Cardinality(before.events) + 1 >= CalibrationN
    BY <1>5 DEF Updated, Calibrator
  <2>5. \A p \in after.events : p \in DOMAIN stream /\ stream[p].component = Component /\ p <= Taken + 1
    <3>1. stream[Current].component = Component
      BY DEF Component
    <3>2. before.events \subseteq Nat
      BY <1>2 DEF Calibrators
    <3>3. ASSUME NEW p \in before.events
          PROVE  p \in DOMAIN stream /\ stream[p].component = Component /\ p <= Taken + 1
      BY <1>1, <1>3, <1>5, <3>2 DEF Sound
    <3> QED
      BY <1>1, <2>4, <3>1, <3>3
  <2> HIDE DEF after, before
  <2>6. IF after.frozen THEN Cardinality(after.events) = CalibrationN
                        ELSE Cardinality(after.events) < CalibrationN
    BY <2>1, <2>3, <2>4, CalibrationTakesEvents
  <2>7. Sound(Component, after)
    BY <2>3, <2>4, <2>5, <2>6 DEF Sound
  <2> QED
    BY <2>5, <2>7
<1> HIDE DEF after, before
<1>6. /\ Sound(Component, after)
      /\ after.frozen \/ (~Stored(Component) /\ \A p \in after.events : p <= Taken + 1)
      /\ after.frozen /\ ~before.frozen => ~Stored(Component)
  BY <1>3, <1>4, <1>5
<1> QED
  BY <1>6 DEF after, before

LEMMA BaselineInit == ASSUME Init PROVE BaselineInv
<1>1. /\ calibrator = [c \in Components |-> None] /\ file = [f \in Files |-> None]
      /\ apc = "idle" /\ fanned = <<>>
  BY DEF Init, StartedWith
<1>2. CalibratorInv
  BY <1>1 DEF CalibratorInv
<1>3. \A c \in Components : ~Stored(c)
  BY <1>1 DEF Stored, BaselinePath, Files
<1>4. FileInv
  BY <1>3 DEF FileInv
<1>5. HandInv
  BY <1>1 DEF HandInv
<1>6. FannedInv
  BY <1>1 DEF FannedInv
<1> QED
  BY <1>2, <1>4, <1>5, <1>6 DEF BaselineInv

\* A step that leaves calibrators, files and publications alone.
LEMMA BaselineStays ==
  ASSUME TypeInv, TypeInv', BaselineInv, UNCHANGED <<stream, calibrator, file, fanned>>,
         \A c \in Components : \A p \in Nat :
           stream[p].component = c /\ ~calibrator[c].frozen /\ p \in DOMAIN stream
             => (p <= (IF apc = "idle" THEN Taken ELSE Taken + 1)
                   => p <= (IF apc = "idle" THEN Taken ELSE Taken + 1)'),
         apc' # "idle" => apc # "idle" /\ Component' = Component,
         apc' \in {"updated", "opened"} => apc \in {"updated", "opened"}
  PROVE  BaselineInv'
<1>1. \A c, cal : Sound(c, cal)' <=> Sound(c, cal)
  BY DEF Sound
<1>2. \A c : Stored(c)' <=> Stored(c)
  BY DEF Stored
<1>3. CalibratorInv'
  <2> SUFFICES ASSUME NEW c \in Components, calibrator[c] # None
               PROVE  Sound(c, calibrator[c]) /\ (calibrator[c].frozen \/ (~Stored(c) /\ Past(calibrator[c])'))
    BY <1>1, <1>2 DEF CalibratorInv, Past
  <2>1. Sound(c, calibrator[c]) /\ (calibrator[c].frozen \/ (~Stored(c) /\ Past(calibrator[c])))
    BY DEF BaselineInv, CalibratorInv
  <2>2. calibrator[c].events \subseteq Nat
    BY DEF TypeInv, Calibrators
  <2>3. \A p \in calibrator[c].events : p \in DOMAIN stream /\ stream[p].component = c
    BY <2>1 DEF Sound
  <2>4. ~calibrator[c].frozen => Past(calibrator[c])'
    BY <2>1, <2>2, <2>3 DEF Past
  <2> QED
    BY <2>1, <2>4
<1>4. FileInv'
  BY <1>1, <1>2 DEF BaselineInv, FileInv, BaselinePath
<1>5. HandInv'
  BY <1>1, <1>2 DEF BaselineInv, HandInv
<1>6. FannedInv'
  BY <1>1 DEF BaselineInv, FannedInv
<1> QED
  BY <1>3, <1>4, <1>5, <1>6 DEF BaselineInv

LEMMA BaselineStep ==
  ASSUME OwnFiles, TypeInv, TypeInv', BaselineInv, [Next]_vars
  PROVE  BaselineInv'
<1> DEFINE C == Component
<1>0. /\ Taken \in Nat
      /\ apc # "idle" => queue # <<>> /\ Component \in Components /\ calibrator[Component] \in Calibrators
      /\ \A c \in Components : BaselinePath(c) \in Files /\ BaselinePath(c)' = BaselinePath(c)
  BY InHand DEF TypeInv, QueueInv, BaselinePath, Files
<1>1. ASSUME NEW e \in Arrivals, Arrive(e) PROVE BaselineInv'
  <2>1. /\ Taken' = Taken /\ DOMAIN stream \subseteq DOMAIN stream'
        /\ \A p \in DOMAIN stream : stream'[p] = stream[p]
        /\ queue # <<>> => Component' = Component
    BY <1>1, ArriveFacts DEF TypeInv
  <2>2. UNCHANGED <<calibrator, apc, file, fanned>>
    BY <1>1 DEF Arrive
  <2>3. ASSUME NEW c, NEW cal, Sound(c, cal) PROVE Sound(c, cal)'
    BY <2>1, <2>3 DEF Sound
  <2>4. \A c : Stored(c)' <=> Stored(c)
    BY <2>2 DEF Stored, BaselinePath
  <2>5. CalibratorInv'
    <3> SUFFICES ASSUME NEW c \in Components, calibrator[c] # None
                 PROVE  /\ Sound(c, calibrator[c])'
                        /\ calibrator[c].frozen \/ (~Stored(c) /\ Past(calibrator[c])')
      BY <2>2, <2>4 DEF CalibratorInv
    <3>1. Sound(c, calibrator[c]) /\ (calibrator[c].frozen \/ (~Stored(c) /\ Past(calibrator[c])))
      BY DEF BaselineInv, CalibratorInv
    <3>2. Sound(c, calibrator[c])'
      BY <2>1, <2>2, <3>1 DEF Sound
    <3>3. Past(calibrator[c]) => Past(calibrator[c])'
      BY <2>1, <2>2 DEF Past
    <3> QED
      BY <3>1, <3>2, <3>3
  <2>6. FileInv'
    <3> SUFFICES ASSUME NEW c \in Components, Stored(c)
                 PROVE  Sound(c, Calibrator(file[BaselinePath(c)], TRUE))'
      BY <2>4 DEF FileInv
    <3>1. Sound(c, Calibrator(file[BaselinePath(c)], TRUE))
      BY DEF BaselineInv, FileInv
    <3> QED
      BY <2>1, <2>2, <3>1 DEF Sound, Calibrator, BaselinePath
  <2>7. HandInv'
    <3> SUFFICES ASSUME apc # "idle"
                 PROVE  /\ Sound(Component, calibrator[Component])'
                        /\ calibrator[Component].frozen \/ ~Stored(Component)
                        /\ apc \in {"updated", "opened"} => calibrator[Component].frozen /\ ~Stored(Component)
      BY <1>0, <2>1, <2>2, <2>4 DEF HandInv
    <3>1. /\ Sound(Component, calibrator[Component])
          /\ calibrator[Component].frozen \/ ~Stored(Component)
          /\ apc \in {"updated", "opened"} => calibrator[Component].frozen /\ ~Stored(Component)
      BY DEF BaselineInv, HandInv
    <3>2. Sound(Component, calibrator[Component])'
      BY <1>0, <2>1, <2>2, <3>1 DEF Sound
    <3> QED
      BY <3>1, <3>2
  <2>8. FannedInv'
    <3> SUFFICES ASSUME NEW i \in DOMAIN fanned
                 PROVE  /\ fanned[i].event \in DOMAIN stream'
                        /\ Sound(stream[fanned[i].event].component, Calibrator(fanned[i].baseline, TRUE))'
      BY <2>2 DEF FannedInv
    <3>1. /\ fanned[i].event \in DOMAIN stream
          /\ Sound(stream[fanned[i].event].component, Calibrator(fanned[i].baseline, TRUE))
      BY DEF BaselineInv, FannedInv
    <3> QED
      BY <2>1, <2>2, <3>1 DEF Sound, Calibrator
  <2> QED
    BY <2>5, <2>6, <2>7, <2>8 DEF BaselineInv
<1>2. CASE Update
  <2> DEFINE before == GetCalibrator(C)
             after  == Updated(before, Current)
  <2>1. /\ apc = "idle" /\ queue # <<>> /\ UNCHANGED <<stream, queue, file, fanned>>
        /\ calibrator' = [calibrator EXCEPT ![C] = after]
        /\ apc' = IF after.frozen /\ ~before.frozen THEN "updated" ELSE "saved"
    BY <1>2 DEF Update
  <2>2. /\ Sound(C, after)
        /\ after.frozen \/ (~Stored(C) /\ \A p \in after.events : p <= Taken + 1)
        /\ after.frozen /\ ~before.frozen => ~Stored(C)
    BY <2>1, UpdateIsSound
  <2>3. C \in Components /\ Component' = C /\ Taken' = Taken /\ Taken \in Nat
    BY <1>0, <2>1, InHand, SameHand DEF TypeInv, Places
  <2> HIDE DEF after, before, C
  <2>4. calibrator'[C] = after /\ \A c \in Components : c # C => calibrator'[c] = calibrator[c]
    BY <2>1, <2>3 DEF TypeInv
  <2>5. \A c, cal : Sound(c, cal)' <=> Sound(c, cal)
    BY <2>1 DEF Sound
  <2>6. \A c : Stored(c)' <=> Stored(c)
    BY <2>1 DEF Stored, BaselinePath
  <2>7. CalibratorInv'
    <3> SUFFICES ASSUME NEW c \in Components, calibrator'[c] # None
                 PROVE  /\ Sound(c, calibrator'[c])
                        /\ calibrator'[c].frozen \/ (~Stored(c) /\ \A p \in calibrator'[c].events : p <= Taken + 1)
      BY <2>1, <2>3, <2>5, <2>6 DEF CalibratorInv, Past
    <3>1. CASE c = C
      BY <2>2, <2>4, <3>1
    <3>2. CASE c # C
      <4>1. Sound(c, calibrator[c]) /\ (calibrator[c].frozen \/ (~Stored(c) /\ Past(calibrator[c])))
        BY <2>4, <3>2 DEF BaselineInv, CalibratorInv
      <4>2. calibrator[c].events \subseteq Nat
        BY <2>4, <3>2 DEF TypeInv, Calibrators
      <4>3. Past(calibrator[c]) => \A p \in calibrator[c].events : p <= Taken + 1
        BY <2>1, <2>3, <4>2 DEF Past
      <4> QED
        BY <2>4, <3>2, <4>1, <4>3
    <3> QED
      BY <3>1, <3>2
  <2>8. FileInv'
    BY <2>1, <2>5, <2>6 DEF BaselineInv, FileInv, BaselinePath
  <2>9. HandInv'
    BY <2>1, <2>2, <2>3, <2>4, <2>5, <2>6 DEF HandInv
  <2>10. FannedInv'
    BY <2>1, <2>5 DEF BaselineInv, FannedInv
  <2> QED
    BY <2>7, <2>8, <2>9, <2>10 DEF BaselineInv
<1>3. CASE OpenFile
  <2>1. /\ apc = "updated" /\ apc' = "opened" /\ UNCHANGED <<stream, queue, calibrator, fanned>>
        /\ file' = [file EXCEPT ![BaselinePath(C)] = Torn]
    BY <1>3 DEF OpenFile
  <2>2. C \in Components /\ Component' = C /\ Taken' = Taken /\ Taken \in Nat
    BY <1>0, <2>1, SameHand DEF TypeInv, Places, QueueInv
  <2> HIDE DEF C
  <2>3. \A c \in Components : Stored(c)' => Stored(c) /\ file'[BaselinePath(c)] = file[BaselinePath(c)]
    BY <1>0, <2>1, <2>2 DEF Stored, TypeInv
  <2>4. \A c \in Components : c = C => ~Stored(c)'
    BY <1>0, <2>1, <2>2 DEF Stored, TypeInv
  <2>5. \A c, cal : Sound(c, cal)' <=> Sound(c, cal)
    BY <2>1 DEF Sound
  <2>6. CalibratorInv'
    BY <2>1, <2>2, <2>3, <2>5 DEF BaselineInv, CalibratorInv, Past
  <2>7. FileInv'
    BY <1>0, <2>1, <2>3, <2>5 DEF BaselineInv, FileInv
  <2>8. HandInv'
    BY <2>1, <2>2, <2>4, <2>5 DEF BaselineInv, HandInv, C
  <2>9. FannedInv'
    BY <2>1, <2>5 DEF BaselineInv, FannedInv
  <2> QED
    BY <2>6, <2>7, <2>8, <2>9 DEF BaselineInv
<1>4. CASE WriteFile
  <2>1. /\ apc = "opened" /\ apc' = "saved" /\ UNCHANGED <<stream, queue, calibrator, fanned>>
        /\ file' = [file EXCEPT ![BaselinePath(C)] = calibrator[C].events]
    BY <1>4 DEF WriteFile
  <2>2. C \in Components /\ Component' = C /\ Taken' = Taken /\ Taken \in Nat
    BY <1>0, <2>1, SameHand DEF TypeInv, Places, QueueInv
  <2>3. Sound(C, calibrator[C]) /\ calibrator[C].frozen
    BY <2>1 DEF BaselineInv, HandInv
  <2>4. calibrator[C] \in Calibrators
    BY <1>0, <2>1
  <2> HIDE DEF C
  <2>5. file'[BaselinePath(C)] = calibrator[C].events
    BY <1>0, <2>1, <2>2 DEF TypeInv
  <2>6. \A c \in Components : c # C => file'[BaselinePath(c)] = file[BaselinePath(c)]
    BY <1>0, <2>1, <2>2 DEF TypeInv, OwnFiles, BaselinePath
  <2>7. \A c \in Components : c # C => (Stored(c)' <=> Stored(c))
    BY <1>0, <2>6 DEF Stored
  <2>8. \A c, cal : Sound(c, cal)' <=> Sound(c, cal)
    BY <2>1 DEF Sound
  <2>9. CalibratorInv'
    BY <2>1, <2>2, <2>3, <2>7, <2>8 DEF BaselineInv, CalibratorInv, Past
  <2>10. FileInv'
    <3> SUFFICES ASSUME NEW c \in Components, Stored(c)'
                 PROVE  Sound(c, Calibrator(file'[BaselinePath(c)], TRUE))
      BY <1>0, <2>8 DEF FileInv, Calibrator, Sound
    <3>1. CASE c = C
      BY <2>3, <2>5, <3>1 DEF Sound, Calibrator
    <3>2. CASE c # C
      BY <2>6, <2>7, <3>2 DEF BaselineInv, FileInv
    <3> QED
      BY <3>1, <3>2
  <2>11. HandInv'
    BY <2>1, <2>2, <2>3, <2>8 DEF HandInv
  <2>12. FannedInv'
    BY <2>1, <2>8 DEF BaselineInv, FannedInv
  <2> QED
    BY <2>9, <2>10, <2>11, <2>12 DEF BaselineInv
<1>5. CASE SaveFails \/ Push
  <2>1. /\ apc # "idle" /\ apc' \in {"saved", "processed"}
        /\ UNCHANGED <<stream, queue, calibrator, file, fanned>>
    BY <1>5 DEF SaveFails, Push
  <2>2. Component' = Component /\ Taken' = Taken
    BY <1>0, <2>1, SameHand DEF TypeInv, Places
  <2> QED
    BY <2>1, <2>2, BaselineStays
<1>6. CASE Withhold \/ Ack
  <2>1. /\ apc # "idle" /\ apc' = "idle" /\ queue' = Tail(queue)
        /\ UNCHANGED <<stream, calibrator, file, fanned>>
    BY <1>6 DEF Withhold, Ack
  <2>2. Taken' = Taken + 1
    BY <1>0, <2>1, DoneFacts DEF TypeInv
  <2> QED
    BY <2>1, <2>2, BaselineStays
<1>7. CASE FanOut
  <2>1. /\ apc = "processed" /\ apc' = "fanned" /\ fanned' = Append(fanned, Enriched)
        /\ calibrator[C].frozen /\ UNCHANGED <<stream, queue, calibrator, file>>
    BY <1>7 DEF FanOut
  <2>2. C \in Components /\ Component' = C /\ Taken' = Taken /\ Current \in DOMAIN stream
    BY <1>0, <2>1, InHand, SameHand DEF TypeInv, Places
  <2>3. Sound(C, calibrator[C])
    BY <2>1 DEF BaselineInv, HandInv
  <2>4. \A c, cal : Sound(c, cal)' <=> Sound(c, cal)
    BY <2>1 DEF Sound
  <2>5. \A c : Stored(c)' <=> Stored(c)
    BY <2>1 DEF Stored, BaselinePath
  <2>6. CalibratorInv'
    BY <2>1, <2>2, <2>4, <2>5 DEF BaselineInv, CalibratorInv, Past
  <2>7. FileInv'
    BY <2>1, <2>4, <2>5 DEF BaselineInv, FileInv, BaselinePath
  <2>8. HandInv'
    BY <2>1, <2>2, <2>4, <2>5 DEF BaselineInv, HandInv
  <2>9. Enriched \in Publications
    <3>1. fanned' \in Seq(Publications) /\ fanned \in Seq(Publications)
      BY DEF TypeInv
    <3>2. Key \in Keys /\ Current \in Nat
      BY <1>0, <2>1, InHand DEF TypeInv, QueueInv
    <3>3. WindowSize \in Nat \ {0} /\ window[Key] \in Seq(Nat)
      BY <3>2, WindowFitsDeque DEF TypeInv
    <3>4. Latest(window[Key], WindowSize) \in Seq(Nat)
      BY <3>3, LatestFacts
    <3>5. calibrator[C].events \in SUBSET Nat
      BY <1>0, <2>1 DEF Calibrators
    <3> QED
      BY <3>2, <3>4, <3>5 DEF Enriched, Publications
  <2>10. FannedInv'
    <3>1. /\ DOMAIN fanned' = 1..Len(fanned) + 1 /\ DOMAIN fanned = 1..Len(fanned) /\ Len(fanned) \in Nat
          /\ fanned'[Len(fanned) + 1] = Enriched
          /\ \A i \in 1..Len(fanned) : fanned'[i] = fanned[i]
      BY <2>1, <2>9, AppendFacts DEF TypeInv
    <3>2. /\ Enriched.event = Current /\ Enriched.baseline = calibrator[C].events
          /\ stream[Current].component = C
      BY DEF Enriched, Component
    <3>3. Sound(C, Calibrator(calibrator[C].events, TRUE))
      BY <2>1, <2>3 DEF Sound, Calibrator
    <3> SUFFICES ASSUME NEW i \in 1..Len(fanned) + 1
                 PROVE  /\ fanned'[i].event \in DOMAIN stream
                        /\ Sound(stream[fanned'[i].event].component, Calibrator(fanned'[i].baseline, TRUE))
      BY <2>1, <2>4, <3>1 DEF FannedInv, Calibrator
    <3>4. CASE i = Len(fanned) + 1
      BY <2>2, <3>1, <3>2, <3>3, <3>4
    <3>5. CASE i \in 1..Len(fanned)
      BY <3>1, <3>5 DEF BaselineInv, FannedInv
    <3>6. i = Len(fanned) + 1 \/ i \in 1..Len(fanned)
      BY <3>1
    <3> QED
      BY <3>4, <3>5, <3>6
  <2> QED
    BY <2>6, <2>7, <2>8, <2>10 DEF BaselineInv
<1>8. CASE FanOutFails
  <2>1. /\ apc = "processed" /\ apc' = "idle" /\ calibrator[C].frozen
        /\ UNCHANGED <<stream, queue, calibrator, file, fanned>>
    BY <1>8 DEF FanOutFails, Refuse
  <2>2. Taken' = Taken /\ Current = Taken + 1
    BY <1>0, <2>1, InHand, SameHand DEF TypeInv, Places
  <2>3. ASSUME NEW c \in Components, NEW p \in Nat, stream[p].component = c, ~calibrator[c].frozen,
               p <= Taken + 1
        PROVE  p <= Taken
    <3>1. p # Current
      BY <2>1, <2>3 DEF Component
    <3> QED
      BY <1>0, <2>2, <2>3, <3>1
  <2> QED
    BY <2>1, <2>2, <2>3, BaselineStays
<1>9. CASE Crash
  <2>1. /\ apc' = "idle" /\ UNCHANGED <<stream, queue, file, fanned>>
        /\ calibrator' = [c \in Components |-> None]
    BY <1>9 DEF Crash
  <2>2. \A c, cal : Sound(c, cal)' <=> Sound(c, cal)
    BY <2>1 DEF Sound
  <2>3. \A c : Stored(c)' <=> Stored(c)
    BY <2>1 DEF Stored, BaselinePath
  <2>4. CalibratorInv' /\ HandInv'
    BY <2>1 DEF CalibratorInv, HandInv
  <2>5. FileInv'
    BY <2>1, <2>2, <2>3 DEF BaselineInv, FileInv, BaselinePath
  <2>6. FannedInv'
    BY <2>1, <2>2 DEF BaselineInv, FannedInv
  <2> QED
    BY <2>4, <2>5, <2>6 DEF BaselineInv
<1>10. CASE UNCHANGED vars
  <2>1. UNCHANGED <<stream, queue, calibrator, apc, file, fanned>>
    BY <1>10 DEF vars
  <2>2. Component' = Component /\ Taken' = Taken
    BY <2>1 DEF Component, Current, Taken
  <2> QED
    BY <2>1, <2>2, BaselineStays
<1> QED
  BY <1>1, <1>2, <1>3, <1>4, <1>5, <1>6, <1>7, <1>8, <1>9, <1>10 DEF Next, Work

LEMMA TypeAlways == Spec => []TypeInv
<1>1. Init => TypeInv
  BY TypeInit
<1>2. TypeInv /\ [Next]_vars => TypeInv'
  BY TypeStep
<1> QED
  BY <1>1, <1>2, PTL DEF Spec

LEMMA BaselineAlways == ASSUME OwnFiles PROVE Spec => []BaselineInv
<1>1. Init => BaselineInv
  BY BaselineInit
<1>2. TypeInv /\ TypeInv' /\ BaselineInv /\ [Next]_vars => BaselineInv'
  BY BaselineStep
<1> QED
  BY <1>1, <1>2, TypeAlways, PTL DEF Spec

\* Whatever is requeued, redelivered or restored from a file: an event is
\* scored against exactly CalibrationN different events of its own component.
THEOREM ExactBaselines == ASSUME OwnFiles PROVE Spec => []BaselineIsExact
<1>1. BaselineInv => BaselineIsExact
  BY DEF BaselineInv, FannedInv, Sound, Calibrator, BaselineIsExact, Exact
<1> QED
  BY <1>1, BaselineAlways, PTL

\* A complete baseline file is never emptied or replaced, and no event of a
\* component that has one is withheld: calibration survives a restart.
THEOREM BaselinesSurvive == ASSUME OwnFiles PROVE Spec => BaselineSurvives
<1> DEFINE Kept == /\ \A f \in Files : file[f] \notin {None, Torn} => file'[f] = file[f]
                   /\ withheld' # withheld => file[BaselinePath(Component)] \in {None, Torn}
<1>1. TypeInv /\ BaselineInv /\ [Next]_vars => [Kept]_vars
  <2> SUFFICES ASSUME TypeInv, BaselineInv, Next PROVE Kept
    BY DEF vars
  <2>1. CASE OpenFile \/ WriteFile
    <3>1. /\ apc \in {"updated", "opened"} /\ withheld' = withheld
          /\ \E x : file' = [file EXCEPT ![BaselinePath(Component)] = x]
      BY <2>1 DEF OpenFile, WriteFile
    <3>2. file[BaselinePath(Component)] \in {None, Torn}
      BY <3>1 DEF BaselineInv, HandInv, Stored
    <3>3. ASSUME NEW f \in Files, file[f] \notin {None, Torn} PROVE file'[f] = file[f]
      BY <3>1, <3>2, <3>3 DEF TypeInv
    <3> QED
      BY <3>1, <3>3
  <2>2. CASE Withhold
    <3>1. file' = file /\ apc # "idle" /\ ~calibrator[Component].frozen
      BY <2>2 DEF Withhold
    <3>2. file[BaselinePath(Component)] \in {None, Torn}
      BY <3>1 DEF BaselineInv, HandInv, Stored
    <3> QED
      BY <3>1, <3>2
  <2>3. CASE \/ Update \/ SaveFails \/ Push \/ FanOut \/ Ack \/ FanOutFails \/ Crash
             \/ \E e \in Arrivals : Arrive(e)
    <3>1. file' = file /\ withheld' = withheld
      BY <2>3 DEF Update, SaveFails, Push, FanOut, Ack, FanOutFails, Refuse, Crash, Arrive
    <3> QED
      BY <3>1
  <2> QED
    BY <2>1, <2>2, <2>3 DEF Next, Work
<1> QED
  BY <1>1, TypeAlways, BaselineAlways, PTL DEF Spec, BaselineSurvives

-----------------------------------------------------------------------------
(* Windows                                                                 *)

Newest(w) == w[Len(w)]

\* Unbroken for a sequence that is not empty, with the order of any two.
Run(w, k) ==
  /\ \A i, j \in DOMAIN w : i <= j => w[i] <= w[j]
  /\ Occurring(w) = Own(k, w[1], Newest(w))

LEMMA RunIsUnbroken ==
  ASSUME NEW w \in Seq(Nat), NEW k, w # <<>> => Run(w, k)
  PROVE  Unbroken(w, k)
<1>1. Len(w) \in Nat /\ DOMAIN w = 1..Len(w) /\ (Len(w) = 0 <=> w = <<>>)
  BY LenProperties, EmptySeq
<1>2. ASSUME NEW i \in 1..(Len(w) - 1) PROVE w[i] <= w[i + 1]
  <2>1. i \in DOMAIN w /\ i + 1 \in DOMAIN w /\ i <= i + 1 /\ w # <<>>
    BY <1>1
  <2> QED
    BY <2>1 DEF Run
<1> QED
  BY <1>2 DEF Unbroken, Run, Newest

\* What a run that is not empty is made of.
LEMMA RunFacts ==
  ASSUME NEW w \in Seq(Nat), NEW k, w # <<>>, Run(w, k)
  PROVE  /\ Len(w) \in Nat \ {0} /\ DOMAIN w = 1..Len(w)
         /\ w[1] \in Nat /\ Newest(w) \in Nat /\ w[1] <= Newest(w)
         /\ w[1] \in Occurring(w) /\ Newest(w) \in Occurring(w)
         /\ \A p \in Occurring(w) : p \in DOMAIN stream /\ w[1] <= p /\ p <= Newest(w)
         /\ IsFiniteSet(Occurring(w))
<1>1. Len(w) \in Nat \ {0} /\ DOMAIN w = 1..Len(w)
  BY LenProperties, EmptySeq
<1>2. 1 \in DOMAIN w /\ Len(w) \in DOMAIN w /\ 1 <= Len(w)
  BY <1>1
<1>3. w[1] \in Nat /\ Newest(w) \in Nat
  BY <1>1, <1>2, ElementOfSeq DEF Newest
<1>4. w[1] \in Occurring(w) /\ Newest(w) \in Occurring(w) /\ w[1] <= Newest(w)
  BY <1>2 DEF Occurring, Newest, Run
<1>5. Occurring(w) = Own(k, w[1], Newest(w))
  BY DEF Run
<1>6. \A p \in Own(k, w[1], Newest(w)) : p \in w[1]..Newest(w) /\ p \in DOMAIN stream
  BY DEF Own
<1>7. IsFiniteSet(Occurring(w))
  <2>1. IsFiniteSet(w[1]..Newest(w))
    <3>1. w[1] \in Int /\ Newest(w) \in Int
      BY <1>3
    <3>2. \A a, b \in Int : IsFiniteSet(a..b)
      BY FS_Interval
    <3> QED
      BY <3>1, <3>2
  <2>2. Occurring(w) \in SUBSET (w[1]..Newest(w))
    BY <1>5, <1>6
  <2> QED
    BY <2>1, <2>2, FS_Subset
<1> QED
  BY <1>1, <1>3, <1>4, <1>5, <1>6, <1>7

\* The next event of k, or the latest one again, extends a run of k.
LEMMA RunExtends ==
  ASSUME NEW w \in Seq(Nat), NEW k, NEW p \in Nat, p \in DOMAIN stream, WindowKey(stream[p]) = k,
         w # <<>>, Run(w, k), Newest(w) <= p, Own(k, Newest(w) + 1, p - 1) = {}
  PROVE  LET w1 == Append(w, p) IN
         /\ w1 \in Seq(Nat) /\ w1 # <<>> /\ Len(w1) = Len(w) + 1
         /\ Run(w1, k) /\ Newest(w1) = p /\ w1[1] = w[1]
         /\ Occurring(w1) = Occurring(w) \union {p}
<1> DEFINE w1 == Append(w, p)
<1>1. /\ Len(w) \in Nat \ {0} /\ DOMAIN w = 1..Len(w)
      /\ w[1] \in Nat /\ Newest(w) \in Nat /\ w[1] <= Newest(w)
      /\ \A q \in Occurring(w) : q <= Newest(w)
      /\ Occurring(w) = Own(k, w[1], Newest(w))
  BY RunFacts DEF Run
<1>2. /\ w1 \in Seq(Nat) /\ w1 # <<>> /\ Len(w1) = Len(w) + 1 /\ DOMAIN w1 = 1..Len(w) + 1
      /\ w1[Len(w) + 1] = p /\ \A i \in 1..Len(w) : w1[i] = w[i]
  BY AppendFacts
<1> HIDE DEF w1
<1>3. Newest(w1) = p /\ w1[1] = w[1]
  BY <1>1, <1>2 DEF Newest
<1>4. Occurring(w1) = Occurring(w) \union {p}
  <2>1. ASSUME NEW i \in 1..Len(w) + 1 PROVE w1[i] \in Occurring(w) \union {p}
    <3>1. i \in 1..Len(w) \/ i = Len(w) + 1
      BY <1>1
    <3> QED
      BY <1>1, <1>2, <3>1 DEF Occurring
  <2>2. Occurring(w) \subseteq Occurring(w1)
    <3>1. \A i \in 1..Len(w) : i \in 1..Len(w) + 1 /\ w1[i] = w[i]
      BY <1>1, <1>2
    <3> QED
      BY <1>1, <1>2, <3>1 DEF Occurring
  <2>3. p \in Occurring(w1)
    <3>1. Len(w) + 1 \in 1..Len(w) + 1
      BY <1>1
    <3> QED
      BY <1>2, <3>1 DEF Occurring
  <2>4. Occurring(w1) \subseteq Occurring(w) \union {p}
    BY <1>2, <2>1 DEF Occurring
  <2> QED
    BY <2>2, <2>3, <2>4
<1>5. ASSUME NEW i \in DOMAIN w1, NEW j \in DOMAIN w1, i <= j PROVE w1[i] <= w1[j]
  <2>1. CASE j \in 1..Len(w)
    <3>1. i \in 1..Len(w)
      BY <1>1, <1>2, <1>5, <2>1
    <3> QED
      BY <1>1, <1>2, <1>5, <2>1, <3>1 DEF Run
  <2>2. CASE j = Len(w) + 1 /\ i = j
    BY <1>2, <2>2
  <2>3. CASE j = Len(w) + 1 /\ i \in 1..Len(w)
    <3>1. w1[i] \in Occurring(w) /\ w1[i] \in Nat
      BY <1>1, <1>2, <2>3, ElementOfSeq DEF Occurring
    <3>2. w1[i] <= Newest(w) /\ w1[j] = p
      BY <1>1, <1>2, <2>3, <3>1
    <3> QED
      BY <1>1, <3>1, <3>2
  <2> QED
    BY <1>1, <1>2, <1>5, <2>1, <2>2, <2>3
<1>6. Own(k, w[1], p) = Occurring(w) \union {p}
  <2>1. ASSUME NEW q \in Own(k, w[1], p) PROVE q \in Occurring(w) \union {p}
    <3>1. q \in w[1]..p /\ q \in DOMAIN stream /\ WindowKey(stream[q]) = k
      BY DEF Own
    <3>2. CASE q <= Newest(w)
      BY <1>1, <3>1, <3>2 DEF Own
    <3>3. CASE ~(q <= Newest(w)) /\ q # p
      <4>1. q \in (Newest(w) + 1)..(p - 1)
        BY <1>1, <3>1, <3>3
      <4> QED
        BY <3>1, <4>1 DEF Own
    <3> QED
      BY <3>2, <3>3
  <2>2. ASSUME NEW q \in Occurring(w) PROVE q \in Own(k, w[1], p)
    <3>1. q \in w[1]..Newest(w) /\ q \in DOMAIN stream /\ WindowKey(stream[q]) = k
      BY <1>1 DEF Own
    <3>2. q \in w[1]..p
      BY <1>1, <3>1
    <3> QED
      BY <3>1, <3>2 DEF Own
  <2>3. p \in Own(k, w[1], p)
    <3>1. p \in w[1]..p
      BY <1>1
    <3> QED
      BY <3>1 DEF Own
  <2> QED
    BY <2>1, <2>2, <2>3
<1>7. Run(w1, k)
  BY <1>3, <1>4, <1>5, <1>6 DEF Run
<1> QED
  BY <1>2, <1>3, <1>4, <1>7 DEF w1

\* The end of a run is a run.
LEMMA RunSuffix ==
  ASSUME NEW w \in Seq(Nat), NEW k, NEW n \in Nat \ {0}, w # <<>>, Run(w, k)
  PROVE  LET r == Latest(w, n) IN
         /\ r \in Seq(Nat) /\ r # <<>>
         /\ Run(r, k) /\ Newest(r) = Newest(w) /\ w[1] <= r[1]
<1> DEFINE r == Latest(w, n)
           cut == Len(w) - Len(r)
<1>1. /\ Len(w) \in Nat \ {0} /\ DOMAIN w = 1..Len(w)
      /\ w[1] \in Nat /\ Newest(w) \in Nat
      /\ \A p \in Occurring(w) : w[1] <= p /\ p <= Newest(w)
      /\ Occurring(w) = Own(k, w[1], Newest(w))
  BY RunFacts DEF Run
<1>2. /\ r \in Seq(Nat) /\ Len(r) = IF Len(w) > n THEN n ELSE Len(w)
      /\ \A i \in 1..Len(r) : r[i] = w[i + Len(w) - Len(r)]
  BY LatestFacts
<1> HIDE DEF r
<1>3. Len(r) \in Nat \ {0} /\ DOMAIN r = 1..Len(r) /\ r # <<>> /\ cut \in Nat
  BY <1>1, <1>2, LenProperties, EmptySeq
<1>4. \A i \in 1..Len(r) : i + cut \in 1..Len(w) /\ r[i] = w[i + cut]
  <2> SUFFICES ASSUME NEW i \in 1..Len(r) PROVE i + cut \in 1..Len(w) /\ r[i] = w[i + cut]
    OBVIOUS
  <2>1. i + Len(w) - Len(r) = i + cut /\ i + cut \in 1..Len(w)
    BY <1>1, <1>3
  <2> QED
    BY <1>2, <2>1
<1> HIDE DEF cut
<1>5. Len(w) = Len(r) + cut
  BY <1>1, <1>3 DEF cut
<1>6. Newest(r) = Newest(w)
  <2>1. Len(r) \in 1..Len(r)
    BY <1>3
  <2> QED
    BY <1>4, <1>5, <2>1 DEF Newest
<1>7. 1 \in 1..Len(r) /\ r[1] = w[1 + cut] /\ 1 + cut \in 1..Len(w) /\ r[1] \in Nat
  <2>1. 1 \in 1..Len(r)
    BY <1>3
  <2>2. r[1] = w[1 + cut] /\ 1 + cut \in 1..Len(w)
    BY <1>4, <2>1
  <2> QED
    BY <1>1, <2>1, <2>2, ElementOfSeq
<1>8. w[1] <= r[1]
  <2>1. 1 \in 1..Len(w) /\ 1 <= 1 + cut
    BY <1>1, <1>3
  <2> QED
    BY <1>1, <1>7, <2>1 DEF Run
<1>9. ASSUME NEW i \in DOMAIN r, NEW j \in DOMAIN r, i <= j PROVE r[i] <= r[j]
  <2>1. i + cut <= j + cut /\ i + cut \in DOMAIN w /\ j + cut \in DOMAIN w
    BY <1>1, <1>3, <1>4, <1>9
  <2> QED
    BY <1>3, <1>4, <2>1 DEF Run
<1>10. Occurring(r) = Own(k, r[1], Newest(r))
  <2>1. ASSUME NEW i \in 1..Len(r) PROVE r[i] \in Own(k, r[1], Newest(r))
    <3>1. r[i] \in Occurring(w)
      BY <1>1, <1>4 DEF Occurring
    <3>2. r[1] <= r[i] /\ r[i] <= Newest(r)
      <4>1. 1 \in DOMAIN r /\ i \in DOMAIN r /\ Len(r) \in DOMAIN r /\ 1 <= i /\ i <= Len(r)
        BY <1>3, <1>7
      <4> QED
        BY <1>9, <4>1 DEF Newest
    <3>3. r[i] \in w[1]..Newest(w) /\ r[i] \in DOMAIN stream /\ WindowKey(stream[r[i]]) = k
      BY <1>1, <3>1 DEF Own
    <3>4. r[i] \in r[1]..Newest(r)
      BY <1>1, <1>6, <1>7, <3>2, <3>3
    <3> QED
      BY <3>3, <3>4 DEF Own
  <2>2. ASSUME NEW p \in Own(k, r[1], Newest(r)) PROVE p \in Occurring(r)
    <3>1. p \in r[1]..Newest(r) /\ p \in DOMAIN stream /\ WindowKey(stream[p]) = k
      BY DEF Own
    <3>2. p \in w[1]..Newest(w)
      BY <1>1, <1>6, <1>7, <1>8, <3>1
    <3>3. p \in Occurring(w)
      BY <1>1, <3>1, <3>2 DEF Own
    <3>4. PICK i \in 1..Len(w) : p = w[i]
      BY <1>1, <3>3 DEF Occurring
    <3>5. CASE i > cut
      <4>1. i - cut \in 1..Len(r) /\ i = (i - cut) + cut
        BY <1>1, <1>3, <1>5, <3>5
      <4>2. r[i - cut] = p
        BY <1>4, <3>4, <4>1
      <4> QED
        BY <1>3, <4>1, <4>2 DEF Occurring
    <3>6. CASE i <= cut
      <4>1. w[i] <= w[1 + cut]
        <5>1. i <= 1 + cut
          BY <1>1, <1>3, <3>6
        <5> QED
          BY <1>1, <1>7, <5>1 DEF Run
      <4>2. p = r[1]
        BY <1>1, <1>7, <3>1, <3>4, <4>1
      <4> QED
        BY <1>3, <1>7, <4>2 DEF Occurring
    <3> QED
      BY <1>1, <1>3, <3>5, <3>6
  <2> QED
    BY <1>3, <2>1, <2>2 DEF Occurring
<1>11. Run(r, k)
  BY <1>9, <1>10 DEF Run
<1> QED
  BY <1>2, <1>3, <1>6, <1>8, <1>11 DEF r

\* How far the windows have come: the event in hand enters its window before it
\* is published.
Known == IF apc \in {"processed", "fanned"} THEN Taken + 1 ELSE Taken

\* The event in hand was refused and will enter the window w again.
Retried(w) == IF apc \notin {"processed", "fanned"} /\ Newest(w) = Taken + 1 THEN 1 ELSE 0

\* What the window w of k is, when it is not empty.
Explained(w, k) ==
  /\ Run(w, k)
  /\ since <= w[1] /\ Newest(w) <= Taken + 1
  /\ Own(k, Newest(w) + 1, Known) = {}
  /\ Len(w) < DequeSize => Own(k, since, w[1]) = {w[1]}
  /\ Len(w) + Retried(w) <= Cardinality(Occurring(w)) + refused

WindowInv ==
  /\ since <= Taken + 1
  /\ \A k \in Keys :
       /\ Len(window[k]) <= DequeSize
       /\ IF window[k] = <<>> THEN Own(k, since, Known) = {} ELSE Explained(window[k], k)
  /\ apc \in {"processed", "fanned"} => window[Key] # <<>> /\ Newest(window[Key]) = Current

\* The event in hand enters its window.
LEMMA PushExplained ==
  ASSUME TypeInv, WindowInv, Push, Taken' = Taken, UNCHANGED <<stream, since, refused>>,
         NEW k \in Keys, k = Key, Current = Taken + 1, Current \in DOMAIN stream,
         window'[k] = Latest(Append(window[k], Current), DequeSize)
  PROVE  /\ window'[k] # <<>> /\ Newest(window'[k]) = Current
         /\ Len(window'[k]) <= DequeSize
         /\ Explained(window[k], k)'
<1> DEFINE w  == window[k]
           p  == Current
           w1 == Append(w, p)
           r  == Latest(w1, DequeSize)
<1>1. /\ w \in Seq(Nat) /\ p \in Nat /\ Taken \in Nat /\ p = Taken + 1 /\ p \in DOMAIN stream
      /\ WindowKey(stream[p]) = k /\ DequeSize \in Nat \ {0} /\ since \in Nat /\ since <= Taken + 1
      /\ refused \in Nat
  BY WindowFitsDeque DEF TypeInv, QueueInv, WindowInv, Key
<1>2. apc = "saved" /\ apc' = "processed" /\ window'[k] = r
  BY DEF Push
<1>3. Known = Taken /\ Known' = Taken + 1
  BY <1>2 DEF Known
<1>4. \A a, b : Own(k, a, b)' = Own(k, a, b)
  BY DEF Own
<1>5. /\ w1 \in Seq(Nat) /\ w1 # <<>> /\ Len(w1) = Len(w) + 1 /\ Len(w) \in Nat
      /\ w1[Len(w) + 1] = p /\ Len(w) <= DequeSize
  BY <1>1, AppendFacts DEF WindowInv
<1> HIDE DEF p
<1>6. /\ Run(w1, k) /\ Newest(w1) = p /\ since <= w1[1]
      /\ Len(w1) <= Cardinality(Occurring(w1)) + refused
      /\ Len(w1) <= DequeSize => Own(k, since, w1[1]) = {w1[1]}
  <2>1. CASE w = <<>>
    <3>1. w1 = <<p>>
      BY <2>1
    <3>2. Own(k, since, Taken) = {}
      BY <1>3, <2>1 DEF WindowInv
    <3>3. Own(k, since, p) = {p} /\ Own(k, p, p) = {p}
      <4>1. p \in Own(k, since, p) /\ p \in Own(k, p, p)
        BY <1>1 DEF Own
      <4>2. ASSUME NEW q \in Own(k, since, p) PROVE q = p
        <5>1. q \in since..p /\ q \in DOMAIN stream /\ WindowKey(stream[q]) = k
          BY DEF Own
        <5>2. q # p => q \in since..Taken
          BY <1>1, <5>1
        <5> QED
          BY <3>2, <5>1, <5>2 DEF Own
      <4>3. Own(k, p, p) \subseteq {p}
        BY <1>1 DEF Own
      <4> QED
        BY <4>1, <4>2, <4>3
    <3>4. Len(w1) = 1 /\ w1[1] = p /\ Newest(w1) = p /\ DOMAIN w1 = {1}
      BY <3>1 DEF Newest
    <3> HIDE DEF w, w1
    <3>5. Occurring(w1) = {p} /\ Cardinality({p}) = 1
      <4>1. Occurring(w1) = {p}
        BY <3>4 DEF Occurring
      <4>2. Cardinality({p}) = 1
        BY FS_Singleton
      <4> QED
        BY <4>1, <4>2
    <3>6. Run(w1, k)
      BY <1>1, <3>3, <3>4, <3>5 DEF Run
    <3> QED
      BY <1>1, <3>3, <3>4, <3>5, <3>6
  <2>2. CASE w # <<>>
    <3>1. Explained(w, k)
      BY <2>2 DEF WindowInv
    <3>2. /\ Run(w, k) /\ Newest(w) <= p /\ since <= w[1]
          /\ Own(k, Newest(w) + 1, p - 1) = {}
      <4>1. p - 1 = Taken
        BY <1>1
      <4> QED
        BY <1>1, <1>3, <3>1, <4>1 DEF Explained
    <3>3. /\ Run(w1, k) /\ Newest(w1) = p /\ w1[1] = w[1]
          /\ Occurring(w1) = Occurring(w) \union {p}
      BY <1>1, <2>2, <3>2, RunExtends
    <3>4. /\ IsFiniteSet(Occurring(w)) /\ Newest(w) \in Nat /\ Newest(w) \in Occurring(w)
          /\ \A q \in Occurring(w) : q <= Newest(w)
      BY <1>1, <2>2, <3>2, RunFacts
    <3>5. /\ Cardinality(Occurring(w)) \in Nat
          /\ Cardinality(Occurring(w1)) =
               IF p \in Occurring(w) THEN Cardinality(Occurring(w)) ELSE Cardinality(Occurring(w)) + 1
      BY <3>3, <3>4, FS_AddElement, FS_CardinalityType
    <3>6. Len(w) + Retried(w) <= Cardinality(Occurring(w)) + refused
      BY <3>1 DEF Explained
    <3>7. p \in Occurring(w) => Retried(w) = 1
      BY <1>1, <1>2, <3>2, <3>4 DEF Retried
    <3>8. Retried(w) \in {0, 1}
      BY DEF Retried
    <3>9. Len(w1) <= Cardinality(Occurring(w1)) + refused
      <4> HIDE DEF w, w1
      <4> QED
        BY <1>1, <1>5, <3>5, <3>6, <3>7, <3>8
    <3>10. Len(w1) <= DequeSize => Own(k, since, w1[1]) = {w1[1]}
      BY <1>1, <1>5, <3>1, <3>3 DEF Explained
    <3> QED
      BY <3>2, <3>3, <3>9, <3>10
  <2> QED
    BY <2>1, <2>2
<1> HIDE DEF w, w1
<1>7. /\ r \in Seq(Nat) /\ r # <<>> /\ Run(r, k) /\ Newest(r) = p /\ w1[1] <= r[1]
  BY <1>1, <1>5, <1>6, RunSuffix
<1>8. /\ Len(r) = IF Len(w1) > DequeSize THEN DequeSize ELSE Len(w1)
      /\ \A i \in 1..Len(r) : r[i] = w1[i + Len(w1) - Len(r)]
  BY <1>1, <1>5, LatestFacts
<1> HIDE DEF r
<1>9. Len(w1) > DequeSize =>
        /\ Len(r) = DequeSize /\ Len(w1) = Len(r) + 1
        /\ Occurring(w1) = Occurring(r) \union {w1[1]}
  <2> SUFFICES ASSUME Len(w1) > DequeSize
               PROVE  /\ Len(r) = DequeSize /\ Len(w1) = Len(r) + 1
                      /\ Occurring(w1) = Occurring(r) \union {w1[1]}
    OBVIOUS
  <2>1. Len(r) = DequeSize /\ Len(w1) = Len(r) + 1 /\ Len(r) \in Nat
    BY <1>1, <1>5, <1>8
  <2>2. DOMAIN w1 = 1..Len(r) + 1 /\ DOMAIN r = 1..Len(r)
    BY <1>5, <1>7, <2>1, LenProperties
  <2>3. \A i \in 1..Len(r) : r[i] = w1[i + 1]
    <3> SUFFICES ASSUME NEW i \in 1..Len(r) PROVE r[i] = w1[i + 1]
      OBVIOUS
    <3>1. i + Len(w1) - Len(r) = i + 1
      BY <2>1
    <3> QED
      BY <1>8, <3>1
  <2>4. ASSUME NEW i \in 1..Len(r) + 1 PROVE w1[i] \in Occurring(r) \union {w1[1]}
    <3>1. i # 1 => i - 1 \in 1..Len(r) /\ (i - 1) + 1 = i
      BY <2>1
    <3>2. i # 1 => w1[i] = r[i - 1]
      BY <2>3, <3>1
    <3> QED
      BY <2>2, <3>1, <3>2 DEF Occurring
  <2>5. ASSUME NEW i \in 1..Len(r) PROVE r[i] \in Occurring(w1)
    <3>1. i + 1 \in 1..Len(r) + 1
      BY <2>1
    <3> QED
      BY <2>2, <2>3, <3>1 DEF Occurring
  <2>6. w1[1] \in Occurring(w1)
    <3>1. 1 \in 1..Len(r) + 1
      BY <2>1
    <3> QED
      BY <2>2, <3>1 DEF Occurring
  <2>7. Occurring(w1) \subseteq Occurring(r) \union {w1[1]}
    BY <2>2, <2>4 DEF Occurring
  <2>8. Occurring(r) \subseteq Occurring(w1)
    BY <2>2, <2>5 DEF Occurring
  <2> QED
    BY <2>1, <2>6, <2>7, <2>8
<1>10. ~(Len(w1) > DequeSize) => r = w1
  <2> SUFFICES ASSUME ~(Len(w1) > DequeSize) PROVE r = w1
    OBVIOUS
  <2>1. Len(r) = Len(w1) /\ Len(w1) \in Nat
    BY <1>1, <1>5, <1>8
  <2>2. \A i \in 1..Len(r) : r[i] = w1[i]
    <3> SUFFICES ASSUME NEW i \in 1..Len(r) PROVE r[i] = w1[i]
      OBVIOUS
    <3>1. i + Len(w1) - Len(r) = i
      BY <2>1
    <3> QED
      BY <1>8, <3>1
  <2> QED
    BY <1>5, <1>7, <2>1, <2>2, SeqEqual
<1>11. Len(r) <= Cardinality(Occurring(r)) + refused
  <2>1. IsFiniteSet(Occurring(r))
    BY <1>7, RunFacts
  <2>2. /\ Cardinality(Occurring(r)) \in Nat
        /\ Cardinality(Occurring(r) \union {w1[1]}) <= Cardinality(Occurring(r)) + 1
    <3>1. Cardinality(Occurring(r)) \in Nat
      BY <2>1, FS_CardinalityType
    <3>2. Cardinality(Occurring(r) \union {w1[1]}) =
            IF w1[1] \in Occurring(r) THEN Cardinality(Occurring(r)) ELSE Cardinality(Occurring(r)) + 1
      BY <2>1, FS_AddElement
    <3> QED
      BY <3>1, <3>2
  <2>3. CASE Len(w1) > DequeSize
    <3>1. Len(r) + 1 <= Cardinality(Occurring(r) \union {w1[1]}) + refused
      BY <1>6, <1>9, <2>3
    <3>2. Len(r) \in Nat /\ Cardinality(Occurring(r) \union {w1[1]}) \in Nat
      BY <1>7, <2>1, LenProperties, FS_AddElement, FS_CardinalityType
    <3> QED
      BY <1>1, <2>2, <3>1, <3>2
  <2>4. CASE ~(Len(w1) > DequeSize)
    BY <1>6, <1>10, <2>4
  <2> QED
    BY <2>3, <2>4
<1>12. r[1] \in Nat /\ w1[1] \in Nat
  BY <1>5, <1>6, <1>7, RunFacts
<1>13. since <= r[1] /\ Newest(r) <= Taken + 1
  BY <1>1, <1>6, <1>7, <1>12
<1>14. Own(k, Newest(r) + 1, Taken + 1) = {}
  BY <1>1, <1>7 DEF Own
<1>15. Len(r) < DequeSize => Own(k, since, r[1]) = {r[1]}
  <2> SUFFICES ASSUME Len(r) < DequeSize PROVE Own(k, since, r[1]) = {r[1]}
    OBVIOUS
  <2>1. ~(Len(w1) > DequeSize)
    BY <1>1, <1>9
  <2>2. Len(w1) <= DequeSize /\ r = w1
    BY <1>1, <1>5, <1>10, <2>1
  <2> QED
    BY <1>6, <2>2
<1>16. Len(r) <= DequeSize
  BY <1>1, <1>5, <1>8
<1>17. Explained(window[k], k)'
  <2>1. Run(window[k], k)'
    BY <1>2, <1>4, <1>7 DEF Run, Occurring, Newest
  <2>2. Len(r) \in Nat /\ Retried(window[k])' = 0
    BY <1>2, <1>7, LenProperties DEF Retried
  <2>3. (since <= window[k][1] /\ Newest(window[k]) <= Taken + 1)'
    BY <1>2, <1>13 DEF Newest
  <2>4. (Own(k, Newest(window[k]) + 1, Known) = {})'
    BY <1>2, <1>3, <1>4, <1>14 DEF Newest
  <2>5. (Len(window[k]) < DequeSize => Own(k, since, window[k][1]) = {window[k][1]})'
    BY <1>2, <1>4, <1>15
  <2>6. (Len(window[k]) + Retried(window[k]) <= Cardinality(Occurring(window[k])) + refused)'
    <3>1. Occurring(window[k])' = Occurring(r) /\ Len(window[k])' = Len(r)
      BY <1>2 DEF Occurring
    <3>2. Len(r) + 0 = Len(r)
      BY <2>2
    <3> QED
      BY <1>11, <2>2, <3>1, <3>2
  <2> QED
    BY <2>1, <2>3, <2>4, <2>5, <2>6 DEF Explained
<1> QED
  BY <1>2, <1>7, <1>16, <1>17 DEF p, Newest

LEMMA WindowInit == ASSUME Init PROVE WindowInv
<1>1. /\ window = [k \in Keys |-> <<>>] /\ apc = "idle" /\ since = 1
      /\ stream = <<>> /\ queue = [p \in DOMAIN <<>> |-> p]
  BY DEF Init, StartedWith
<1>2. queue = <<>> /\ Taken = 0
  BY <1>1 DEF Taken
<1>3. \A k \in Keys : Own(k, since, Known) = {}
  BY <1>1 DEF Own
<1>4. \A k \in Keys : Len(window[k]) <= DequeSize
  BY <1>1, WindowFitsDeque
<1> QED
  BY <1>1, <1>2, <1>3, <1>4 DEF WindowInv

\* What the events up to the one in hand are is not changed by later ones.
LEMMA OwnStays ==
  ASSUME TypeInv, DOMAIN stream \subseteq DOMAIN stream',
         \A p \in DOMAIN stream : stream'[p] = stream[p],
         \A p \in DOMAIN stream' : p \in DOMAIN stream \/ p > Len(stream),
         NEW k, NEW a, NEW b \in Int, b <= Len(stream)
  PROVE  Own(k, a, b)' = Own(k, a, b)
<1>1. DOMAIN stream = 1..Len(stream) /\ Len(stream) \in Nat
  BY LenProperties DEF TypeInv, QueueInv
<1>2. ASSUME NEW p \in a..b, p \in DOMAIN stream' PROVE p \in DOMAIN stream
  BY <1>1, <1>2
<1> QED
  BY <1>2 DEF Own

\* A step that leaves the windows alone.
LEMMA WindowStays ==
  ASSUME TypeInv, WindowInv, UNCHANGED <<stream, window, since>>,
         Known' <= Known, Taken <= Taken', Taken' \in Nat,
         refused' \in Nat, refused <= refused',
         \A k \in Keys : window[k] # <<>> /\ Newest(window[k]) <= Taken + 1
                           => Retried(window[k])' <= Retried(window[k]) + (refused' - refused),
         apc' \in {"processed", "fanned"} => apc \in {"processed", "fanned"} /\ Key' = Key /\ Current' = Current
  PROVE  WindowInv'
<1>1. \A k, a, b : Own(k, a, b)' = Own(k, a, b)
  BY DEF Own
<1>2. Taken \in Nat /\ since \in Nat /\ refused \in Nat
  BY DEF TypeInv, QueueInv
<1>3. (since <= Taken + 1)'
  <2>1. since <= Taken + 1
    BY DEF WindowInv
  <2>2. \A x, y, z \in Nat : x <= y + 1 /\ y <= z => x <= z + 1
    OBVIOUS
  <2> QED
    BY <1>2, <2>1, <2>2, Zenon
<1>4. \A k, a : Own(k, a, Known) = {} => (Own(k, a, Known) = {})'
  <2>1. Known \in Int /\ Known' \in Int
    BY <1>2 DEF Known
  <2>2. \A a : a..Known' \subseteq a..Known
    BY <2>1
  <2> QED
    BY <2>2 DEF Own
<1>5. ASSUME NEW k \in Keys, window[k] # <<>> PROVE Explained(window[k], k)'
  <2> DEFINE w == window[k]
  <2>1. Explained(w, k) /\ w \in Seq(Nat) /\ window' = window
    BY <1>5 DEF WindowInv, TypeInv
  <2>2. Run(w, k)
    BY <2>1 DEF Explained
  <2>3. Newest(w) \in Nat /\ IsFiniteSet(Occurring(w)) /\ Len(w) \in Nat
    BY <1>5, <2>1, <2>2, RunFacts
  <2>4. Cardinality(Occurring(w)) \in Nat
    BY <2>3, FS_CardinalityType
  <2>5. Run(window[k], k)' /\ Newest(window[k])' = Newest(w) /\ Occurring(window[k])' = Occurring(w)
    BY <1>1, <2>1, <2>2 DEF Run, Newest, Occurring
  <2>6. (since <= window[k][1] /\ Newest(window[k]) <= Taken + 1)'
    BY <1>2, <2>1, <2>3, <2>5 DEF Explained
  <2>7. (Own(k, Newest(window[k]) + 1, Known) = {})'
    BY <1>4, <2>1, <2>5 DEF Explained
  <2>8. (Len(window[k]) < DequeSize => Own(k, since, window[k][1]) = {window[k][1]})'
    BY <1>1, <2>1 DEF Explained
  <2>9. (Len(window[k]) + Retried(window[k]) <= Cardinality(Occurring(window[k])) + refused)'
    <3>1. Len(w) + Retried(w) <= Cardinality(Occurring(w)) + refused
      BY <2>1 DEF Explained
    <3>2. Retried(window[k])' <= Retried(w) + (refused' - refused)
      BY <1>5, <2>1 DEF Explained
    <3>3. Retried(w) \in {0, 1} /\ Retried(window[k])' \in {0, 1}
      BY DEF Retried
    <3>4. Len(window[k])' = Len(w) /\ Occurring(window[k])' = Occurring(w)
      BY <2>1, <2>5
    <3> HIDE DEF w
    <3> QED
      BY <1>2, <2>3, <2>4, <3>1, <3>2, <3>3, <3>4
  <2> QED
    BY <2>5, <2>6, <2>7, <2>8, <2>9 DEF Explained
<1>6. \A k \in Keys : (window[k] = <<>> => Own(k, since, Known) = {})'
  BY <1>4 DEF WindowInv
<1>7. (apc \in {"processed", "fanned"} => window[Key] # <<>> /\ Newest(window[Key]) = Current)'
  BY DEF WindowInv, Newest
<1>8. \A k \in Keys : (Len(window[k]) <= DequeSize)'
  BY DEF WindowInv
<1> QED
  BY <1>3, <1>5, <1>6, <1>7, <1>8 DEF WindowInv

LEMMA WindowStep ==
  ASSUME TypeInv, TypeInv', WindowInv, [Next]_vars
  PROVE  WindowInv'
<1>0. /\ Taken \in Nat /\ Taken' \in Nat /\ refused \in Nat /\ refused' \in Nat
      /\ apc # "idle" => queue # <<>>
  BY DEF TypeInv, QueueInv
<1>1. ASSUME NEW e \in Arrivals, Arrive(e) PROVE WindowInv'
  <2>1. /\ Taken' = Taken /\ DOMAIN stream \subseteq DOMAIN stream'
        /\ \A p \in DOMAIN stream : stream'[p] = stream[p]
        /\ \A p \in DOMAIN stream' : p \in DOMAIN stream \/ p > Len(stream)
        /\ queue # <<>> => Current' = Current /\ Key' = Key
    BY <1>1, ArriveFacts DEF TypeInv
  <2>2. UNCHANGED <<window, apc, since, refused>>
    BY <1>1 DEF Arrive, history
  <2>3. Known' = Known /\ Known \in Int /\ Known <= Len(stream)
    <3>1. queue # <<>> => Taken + 1 \in 1..Len(stream)
      BY InHand, LenProperties DEF TypeInv, QueueInv
    <3>2. Len(stream) \in Nat /\ Len(queue) \in Nat /\ Taken = Len(stream) - Len(queue)
      BY LenProperties DEF TypeInv, QueueInv, Taken
    <3>3. Taken <= Len(stream)
      BY <3>2
    <3>4. Known' = Known
      BY <2>1, <2>2 DEF Known
    <3> QED
      BY <1>0, <3>1, <3>2, <3>3, <3>4 DEF Known
  <2>4. \A k, a : Own(k, a, Known)' = Own(k, a, Known)
    <3> SUFFICES ASSUME NEW k, NEW a PROVE Own(k, a, Known)' = Own(k, a, Known)
      OBVIOUS
    <3> DEFINE b == Known
    <3>1. b \in Int /\ b <= Len(stream)
      BY <2>3
    <3>2. \A c \in Int : c <= Len(stream) => Own(k, a, c)' = Own(k, a, c)
      BY <2>1, OwnStays
    <3>3. \A c : c = Known => Own(k, a, Known)' = Own(k, a, c)'
      BY <2>3 DEF Own
    <3> QED
      BY <3>1, <3>2, <3>3
  <2>5. ASSUME NEW k \in Keys, window[k] # <<>> PROVE Explained(window[k], k)'
    <3> DEFINE w == window[k]
    <3>1. Explained(w, k) /\ w \in Seq(Nat) /\ Run(w, k)
      BY <2>5 DEF WindowInv, TypeInv, Explained
    <3>2. /\ Newest(w) \in Nat /\ w[1] \in Nat /\ w[1] <= Newest(w)
          /\ Newest(w) \in DOMAIN stream
      BY <2>5, <3>1, RunFacts
    <3>3. Newest(w) <= Len(stream) /\ w[1] <= Len(stream)
      <4>1. DOMAIN stream = 1..Len(stream) /\ Len(stream) \in Nat
        BY LenProperties DEF TypeInv, QueueInv
      <4>2. Newest(w) <= Len(stream)
        BY <3>2, <4>1
      <4> QED
        BY <3>2, <4>1, <4>2
    <3>4. \A a, b : b \in Int /\ b <= Len(stream) => Own(k, a, b)' = Own(k, a, b)
      BY <2>1, OwnStays
    <3>5. /\ Own(k, w[1], Newest(w))' = Own(k, w[1], Newest(w))
          /\ Own(k, since, w[1])' = Own(k, since, w[1])
      <4>1. Newest(w) \in Int /\ w[1] \in Int
        BY <3>2
      <4>2. \A a, b : b = Newest(w) => Own(k, a, b)' = Own(k, a, b)
        BY <3>3, <3>4, <4>1
      <4>3. \A a, b : b = w[1] => Own(k, a, b)' = Own(k, a, b)
        BY <3>3, <3>4, <4>1
      <4> QED
        BY <2>2, <4>2, <4>3 DEF Own, Newest
    <3>6. Run(window[k], k)'
      BY <2>2, <3>1, <3>5 DEF Run, Newest, Occurring
    <3>7. (Own(k, Newest(window[k]) + 1, Known) = {})'
      <4>1. Own(k, Newest(w) + 1, Known) = {}
        BY <3>1 DEF Explained
      <4>2. \A a : a = Newest(w) + 1 => Own(k, a, Known)' = Own(k, a, Known)
        BY <2>4
      <4> QED
        BY <2>2, <4>1, <4>2 DEF Own, Newest
    <3>8. /\ (since <= window[k][1] /\ Newest(window[k]) <= Taken + 1)'
          /\ Retried(window[k])' = Retried(w) /\ Occurring(window[k])' = Occurring(w)
      BY <2>1, <2>2, <3>1 DEF Explained, Newest, Retried, Occurring
    <3> QED
      BY <2>2, <3>1, <3>5, <3>6, <3>7, <3>8 DEF Explained
  <2>6. ASSUME NEW k \in Keys, window[k] = <<>> PROVE (Own(k, since, Known) = {})'
    <3>1. Own(k, since, Known) = {}
      BY <2>6 DEF WindowInv
    <3>2. \A a : a = since => Own(k, a, Known)' = Own(k, a, Known)
      BY <2>4
    <3> QED
      BY <2>2, <3>1, <3>2 DEF Own
  <2>7. (since <= Taken + 1)' /\ \A k \in Keys : (Len(window[k]) <= DequeSize)'
    BY <2>1, <2>2 DEF WindowInv
  <2>8. (apc \in {"processed", "fanned"} => window[Key] # <<>> /\ Newest(window[Key]) = Current)'
    BY <1>0, <2>1, <2>2 DEF WindowInv, Newest
  <2> QED
    BY <2>2, <2>5, <2>6, <2>7, <2>8 DEF WindowInv
<1>2. CASE Update \/ OpenFile \/ WriteFile \/ SaveFails
  <2>1. /\ apc \notin {"processed", "fanned"} /\ apc' \notin {"processed", "fanned"}
        /\ UNCHANGED <<stream, queue, window, since, refused>>
    BY <1>2 DEF Update, OpenFile, WriteFile, SaveFails, history
  <2>2. Taken' = Taken /\ Known' = Taken /\ Known = Taken
    BY <2>1 DEF Taken, Known
  <2>3. \A k \in Keys : Retried(window[k])' = Retried(window[k])
    BY <2>1, <2>2 DEF Retried, Newest
  <2>4. \A k \in Keys : Retried(window[k])' <= Retried(window[k]) + (refused' - refused)
    BY <1>0, <2>1, <2>3 DEF Retried
  <2>5. Known' <= Known /\ Taken <= Taken' /\ refused <= refused'
    BY <1>0, <2>1, <2>2
  <2> QED
    BY <1>0, <2>1, <2>4, <2>5, WindowStays
<1>3. CASE Push
  <2>1. /\ apc = "saved" /\ apc' = "processed" /\ UNCHANGED <<stream, queue, since, refused>>
        /\ window' = [window EXCEPT ![Key] = Latest(Append(window[Key], Current), DequeSize)]
    BY <1>3 DEF Push, history
  <2>2. /\ Key \in Keys /\ Current = Taken + 1 /\ Current \in DOMAIN stream
        /\ Taken' = Taken /\ Current' = Current /\ Key' = Key
    BY <1>0, <2>1, InHand, SameHand DEF TypeInv, Places
  <2>3. /\ \A k \in Keys : k = Key => window'[k] = Latest(Append(window[k], Current), DequeSize)
        /\ \A k \in Keys : k # Key => window'[k] = window[k]
    BY <2>1, <2>2 DEF TypeInv
  <2>4. ASSUME NEW k \in Keys, k = Key
        PROVE  /\ window'[k] # <<>> /\ Newest(window'[k]) = Current
               /\ Len(window'[k]) <= DequeSize
               /\ Explained(window[k], k)'
    BY <1>3, <2>1, <2>2, <2>3, <2>4, PushExplained
  <2>5. ASSUME NEW k \in Keys, k # Key
        PROVE  /\ (Len(window[k]) <= DequeSize)'
               /\ (IF window[k] = <<>> THEN Own(k, since, Known) = {} ELSE Explained(window[k], k))'
    <3> DEFINE w == window[k]
    <3>1. window'[k] = w /\ Known = Taken /\ Known' = Taken + 1
      BY <2>1, <2>2, <2>3, <2>5 DEF Known
    <3>2. \A a, b : Own(k, a, b)' = Own(k, a, b)
      BY <2>1 DEF Own
    <3>3. \A a : Own(k, a, Taken + 1) = Own(k, a, Taken)
      <4>1. \A a : a..Taken \subseteq a..(Taken + 1)
        BY <1>0
      <4>2. \A a : \A p \in a..(Taken + 1) : p = Taken + 1 \/ p \in a..Taken
        BY <1>0
      <4>3. WindowKey(stream[Taken + 1]) # k
        BY <2>2, <2>5 DEF Key
      <4> QED
        BY <4>1, <4>2, <4>3 DEF Own
    <3>4. w = <<>> => (Own(k, since, Known) = {})'
      BY <2>1, <3>1, <3>2, <3>3 DEF WindowInv
    <3>5. ASSUME w # <<>> PROVE Explained(window[k], k)'
      <4>1. Explained(w, k) /\ w \in Seq(Nat)
        BY <3>5 DEF WindowInv, TypeInv
      <4>2. Run(window[k], k)' /\ Occurring(window[k])' = Occurring(w)
        BY <3>1, <3>2, <4>1 DEF Explained, Run, Occurring, Newest
      <4>3. (since <= window[k][1] /\ Newest(window[k]) <= Taken + 1)'
        BY <2>1, <2>2, <3>1, <4>1 DEF Explained, Newest
      <4>4. (Own(k, Newest(window[k]) + 1, Known) = {})'
        BY <3>1, <3>2, <3>3, <4>1 DEF Explained, Newest
      <4>5. (Len(window[k]) < DequeSize => Own(k, since, window[k][1]) = {window[k][1]})'
        BY <2>1, <3>1, <3>2, <4>1 DEF Explained
      <4>6. (Len(window[k]) + Retried(window[k]) <= Cardinality(Occurring(window[k])) + refused)'
        <5>1. Len(w) + Retried(w) <= Cardinality(Occurring(w)) + refused
          BY <4>1 DEF Explained
        <5>2. Retried(window[k])' = 0 /\ Retried(w) \in {0, 1}
          BY <2>1 DEF Retried
        <5>3. Len(window[k])' = Len(w) /\ Len(w) \in Nat /\ Cardinality(Occurring(w)) \in Nat
          <6>1. IsFiniteSet(Occurring(w)) /\ Len(w) \in Nat
            BY <3>5, <4>1, RunFacts DEF Explained
          <6> QED
            BY <3>1, <6>1, FS_CardinalityType
        <5> HIDE DEF w
        <5> QED
          BY <1>0, <2>1, <4>2, <5>1, <5>2, <5>3
      <4> QED
        BY <4>2, <4>3, <4>4, <4>5, <4>6 DEF Explained
    <3>6. (Len(window[k]) <= DequeSize)'
      BY <3>1 DEF WindowInv
    <3> QED
      BY <3>1, <3>4, <3>5, <3>6
  <2>6. (since <= Taken + 1)'
    BY <2>1, <2>2 DEF WindowInv
  <2>7. (window[Key] # <<>> /\ Newest(window[Key]) = Current)'
    BY <2>2, <2>4 DEF Newest
  <2> QED
    BY <2>4, <2>5, <2>6, <2>7 DEF WindowInv
<1>4. CASE Withhold \/ Ack
  <2>1. /\ apc \in {"processed", "fanned"} /\ apc' = "idle" /\ queue' = Tail(queue)
        /\ UNCHANGED <<stream, window, since, refused>>
    BY <1>4 DEF Withhold, Ack, history
  <2>2. Taken' = Taken + 1
    BY <1>0, <2>1, DoneFacts DEF TypeInv
  <2>3. Known = Taken + 1 /\ Known' = Taken + 1
    BY <2>1, <2>2 DEF Known
  <2>4. ASSUME NEW k \in Keys, window[k] # <<>>, Newest(window[k]) <= Taken + 1
        PROVE  Retried(window[k])' <= Retried(window[k]) + (refused' - refused)
    <3>1. Run(window[k], k) /\ window[k] \in Seq(Nat)
      BY <2>4 DEF WindowInv, Explained, TypeInv
    <3>2. Newest(window[k]) \in Nat
      BY <2>4, <3>1, RunFacts
    <3>3. Newest(window[k]) # Taken + 2
      BY <1>0, <2>4, <3>2
    <3>4. Retried(window[k])' = 0 /\ Retried(window[k]) = 0
      BY <1>0, <2>1, <2>2, <3>3 DEF Retried, Newest
    <3> QED
      BY <1>0, <2>1, <3>4
  <2>5. Known' <= Known /\ Taken <= Taken' /\ refused <= refused'
    BY <1>0, <2>1, <2>2, <2>3
  <2> QED
    BY <1>0, <2>1, <2>4, <2>5, WindowStays
<1>5. CASE FanOut \/ UNCHANGED vars
  <2>1. /\ UNCHANGED <<stream, queue, window, since, refused>>
        /\ apc' \in {"processed", "fanned"} <=> apc \in {"processed", "fanned"}
    BY <1>5 DEF FanOut, vars, history
  <2>2. Taken' = Taken /\ Current' = Current /\ Key' = Key
    BY <2>1 DEF Taken, Current, Key
  <2>3. Known' = Known /\ Known \in Nat
    BY <1>0, <2>1, <2>2 DEF Known
  <2>4. \A k \in Keys : Retried(window[k])' = Retried(window[k]) /\ Retried(window[k]) \in {0, 1}
    BY <2>1, <2>2 DEF Retried, Newest
  <2>5. \A k \in Keys : Retried(window[k])' <= Retried(window[k]) + (refused' - refused)
    BY <1>0, <2>1, <2>4
  <2>6. Known' <= Known /\ Taken <= Taken' /\ refused <= refused'
    BY <1>0, <2>1, <2>2, <2>3
  <2> QED
    BY <1>0, <2>1, <2>2, <2>5, <2>6, WindowStays
<1>6. CASE FanOutFails
  <2>1. /\ apc = "processed" /\ apc' = "idle" /\ refused' = refused + 1
        /\ UNCHANGED <<stream, queue, window, since>>
    BY <1>6 DEF FanOutFails, Refuse
  <2>2. Taken' = Taken /\ Known' = Taken /\ Known = Taken + 1
    BY <2>1 DEF Taken, Known
  <2>3. \A k \in Keys : Retried(window[k])' \in {0, 1} /\ Retried(window[k]) = 0
    BY <2>1 DEF Retried
  <2>4. \A k \in Keys : Retried(window[k])' <= Retried(window[k]) + (refused' - refused)
    BY <1>0, <2>1, <2>3
  <2>5. Known' <= Known /\ Taken <= Taken' /\ refused <= refused'
    BY <1>0, <2>1, <2>2
  <2> QED
    BY <1>0, <2>1, <2>4, <2>5, WindowStays
<1>7. CASE Crash
  <2>1. /\ apc' = "idle" /\ UNCHANGED <<stream, queue>> /\ window' = [k \in Keys |-> <<>>]
        /\ since' = IF queue = <<>> THEN Len(stream) + 1 ELSE Current
    BY <1>7 DEF Crash
  <2>2. Taken' = Taken /\ Known' = Taken
    BY <2>1 DEF Taken, Known
  <2>3. since' = Taken + 1
    <3>1. queue # <<>> => Current = Taken + 1
      BY InHand DEF TypeInv
    <3>2. queue = <<>> => Taken = Len(stream)
      BY LenProperties DEF Taken, TypeInv, QueueInv
    <3> QED
      BY <2>1, <3>1, <3>2
  <2>4. \A k \in Keys : (Own(k, since, Known) = {})'
    <3>1. \A p \in (Taken + 1)..Taken : FALSE
      BY <1>0
    <3> QED
      BY <2>2, <2>3, <3>1 DEF Own
  <2>5. \A k \in Keys : (Len(window[k]) <= DequeSize /\ window[k] = <<>>)'
    BY <2>1, WindowFitsDeque
  <2>6. (since <= Taken + 1)'
    BY <1>0, <2>2, <2>3
  <2> QED
    BY <2>1, <2>4, <2>5, <2>6 DEF WindowInv
<1> QED
  BY <1>1, <1>2, <1>3, <1>4, <1>5, <1>6, <1>7 DEF Next, Work

-----------------------------------------------------------------------------
(* Publications                                                            *)

\* A publication is of the event in hand or of one before it, with the run that
\* ends with it.
RecentInv ==
  /\ \A i \in DOMAIN fanned :
       LET r == fanned[i].recent IN
       /\ fanned[i].event <= Taken + 1
       /\ r # <<>> /\ Newest(r) = fanned[i].event
       /\ Run(r, WindowKey(stream[fanned[i].event]))
  /\ \A i \in 1..(Len(fanned) - 1) : fanned[i].event <= fanned[i + 1].event

LEMMA RecentStep ==
  ASSUME TypeInv, TypeInv', WindowInv, RecentInv, [Next]_vars
  PROVE  RecentInv'
<1>0. /\ Taken \in Nat /\ (apc # "idle" => queue # <<>>)
      /\ DOMAIN fanned = 1..Len(fanned) /\ Len(fanned) \in Nat
      /\ \A i \in DOMAIN fanned : fanned[i].event \in Nat /\ fanned[i].recent \in Seq(Nat)
  <2>1. \A i \in DOMAIN fanned : fanned[i] \in Publications
    BY ElementOfSeq DEF TypeInv
  <2> QED
    BY <2>1, LenProperties DEF TypeInv, QueueInv, Publications
<1>1. ASSUME fanned' = fanned, Taken' >= Taken, Taken' \in Nat,
             DOMAIN stream \subseteq DOMAIN stream', \A p \in DOMAIN stream : stream'[p] = stream[p],
             \A p \in DOMAIN stream' : p \in DOMAIN stream \/ p > Len(stream)
      PROVE  RecentInv'
  <2>1. ASSUME NEW i \in DOMAIN fanned
        PROVE  /\ fanned[i].event <= Taken'  + 1
               /\ fanned[i].recent # <<>> /\ Newest(fanned[i].recent) = fanned[i].event
               /\ Run(fanned[i].recent, WindowKey(stream[fanned[i].event]))'
    <3> DEFINE r == fanned[i].recent
               k == WindowKey(stream[fanned[i].event])
    <3>1. /\ fanned[i].event <= Taken + 1 /\ r # <<>> /\ Newest(r) = fanned[i].event /\ Run(r, k)
          /\ r \in Seq(Nat) /\ fanned[i].event \in Nat
      BY <1>0 DEF RecentInv
    <3>2. fanned[i].event <= Taken' + 1
      BY <1>0, <1>1, <3>1
    <3>3. Newest(r) \in DOMAIN stream /\ Newest(r) \in Nat /\ r[1] \in Nat
      BY <3>1, RunFacts
    <3>4. Newest(r) <= Len(stream)
      <4>1. DOMAIN stream = 1..Len(stream)
        BY LenProperties DEF TypeInv, QueueInv
      <4> QED
        BY <3>3, <4>1
    <3>5. \A l, a, b : b = Newest(r) => Own(l, a, b)' = Own(l, a, b)
      <4>1. \A l, a, b : b \in Int /\ b <= Len(stream) => Own(l, a, b)' = Own(l, a, b)
        BY <1>1, OwnStays
      <4>2. Newest(r) \in Int
        BY <3>3
      <4> QED
        BY <3>4, <4>1, <4>2
    <3>6. WindowKey(stream[fanned[i].event])' = k
      BY <1>1, <3>1, <3>3 DEF WindowKey
    <3>7. \A s : s = r => (Run(s, k) => Run(fanned[i].recent, WindowKey(stream[fanned[i].event]))')
      <4>1. Own(k, r[1], Newest(r))' = Own(k, r[1], Newest(r))
        <5>1. \A l, a, b : b = Newest(r) =>
                {p \in a..b : p \in DOMAIN stream' /\ WindowKey(stream'[p]) = l}
                  = {p \in a..b : p \in DOMAIN stream /\ WindowKey(stream[p]) = l}
          BY <3>5 DEF Own
        <5>2. \A l, a, b : l = k /\ a = r[1] /\ b = Newest(r) =>
                (Own(k, r[1], Newest(r))' = {p \in a..b : p \in DOMAIN stream' /\ WindowKey(stream'[p]) = l})
          <6>1. r' = r /\ Newest(r)' = Newest(r) /\ k' = k
            BY <1>1, <3>6 DEF Newest
          <6> QED
            BY <6>1 DEF Own
        <5>3. Own(k, r[1], Newest(r)) = {p \in r[1]..Newest(r) : p \in DOMAIN stream /\ WindowKey(stream[p]) = k}
          BY DEF Own
        <5> HIDE DEF r, k
        <5> QED
          BY <5>1, <5>2, <5>3
      <4> QED
        BY <1>1, <3>6, <4>1 DEF Run, Occurring, Newest
    <3> QED
      BY <3>1, <3>2, <3>7
  <2>2. \A i \in 1..(Len(fanned) - 1) : fanned[i].event <= fanned[i + 1].event
    BY DEF RecentInv
  <2> QED
    BY <1>1, <2>1, <2>2 DEF RecentInv, Newest
<1>2. CASE \E e \in Arrivals : Arrive(e)
  <2>1. PICK e \in Arrivals : Arrive(e)
    BY <1>2
  <2>2. fanned' = fanned
    BY <2>1 DEF Arrive
  <2>3. /\ Taken' = Taken /\ DOMAIN stream \subseteq DOMAIN stream'
        /\ \A p \in DOMAIN stream : stream'[p] = stream[p]
        /\ \A p \in DOMAIN stream' : p \in DOMAIN stream \/ p > Len(stream)
    BY <2>1, ArriveFacts DEF TypeInv
  <2>4. Taken' >= Taken /\ Taken' \in Nat
    BY <1>0, <2>3
  <2> QED
    BY <1>1, <2>2, <2>3, <2>4
<1>3. CASE Withhold \/ Ack
  <2>1. apc # "idle" /\ apc' = "idle" /\ queue' = Tail(queue) /\ stream' = stream /\ fanned' = fanned
    BY <1>3 DEF Withhold, Ack
  <2>2. Taken' = Taken + 1
    BY <1>0, <2>1, DoneFacts DEF TypeInv
  <2>3. Taken' >= Taken /\ Taken' \in Nat
    BY <1>0, <2>2
  <2> QED
    BY <1>1, <2>1, <2>3
<1>4. CASE \/ Update \/ OpenFile \/ WriteFile \/ SaveFails \/ Push \/ FanOutFails \/ Crash
           \/ UNCHANGED vars
  <2>1. UNCHANGED <<stream, queue, fanned>>
    BY <1>4 DEF Update, OpenFile, WriteFile, SaveFails, Push, FanOutFails, Refuse, Crash, vars
  <2>2. Taken' = Taken
    BY <2>1 DEF Taken
  <2>3. Taken' >= Taken /\ Taken' \in Nat
    BY <1>0, <2>2
  <2> QED
    BY <1>1, <2>1, <2>3
<1>5. CASE FanOut
  <2>1. /\ apc = "processed" /\ UNCHANGED <<stream, queue>> /\ fanned' = Append(fanned, Enriched)
    BY <1>5 DEF FanOut
  <2>2. /\ Key \in Keys /\ Current = Taken + 1 /\ Current \in Nat /\ Taken' = Taken
        /\ calibrator[Component] \in Calibrators
    BY <1>0, <2>1, InHand, SameHand DEF TypeInv, QueueInv, Taken
  <2> DEFINE w == window[Key]
             r == Latest(w, WindowSize)
  <2>3. /\ w \in Seq(Nat) /\ w # <<>> /\ Newest(w) = Current /\ Run(w, Key)
        /\ WindowSize \in Nat \ {0}
    BY <2>1, <2>2, WindowFitsDeque DEF WindowInv, TypeInv, Explained
  <2>4. r \in Seq(Nat) /\ r # <<>> /\ Run(r, Key) /\ Newest(r) = Current
    BY <2>3, RunSuffix
  <2>5. Enriched.event = Current /\ Enriched.recent = r /\ Enriched \in Publications
    BY <2>2, <2>4 DEF Enriched, Publications, Calibrators
  <2>6. /\ DOMAIN fanned' = 1..Len(fanned) + 1 /\ Len(fanned') = Len(fanned) + 1
        /\ fanned'[Len(fanned) + 1] = Enriched
        /\ \A i \in 1..Len(fanned) : fanned'[i] = fanned[i]
    BY <2>1, <2>5, AppendFacts DEF TypeInv
  <2> HIDE DEF w, r
  <2>7. ASSUME NEW i \in 1..Len(fanned) + 1
        PROVE  /\ fanned'[i].event <= Taken + 1
               /\ fanned'[i].recent # <<>> /\ Newest(fanned'[i].recent) = fanned'[i].event
               /\ Run(fanned'[i].recent, WindowKey(stream[fanned'[i].event]))
    <3>1. CASE i = Len(fanned) + 1
      BY <1>0, <2>2, <2>4, <2>5, <2>6, <3>1 DEF Key
    <3>2. CASE i \in 1..Len(fanned)
      BY <1>0, <2>6, <3>2 DEF RecentInv
    <3>3. i = Len(fanned) + 1 \/ i \in 1..Len(fanned)
      BY <1>0
    <3> QED
      BY <3>1, <3>2, <3>3
  <2>8. ASSUME NEW i \in 1..Len(fanned) PROVE fanned'[i].event <= fanned'[i + 1].event
    <3>1. CASE i = Len(fanned)
      BY <1>0, <2>2, <2>5, <2>6, <3>1 DEF RecentInv
    <3>2. CASE i # Len(fanned)
      <4> DEFINE n == Len(fanned)
      <4>1. n \in Nat /\ i \in 1..n /\ i # n
        BY <1>0, <3>2
      <4> HIDE DEF n
      <4>2. i \in 1..(n - 1) /\ i + 1 \in 1..n
        BY <4>1
      <4> QED
        BY <2>6, <4>2 DEF RecentInv, n
    <3> QED
      BY <3>1, <3>2
  <2>9. \A i \in 1..Len(fanned) + 1 : Run(fanned[i].recent, WindowKey(stream[fanned[i].event]))'
    <3>1. \A k, a, b : Own(k, a, b)' = Own(k, a, b)
      BY <2>1 DEF Own
    <3> QED
      BY <2>1, <2>7, <3>1 DEF Run, Occurring, Newest
  <2>10. Len(fanned') - 1 = Len(fanned)
    BY <1>0, <2>6
  <2> QED
    BY <2>2, <2>6, <2>7, <2>8, <2>9, <2>10 DEF RecentInv, Newest
<1> QED
  BY <1>2, <1>3, <1>4, <1>5 DEF Next, Work

LEMMA WindowAlways == Spec => [](WindowInv /\ RecentInv)
<1>1. Init => WindowInv /\ RecentInv
  <2>1. Init => fanned = <<>>
    BY DEF Init, StartedWith
  <2> QED
    BY <2>1, WindowInit DEF RecentInv
<1>2. TypeInv /\ TypeInv' /\ WindowInv /\ RecentInv /\ [Next]_vars => WindowInv' /\ RecentInv'
  BY WindowStep, RecentStep
<1> QED
  BY <1>1, <1>2, TypeAlways, PTL DEF Spec

\* A window holds the events of its node and component that were taken since
\* the process was started, all of them until it is full, in their order, and
\* repeats one only if its publication was refused in between.
THEOREM WindowsExplained == Spec => []WindowIsExplained
<1>1. TypeInv /\ WindowInv => WindowIsExplained
  <2> SUFFICES ASSUME TypeInv, WindowInv, NEW k \in Keys
               PROVE  LET w == window[k] IN
                      /\ Unbroken(w, k)
                      /\ w # <<>> /\ Len(w) < DequeSize => Own(k, since, w[1]) = {w[1]}
                      /\ Len(w) <= Cardinality(Occurring(w)) + refused
    BY DEF WindowIsExplained
  <2> DEFINE w == window[k]
  <2>1. w \in Seq(Nat) /\ refused \in Nat
    BY DEF TypeInv
  <2>2. w # <<>> => Explained(w, k)
    BY DEF WindowInv
  <2>3. Unbroken(w, k)
    BY <2>1, <2>2, RunIsUnbroken DEF Explained
  <2>4. CASE w = <<>>
    <3>1. Occurring(w) = {} /\ Len(w) = 0
      BY <2>4 DEF Occurring
    <3>2. Len(w) <= Cardinality(Occurring(w)) + refused
      BY <2>1, <3>1, FS_EmptySet
    <3> QED
      BY <2>3, <2>4, <3>2
  <2>5. CASE w # <<>>
    <3>1. Len(w) \in Nat /\ Cardinality(Occurring(w)) \in Nat /\ Retried(w) \in {0, 1}
      BY <2>1, <2>2, <2>5, RunFacts, FS_CardinalityType DEF Explained, Retried
    <3>2. Len(w) + Retried(w) <= Cardinality(Occurring(w)) + refused
      BY <2>2, <2>5 DEF Explained
    <3> HIDE DEF w
    <3>3. Len(w) <= Cardinality(Occurring(w)) + refused
      BY <2>1, <3>1, <3>2
    <3> QED
      BY <2>2, <2>3, <2>5, <3>3 DEF Explained, w
  <2> QED
    BY <2>4, <2>5
<1> QED
  BY <1>1, TypeAlways, WindowAlways, PTL

\* The detectors get an event with the run of events of its key that ends with
\* it, and they get the events in the order of validated.event.
THEOREM FannedInOrder == Spec => []OrderKept
<1>1. TypeInv /\ RecentInv => OrderKept
  <2> SUFFICES ASSUME TypeInv, RecentInv, NEW i \in DOMAIN fanned
               PROVE  LET r == fanned[i].recent IN
                      r[Len(r)] = fanned[i].event /\ Unbroken(r, WindowKey(stream[r[Len(r)]]))
    BY DEF OrderKept, RecentInv
  <2>1. fanned[i] \in Publications
    BY ElementOfSeq DEF TypeInv
  <2>2. fanned[i].recent \in Seq(Nat)
    BY <2>1 DEF Publications
  <2> QED
    BY <2>2, RunIsUnbroken DEF RecentInv, Newest
<1> QED
  BY <1>1, TypeAlways, WindowAlways, PTL

-----------------------------------------------------------------------------
(***************************************************************************)
(* What is computed from a window, for windows of every length and every   *)
(* metric: sums, averages and deviations by induction over the window.     *)
(***************************************************************************)

(* Sums *)

\* The sums of the first 0, 1, 2... values.
IsSum(sum, values, n) ==
  /\ sum \in [0..n -> Int]
  /\ sum[0] = 0
  /\ \A k \in 1..n : sum[k] = sum[k - 1] + values[k]

Recursion(sum, values, n) == [k \in 0..n |-> IF k = 0 THEN 0 ELSE sum[k - 1] + values[k]]

LEMMA SumExists ==
  ASSUME NEW values, NEW n \in Nat, \A k \in 1..n : values[k] \in Int
  PROVE  \E sum : IsSum(sum, values, n)
<1> DEFINE Good == {m \in Nat : m <= n => \E sum : IsSum(sum, values, m)}
<1>1. 0 \in Good
  <2>1. IsSum([k \in 0..0 |-> 0], values, 0)
    BY DEF IsSum
  <2> QED
    BY <2>1
<1>2. ASSUME NEW m \in Good PROVE m + 1 \in Good
  <2> SUFFICES ASSUME m + 1 <= n PROVE \E sum : IsSum(sum, values, m + 1)
    BY <1>2
  <2>1. PICK old : IsSum(old, values, m)
    BY <1>2
  <2> DEFINE new == [k \in 0..m + 1 |-> IF k = m + 1 THEN old[m] + values[m + 1] ELSE old[k]]
  <2>2. m \in Nat /\ values[m + 1] \in Int /\ old[m] \in Int
    BY <1>2, <2>1 DEF IsSum
  <2>3. new \in [0..m + 1 -> Int] /\ new[0] = 0
    BY <2>1, <2>2 DEF IsSum
  <2>4. \A k \in 1..m + 1 : new[k] = new[k - 1] + values[k]
    <3> SUFFICES ASSUME NEW k \in 1..m + 1 PROVE new[k] = new[k - 1] + values[k]
      OBVIOUS
    <3>1. k - 1 \in 0..m + 1 /\ k - 1 # m + 1 /\ k \in 0..m + 1
      BY <2>2
    <3>2. CASE k = m + 1
      BY <2>2, <3>1, <3>2
    <3>3. CASE k # m + 1
      BY <2>1, <2>2, <3>1, <3>3 DEF IsSum
    <3> QED
      BY <3>2, <3>3
  <2> QED
    BY <2>3, <2>4 DEF IsSum
<1> HIDE DEF Good
<1>3. Good = Nat
  BY <1>1, <1>2, SetInduction DEF Good
<1> QED
  BY <1>3 DEF Good

\* Total(values) is the last of them.
LEMMA TotalIsSum ==
  ASSUME NEW values \in Seq(Int)
  PROVE  \E sum : IsSum(sum, values, Len(values)) /\ Total(values) = sum[Len(values)]
<1> DEFINE n == Len(values)
           sum == CHOOSE s : s = Recursion(s, values, n)
<1>1. n \in Nat /\ \A k \in 1..n : values[k] \in Int
  OBVIOUS
<1>2. PICK s : IsSum(s, values, n)
  BY <1>1, SumExists
<1>3. s = Recursion(s, values, n)
  BY <1>1, <1>2 DEF IsSum, Recursion
<1>4. sum = Recursion(sum, values, n)
  BY <1>3
<1>5. Total(values) = sum[n]
  BY DEF Total, Recursion
<1> HIDE DEF sum
<1>6. IsSum(sum, values, n)
  <2>1. DOMAIN sum = 0..n /\ sum[0] = 0 /\ \A k \in 1..n : sum[k] = sum[k - 1] + values[k]
    <3> DEFINE next(k) == IF k = 0 THEN 0 ELSE sum[k - 1] + values[k]
    <3>1. sum = [k \in 0..n |-> next(k)]
      BY <1>4 DEF Recursion
    <3>2. DOMAIN sum = 0..n /\ \A k \in 0..n : sum[k] = next(k)
      <4> HIDE DEF next
      <4> QED
        BY <3>1
    <3>3. 0 \in 0..n /\ \A k \in 1..n : k \in 0..n /\ k # 0
      BY <1>1
    <3> QED
      BY <3>2, <3>3
  <2> DEFINE Good == {m \in Nat : m <= n => sum[m] \in Int}
  <2>2. 0 \in Good /\ \A m \in Good : m + 1 \in Good
    BY <1>1, <2>1
  <2> HIDE DEF Good
  <2>3. Good = Nat
    BY <2>2, SetInduction DEF Good
  <2>4. \A m \in 0..n : sum[m] \in Int
    BY <1>1, <2>3 DEF Good
  <2>5. sum = [m \in 0..n |-> sum[m]]
    BY <1>4, <2>1 DEF Recursion
  <2> QED
    BY <2>1, <2>4, <2>5 DEF IsSum
<1> QED
  BY <1>5, <1>6

\* Adding a position to those seen so far.
LEMMA NextOfSet ==
  ASSUME NEW S \in SUBSET Nat, NEW k \in Nat
  PROVE  LET before == {i \in S : i >= 1 /\ i <= k}
             after  == {i \in S : i >= 1 /\ i <= k + 1} IN
         /\ Cardinality(before) \in Nat
         /\ k + 1 \in S => Cardinality(after) = Cardinality(before) + 1
         /\ k + 1 \notin S => after = before
<1> DEFINE before == {i \in S : i >= 1 /\ i <= k}
           after  == {i \in S : i >= 1 /\ i <= k + 1}
<1>1. before \in SUBSET Nat /\ after \in SUBSET Nat
  OBVIOUS
<1>2. (\A i \in before : i <= k) /\ (\A i \in after : i <= k + 1)
  OBVIOUS
<1>3. IsFiniteSet(before) /\ IsFiniteSet(after)
  <2> HIDE DEF before, after
  <2> QED
    BY <1>1, <1>2, FS_BoundedSetOfNaturals
<1>4. Cardinality(before) \in Nat /\ Cardinality(after) \in Nat
  BY <1>3, FS_CardinalityType
<1>5. ASSUME k + 1 \in S PROVE Cardinality(after) = Cardinality(before) + 1
  <2>0. \A i \in S : i >= 1 /\ i <= k + 1 <=> (i >= 1 /\ i <= k) \/ i = k + 1
    OBVIOUS
  <2>1. k + 1 \in after /\ k + 1 \notin before
    BY <1>5
  <2>2. \A i : i \in after <=> i \in before \/ i = k + 1
    BY <1>5, <2>0, <2>1
  <2>3. after = before \union {k + 1}
    <3> HIDE DEF before, after
    <3> QED
      BY <2>2
  <2> HIDE DEF before, after
  <2> QED
    BY <1>3, <2>1, <2>3, FS_AddElement
<1>6. ASSUME k + 1 \notin S PROVE after = before
  <2>1. \A i \in S : i >= 1 /\ i <= k + 1 <=> i >= 1 /\ i <= k
    BY <1>6
  <2> QED
    BY <2>1
<1> QED
  BY <1>4, <1>5, <1>6

\* A larger value makes no smaller sum.
LEMMA TotalMonotone ==
  ASSUME NEW values \in Seq(Int), NEW others \in Seq(Int), Len(values) = Len(others),
         \A i \in DOMAIN values : values[i] <= others[i]
  PROVE  Total(values) \in Int /\ Total(others) \in Int /\ Total(values) <= Total(others)
<1> DEFINE n == Len(values)
<1>0. n \in Nat /\ \A i \in 1..n : values[i] \in Int /\ others[i] \in Int /\ values[i] <= others[i]
  OBVIOUS
<1>1. PICK sum : IsSum(sum, values, n) /\ Total(values) = sum[n]
  BY TotalIsSum
<1>2. PICK other : IsSum(other, others, n) /\ Total(others) = other[n]
  BY TotalIsSum
<1> DEFINE Good == {k \in Nat : k <= n => sum[k] <= other[k]}
<1>3. 0 \in Good
  BY <1>1, <1>2 DEF IsSum
<1>4. ASSUME NEW k \in Good PROVE k + 1 \in Good
  <2> SUFFICES ASSUME k + 1 <= n PROVE sum[k + 1] <= other[k + 1]
    BY <1>4
  <2>1. k \in Nat /\ k + 1 \in 1..n /\ k <= n /\ (k + 1) - 1 = k /\ k \in 0..n /\ sum[k] <= other[k]
    BY <1>0, <1>4
  <2>2. sum[k + 1] = sum[k] + values[k + 1] /\ sum[k] \in Int
    BY <1>1, <2>1 DEF IsSum
  <2>3. other[k + 1] = other[k] + others[k + 1] /\ other[k] \in Int
    BY <1>2, <2>1 DEF IsSum
  <2> QED
    BY <1>0, <2>1, <2>2, <2>3
<1>5. Good = Nat
  <2> HIDE DEF Good
  <2> QED
    BY <1>3, <1>4, SetInduction DEF Good
<1> QED
  BY <1>0, <1>1, <1>2, <1>5 DEF IsSum

\* The sum of a value that occurs at the positions of a set.
LEMMA TotalOfEqual ==
  ASSUME NEW values \in Seq(Int), NEW S \in SUBSET DOMAIN values, NEW b \in Int,
         \A i \in S : values[i] = b, \A i \in DOMAIN values \ S : values[i] = 0
  PROVE  Total(values) = b * Cardinality(S)
<1> DEFINE n == Len(values)
           Seen(k) == {i \in S : i >= 1 /\ i <= k}
<1>0. n \in Nat /\ DOMAIN values = 1..n /\ \A i \in 1..n : values[i] \in Int
  OBVIOUS
<1>1. PICK sum : IsSum(sum, values, n) /\ Total(values) = sum[n]
  BY TotalIsSum
<1> DEFINE Good == {k \in Nat : k <= n => sum[k] = b * Cardinality(Seen(k))}
<1>2. 0 \in Good
  <2>1. Seen(0) = {}
    OBVIOUS
  <2>2. sum[0] = 0 /\ Cardinality(Seen(0)) = 0
    BY <1>1, <2>1, FS_EmptySet DEF IsSum
  <2> HIDE DEF Seen
  <2> QED
    BY <2>2
<1>3. ASSUME NEW k \in Good PROVE k + 1 \in Good
  <2> SUFFICES ASSUME k + 1 <= n PROVE sum[k + 1] = b * Cardinality(Seen(k + 1))
    BY <1>3
  <2>1. k \in Nat /\ k + 1 \in 1..n /\ k <= n /\ (k + 1) - 1 = k /\ k \in 0..n
    BY <1>0, <1>3
  <2>2. sum[k + 1] = sum[k] + values[k + 1] /\ sum[k] \in Int /\ values[k + 1] \in Int
    BY <1>0, <1>1, <2>1 DEF IsSum
  <2>3. sum[k] = b * Cardinality(Seen(k))
    BY <1>3, <2>1
  <2>4. /\ Cardinality(Seen(k)) \in Nat
        /\ k + 1 \in S => Cardinality(Seen(k + 1)) = Cardinality(Seen(k)) + 1
        /\ k + 1 \notin S => Seen(k + 1) = Seen(k)
    <3>1. S \in SUBSET Nat
      BY <1>0
    <3> QED
      BY <2>1, <3>1, NextOfSet
  <2> HIDE DEF Seen
  <2>5. CASE k + 1 \in S
    <3>1. values[k + 1] = b
      BY <2>5
    <3>2. b * (Cardinality(Seen(k)) + 1) = b * Cardinality(Seen(k)) + b
      BY <2>4
    <3> QED
      BY <2>2, <2>3, <2>4, <2>5, <3>1, <3>2
  <2>6. CASE k + 1 \notin S
    <3>1. values[k + 1] = 0
      BY <1>0, <2>1, <2>6
    <3> QED
      BY <2>2, <2>3, <2>4, <2>6, <3>1
  <2> QED
    BY <2>5, <2>6
<1>4. sum[n] = b * Cardinality(Seen(n))
  <2>1. Good = Nat
    <3> HIDE DEF Good
    <3> QED
      BY <1>2, <1>3, SetInduction DEF Good
  <2> QED
    BY <1>0, <2>1
<1>5. Seen(n) = S
  BY <1>0
<1> HIDE DEF Seen
<1> QED
  BY <1>1, <1>4, <1>5

\* A sum of values that are 0 but at the positions of a set, and there not over
\* a bound, or not under one.
LEMMA TotalAtMost ==
  ASSUME NEW values \in Seq(Int), NEW S \in SUBSET DOMAIN values, NEW b \in Int,
         \A i \in S : values[i] <= b, \A i \in DOMAIN values \ S : values[i] = 0
  PROVE  Total(values) \in Int /\ Total(values) <= b * Cardinality(S)
<1> DEFINE bounds == [i \in 1..Len(values) |-> IF i \in S THEN b ELSE 0]
<1>1. bounds \in Seq(Int) /\ Len(bounds) = Len(values) /\ DOMAIN bounds = DOMAIN values
  OBVIOUS
<1>2. \A i \in DOMAIN values : values[i] <= bounds[i]
  OBVIOUS
<1>3. (\A i \in S : bounds[i] = b) /\ (\A i \in DOMAIN values \ S : bounds[i] = 0)
  OBVIOUS
<1> HIDE DEF bounds
<1> QED
  BY <1>1, <1>2, <1>3, TotalMonotone, TotalOfEqual

LEMMA TotalAtLeast ==
  ASSUME NEW values \in Seq(Int), NEW S \in SUBSET DOMAIN values, NEW b \in Int,
         \A i \in S : values[i] >= b, \A i \in DOMAIN values \ S : values[i] = 0
  PROVE  Total(values) \in Int /\ Total(values) >= b * Cardinality(S)
<1> DEFINE bounds == [i \in 1..Len(values) |-> IF i \in S THEN b ELSE 0]
<1>1. bounds \in Seq(Int) /\ Len(bounds) = Len(values) /\ DOMAIN bounds = DOMAIN values
  OBVIOUS
<1>2. \A i \in DOMAIN values : bounds[i] <= values[i]
  OBVIOUS
<1>3. (\A i \in S : bounds[i] = b) /\ (\A i \in DOMAIN values \ S : bounds[i] = 0)
  OBVIOUS
<1> HIDE DEF bounds
<1>4. Total(bounds) = b * Cardinality(S)
  BY <1>1, <1>3, TotalOfEqual
<1>5. Total(bounds) <= Total(values) /\ Total(values) \in Int
  BY <1>1, <1>2, TotalMonotone
<1> QED
  BY <1>4, <1>5

(* Deviations *)

\* The mean of squares is no less than the square of the mean (the first line
\* for any point of reference, the second in whole numbers), at every prefix.
LEMMA SquaresOfSums ==
  ASSUME NEW values \in Seq(Int), NEW sum, IsSum(sum, values, Len(values)),
         NEW squares, IsSum(squares, Squares(values), Len(values))
  PROVE  \A k \in 0..Len(values) :
           /\ sum[k] \in Int /\ squares[k] \in Int
           /\ \A x \in Int : squares[k] - 2 * x * sum[k] + k * (x * x) >= 0
           /\ sum[k] * sum[k] <= k * squares[k]
<1> DEFINE n == Len(values)
<1>0. n \in Nat /\ \A i \in 1..n : values[i] \in Int /\ Squares(values)[i] = values[i] * values[i]
  BY DEF Squares
<1>1. \A k \in 0..n : sum[k] \in Int /\ squares[k] \in Int
  BY DEF IsSum
<1> DEFINE Good == {k \in Nat : k <= n =>
                      /\ \A x \in Int : squares[k] - 2 * x * sum[k] + k * (x * x) >= 0
                      /\ sum[k] * sum[k] <= k * squares[k]}
<1>2. 0 \in Good
  <2>1. sum[0] = 0 /\ squares[0] = 0
    BY DEF IsSum
  <2> QED
    BY <2>1
<1>3. ASSUME NEW k \in Good PROVE k + 1 \in Good
  <2> SUFFICES ASSUME k + 1 <= n
               PROVE  /\ \A x \in Int : squares[k + 1] - 2 * x * sum[k + 1] + (k + 1) * (x * x) >= 0
                      /\ sum[k + 1] * sum[k + 1] <= (k + 1) * squares[k + 1]
    BY <1>3
  <2>1. k \in Nat /\ k + 1 \in 1..n /\ k <= n /\ (k + 1) - 1 = k /\ k \in 0..n
    BY <1>0, <1>3
  <2> DEFINE v == values[k + 1]
             t == sum[k]
             q == squares[k]
  <2>2. v \in Int /\ t \in Int /\ q \in Int
    BY <1>0, <1>1, <2>1
  <2>3. sum[k + 1] = t + v /\ squares[k + 1] = q + v * v
    BY <1>0, <2>1 DEF IsSum
  <2>4. (\A x \in Int : q - 2 * x * t + k * (x * x) >= 0) /\ t * t <= k * q
    BY <1>3, <2>1
  <2> HIDE DEF v, t, q
  <2>5. ASSUME NEW x \in Int
        PROVE  (q + v * v) - 2 * x * (t + v) + (k + 1) * (x * x) >= 0
    <3>1. q - 2 * x * t + k * (x * x) >= 0
      BY <2>4
    <3>2. (q + v * v) - 2 * x * (t + v) + (k + 1) * (x * x)
            = (q - 2 * x * t + k * (x * x)) + (v - x) * (v - x)
      BY <2>1, <2>2
    <3>3. (v - x) * (v - x) >= 0
      BY <2>2
    <3> QED
      BY <2>1, <2>2, <3>1, <3>2, <3>3
  <2>6. (t + v) * (t + v) <= (k + 1) * (q + v * v)
    <3>1. q - 2 * v * t + k * (v * v) >= 0
      BY <2>2, <2>4
    <3>2. (k + 1) * (q + v * v) - (t + v) * (t + v)
            = (k * q - t * t) + (q - 2 * v * t + k * (v * v))
      BY <2>1, <2>2
    <3> QED
      BY <2>1, <2>2, <2>4, <3>1, <3>2
  <2> QED
    BY <2>3, <2>5, <2>6
<1>4. Good = Nat
  <2> HIDE DEF Good
  <2> QED
    BY <1>2, <1>3, SetInduction DEF Good
<1> QED
  BY <1>0, <1>1, <1>4

LEMMA LatestOfSquares ==
  ASSUME NEW n \in Nat \ {0}, NEW v \in Int, NEW t \in Int, NEW q \in Int, t * t <= (n - 1) * q
  PROVE  LET distance == (n * v - (t + v)) * (n * v - (t + v))
             variance == n * (q + v * v) - (t + v) * (t + v)
         IN  distance \in Int /\ variance \in Int /\ distance <= (n - 1) * variance
<1>1. (n * v - (t + v)) * (n * v - (t + v)) \in Int /\ n * (q + v * v) - (t + v) * (t + v) \in Int
  OBVIOUS
<1>2. (n - 1) * (n * (q + v * v) - (t + v) * (t + v)) - (n * v - (t + v)) * (n * v - (t + v))
        = n * ((n - 1) * q - t * t)
  OBVIOUS
<1>3. n * ((n - 1) * q - t * t) >= 0
  OBVIOUS
<1> QED
  BY <1>1, <1>2, <1>3

\* The latest of n values is no further from the mean than the root of n - 1
\* standard deviations.
THEOREM DeviationIsBounded ==
  ASSUME NEW values \in Seq(Int), values # <<>>
  PROVE  /\ Distance(values) \in Int /\ Variance(values) \in Int
         /\ Distance(values) <= (Len(values) - 1) * Variance(values)
<1> DEFINE n == Len(values)
           v == values[n]
<1>0. n \in Nat \ {0} /\ v \in Int /\ n \in 1..n /\ n - 1 \in 0..n
  OBVIOUS
<1>1. PICK sum : IsSum(sum, values, n) /\ Total(values) = sum[n]
  BY TotalIsSum
<1>2. Squares(values) \in Seq(Int) /\ Len(Squares(values)) = n /\ Squares(values)[n] = v * v
  <2>1. Squares(values) = [i \in 1..n |-> values[i] * values[i]]
    BY DEF Squares
  <2>2. \A i \in 1..n : values[i] * values[i] \in Int
    OBVIOUS
  <2> QED
    BY <1>0, <2>1, <2>2
<1>3. PICK squares : IsSum(squares, Squares(values), n) /\ Total(Squares(values)) = squares[n]
  BY <1>2, TotalIsSum
<1> DEFINE t == sum[n - 1]
           q == squares[n - 1]
<1>4. t \in Int /\ q \in Int /\ t * t <= (n - 1) * q
  BY <1>0, <1>1, <1>3, SquaresOfSums
<1>5. Total(values) = t + v /\ Total(Squares(values)) = q + v * v
  BY <1>0, <1>1, <1>2, <1>3 DEF IsSum
<1>6. Distance(values) = (n * v - (t + v)) * (n * v - (t + v))
  BY <1>5 DEF Distance
<1>7. Variance(values) = n * (q + v * v) - (t + v) * (t + v)
  BY <1>5 DEF Variance
<1> HIDE DEF v, t, q
<1>8. /\ Distance(values) \in Int /\ Variance(values) \in Int
      /\ Distance(values) <= (n - 1) * Variance(values)
  <2> HIDE DEF n
  <2> QED
    BY <1>0, <1>4, <1>6, <1>7, LatestOfSquares
<1> QED
  BY <1>8

(* Windows *)

\* What a window can hold of the events.
Readings == {[metrics |-> e.metrics, at |-> e.at] : e \in Arrivals}

LEMMA ReadingTypes ==
  ASSUME NEW r \in Readings
  PROVE  r.at \in Nat /\ \A m \in DOMAIN r.metrics : r.metrics[m] \in Nat
BY MetricsAreMeasured DEF Readings

LEMMA ValuesTyped ==
  ASSUME NEW w \in Seq(Readings), NEW metric, w # <<>>
  PROVE  LET values == Values(w, metric) IN
         /\ Len(w) \in Nat \ {0} /\ DOMAIN w = 1..Len(w)
         /\ values \in Seq(Int) /\ values # <<>> /\ Len(values) = Len(w)
         /\ DOMAIN values = 1..Len(w)
         /\ \A i \in 1..Len(w) : values[i] \in Nat
<1>1. Len(w) \in Nat \ {0} /\ DOMAIN w = 1..Len(w) /\ \A i \in 1..Len(w) : w[i] \in Readings
  BY EmptySeq
<1>2. \A i \in 1..Len(w) : (IF Has(w[i], metric) THEN w[i].metrics[metric] ELSE 0) \in Nat
  BY <1>1, ReadingTypes DEF Has
<1>3. Values(w, metric) = [i \in 1..Len(w) |-> IF Has(w[i], metric) THEN w[i].metrics[metric] ELSE 0]
  BY <1>1 DEF Values
<1>4. \A i \in 1..Len(w) : Values(w, metric)[i] \in Nat
  BY <1>2, <1>3
<1>5. Values(w, metric) \in Seq(Int) /\ Len(Values(w, metric)) = Len(w)
  BY <1>1, <1>2, <1>3
<1>6. Values(w, metric) # <<>>
  BY <1>1, <1>5
<1> QED
  BY <1>1, <1>3, <1>4, <1>5, <1>6

\* A window of n readings passes no z threshold t with t * t > n - 1.
LEMMA BeyondNeedsLength ==
  ASSUME NEW values \in Seq(Int), values # <<>>, NEW t \in Nat, t * t > Len(values) - 1
  PROVE  ~Beyond(values, t)
<1> DEFINE n == Len(values)
           d == Distance(values)
           v == Variance(values)
<1>1. d \in Int /\ v \in Int /\ d <= (n - 1) * v /\ n \in Nat /\ t * t \in Nat
  BY DeviationIsBounded
<1> SUFFICES ASSUME v > 0, d >= t * t * v PROVE FALSE
  BY DEF Beyond
<1>2. t * t * v <= (n - 1) * v
  BY <1>1
<1>3. t * t - (n - 1) >= 1
  BY <1>1
<1> HIDE DEF n, d, v
<1>4. (t * t - (n - 1)) * v >= v
  BY <1>1, <1>3
<1>5. (t * t - (n - 1)) * v = t * t * v - (n - 1) * v
  BY <1>1
<1> QED
  BY <1>1, <1>2, <1>4, <1>5

LEMMA ZScoreOfShortWindow ==
  ASSUME NEW w \in Seq(Readings), w # <<>>, NEW metric
  PROVE  LET z == ZScore(w, metric) IN
         /\ z \in {0, 200, 201, 300, 400, 500}
         /\ Len(w) < 5 => z = 0
         /\ Len(w) < 10 => z <= 201
         /\ Len(w) < 17 => z <= 300
         /\ Len(w) < 26 => z <= 400
<1> DEFINE values == Values(w, metric)
<1>1. values \in Seq(Int) /\ values # <<>> /\ Len(values) = Len(w) /\ Len(w) \in Nat
  BY ValuesTyped
<1> HIDE DEF values
<1>2. Len(w) < 5 => ~Beyond(values, 2)
  BY <1>1, BeyondNeedsLength
<1>3. Len(w) < 10 => ~Beyond(values, 3)
  BY <1>1, BeyondNeedsLength
<1>4. Len(w) < 17 => ~Beyond(values, 4)
  BY <1>1, BeyondNeedsLength
<1>5. Len(w) < 26 => ~Beyond(values, 5)
  BY <1>1, BeyondNeedsLength
<1> QED
  BY <1>1, <1>2, <1>3, <1>4, <1>5 DEF ZScore, values

\* While an event is fanned out, its window is not empty, ends with it and holds
\* events of its key only.
LEMMA ScoredTyped ==
  ASSUME TypeInv, WindowInv, apc = "fanned"
  PROVE  /\ Scored \in Seq(Readings) /\ Scored # <<>>
         /\ LET positions == Latest(window[Key], WindowSize) IN
            /\ DOMAIN Scored = DOMAIN positions
            /\ \A i \in DOMAIN Scored :
                 /\ positions[i] \in DOMAIN stream
                 /\ stream[positions[i]] \in Arrivals
                 /\ WindowKey(stream[positions[i]]) = Key
                 /\ Scored[i].metrics = stream[positions[i]].metrics
<1> DEFINE w == window[Key]
           positions == Latest(w, WindowSize)
<1>1. Key \in Keys /\ w # <<>>
  BY InHand DEF TypeInv, QueueInv, WindowInv
<1>2. w \in Seq(Nat) /\ Run(w, Key)
  BY <1>1 DEF TypeInv, WindowInv, Explained
<1>3. positions \in Seq(Nat) /\ positions # <<>> /\ Run(positions, Key)
  BY <1>1, <1>2, WindowFitsDeque, RunSuffix
<1> HIDE DEF w, positions
<1>4. ASSUME NEW i \in DOMAIN positions
      PROVE  positions[i] \in DOMAIN stream /\ WindowKey(stream[positions[i]]) = Key
  <2>1. positions[i] \in Occurring(positions)
    BY <1>4 DEF Occurring
  <2> QED
    BY <1>3, <2>1 DEF Run, Own
<1>5. \A p \in DOMAIN stream : stream[p] \in Arrivals
  BY DEF TypeInv, QueueInv
<1>6. Scored = [i \in DOMAIN positions |->
                  [metrics |-> stream[positions[i]].metrics, at |-> stream[positions[i]].at]]
  BY DEF Scored, Entries, positions, w
<1>7. \A i \in DOMAIN positions : Scored[i] \in Readings
  BY <1>4, <1>5, <1>6 DEF Readings
<1>8. Len(positions) \in Nat \ {0} /\ DOMAIN positions = 1..Len(positions)
  BY <1>3, EmptySeq
<1>9. Scored \in Seq(Readings) /\ Len(Scored) = Len(positions)
  BY <1>6, <1>7, <1>8
<1>10. Scored # <<>>
  BY <1>8, <1>9
<1> QED
  BY <1>4, <1>5, <1>6, <1>9, <1>10 DEF positions, w

LEMMA RawTyped ==
  ASSUME NEW w \in Seq(Readings), w # <<>>, NEW metric, NEW default \in Int
  PROVE  /\ Raw(w, metric, default) \in Int
         /\ default >= 0 => Raw(w, metric, default) >= 0
         /\ Raw(w, metric, default) = default \/ Raw(w, metric, default) >= 0
<1>1. w[Len(w)] \in Readings
  BY EmptySeq
<1>2. Has(w[Len(w)], metric) => w[Len(w)].metrics[metric] \in Nat
  BY <1>1, ReadingTypes DEF Has
<1> QED
  BY <1>2 DEF Raw

LEMMA VerdictFields ==
  ASSUME NEW m, NEW d \in BOOLEAN, NEW s, NEW c
  PROVE  /\ Verdict(m, d, s, c).detected = d
         /\ Verdict(m, d, s, c).severity = IF d THEN s ELSE "N/A"
         /\ Verdict(m, d, s, c).confidence = c
  BY DEF Verdict

\* What a verdict about load or errors is worth, by the z-score and the value.
LEMMA LoadByValue ==
  ASSUME NEW z \in {0, 200, 201, 300, 400, 500}, NEW c \in Int, NEW m \in Int
  PROVE  LET v == CpuVerdict([z |-> z, cpu |-> c, mem |-> m])
             high == Larger(c, m) IN
         /\ z = 0 => (v.detected <=> high > 7000)
         /\ z <= 201 /\ v.severity \in {"HIGH", "CRITICAL"} => high >= 8500
         /\ z <= 400 /\ v.severity = "CRITICAL" => high >= 9500
<1>1. \A x \in Int : \A critical \in Int : \A h \in Int :
        /\ Graded(x, critical, h) = "CRITICAL" => x >= critical
        /\ Graded(x, critical, h) \in {"HIGH", "CRITICAL"} => x >= critical \/ x >= h
  BY DEF Graded
<1> DEFINE detected == z > 200 \/ c > 7000 \/ m > 7000
           severity == IF z > 200 THEN Graded(z, 500, 300)
                       ELSE IF c > 7000 THEN Graded(c, 9500, 8500) ELSE Graded(m, 9500, 8500)
           v == CpuVerdict([z |-> z, cpu |-> c, mem |-> m])
<1>2. v.detected = detected /\ v.severity = IF detected THEN severity ELSE "N/A"
  <2>1. \E confidence : v = Verdict(cpu, detected, severity, confidence)
    BY DEF CpuVerdict
  <2>2. detected \in BOOLEAN
    OBVIOUS
  <2> HIDE DEF detected, severity, v
  <2> QED
    BY <2>1, <2>2, VerdictFields
<1>3. c <= Larger(c, m) /\ m <= Larger(c, m) /\ Larger(c, m) \in {c, m}
  BY DEF Larger, AtLeast
<1>4. z = 0 => (detected <=> Larger(c, m) > 7000)
  BY <1>3
<1>5. /\ z <= 201 /\ severity \in {"HIGH", "CRITICAL"} => Larger(c, m) >= 8500
      /\ z <= 400 /\ severity = "CRITICAL" => Larger(c, m) >= 9500
  BY <1>1, <1>3
<1>6. detected \in BOOLEAN
  OBVIOUS
<1> HIDE DEF detected, severity
<1>7. v.detected = detected /\ (v.severity \in {"HIGH", "CRITICAL"} => v.severity = severity)
  BY <1>2, <1>6
<1> HIDE DEF v
<1>8. z = 0 => (v.detected <=> Larger(c, m) > 7000)
  BY <1>4, <1>7
<1>9. /\ z <= 201 /\ v.severity \in {"HIGH", "CRITICAL"} => Larger(c, m) >= 8500
      /\ z <= 400 /\ v.severity = "CRITICAL" => Larger(c, m) >= 9500
  BY <1>5, <1>7
<1> QED
  BY <1>8, <1>9 DEF v

LEMMA ErrorsByValue ==
  ASSUME NEW z \in {0, 200, 201, 300, 400, 500}, NEW rate \in Int
  PROVE  LET v == ErrorVerdict([z |-> z, rate |-> rate]) IN
         /\ z = 0 => (v.detected <=> rate > 1000)
         /\ z <= 300 /\ v.severity \in {"HIGH", "CRITICAL"} => rate >= 1800
         /\ z <= 400 /\ v.severity = "CRITICAL" => rate >= 3000
<1>1. \A x \in Int : \A critical \in Int : \A h \in Int :
        /\ Graded(x, critical, h) = "CRITICAL" => x >= critical
        /\ Graded(x, critical, h) \in {"HIGH", "CRITICAL"} => x >= critical \/ x >= h
  BY DEF Graded
<1> DEFINE detected == z > 200 \/ rate > 1000
           severity == IF z > 200 THEN Graded(z, 500, 400) ELSE Graded(rate, 3000, 1800)
           v == ErrorVerdict([z |-> z, rate |-> rate])
<1>2. v.detected = detected /\ v.severity = IF detected THEN severity ELSE "N/A"
  <2>1. \E confidence : v = Verdict(error, detected, severity, confidence)
    BY DEF ErrorVerdict
  <2>2. detected \in BOOLEAN
    OBVIOUS
  <2> HIDE DEF detected, severity, v
  <2> QED
    BY <2>1, <2>2, VerdictFields
<1>3. /\ z <= 300 /\ severity \in {"HIGH", "CRITICAL"} => rate >= 1800
      /\ z <= 400 /\ severity = "CRITICAL" => rate >= 3000
  BY <1>1
<1>4. detected \in BOOLEAN /\ (z = 0 => (detected <=> rate > 1000))
  OBVIOUS
<1> HIDE DEF detected, severity
<1>5. v.detected = detected /\ (v.severity \in {"HIGH", "CRITICAL"} => v.severity = severity)
  BY <1>2, <1>4
<1> HIDE DEF v
<1>6. z = 0 => (v.detected <=> rate > 1000)
  BY <1>4, <1>5
<1>7. /\ z <= 300 /\ v.severity \in {"HIGH", "CRITICAL"} => rate >= 1800
      /\ z <= 400 /\ v.severity = "CRITICAL" => rate >= 3000
  BY <1>3, <1>5
<1> QED
  BY <1>6, <1>7 DEF v

-----------------------------------------------------------------------------
(* Verdicts about a window                                                 *)

LEMMA ScoredAlways ==
  Spec => [](TypeInv /\ WindowInv)
BY TypeAlways, WindowAlways, PTL

\* Neither a start nor a restart makes a detector alarmed at deviations from a
\* past that the window does not hold: load and error rate are judged by the raw
\* thresholds until the window is long enough for the z-score in question.
THEOREM ShortWindowsAreRaw == Spec => []ShortWindowIsRaw
<1>1. TypeInv /\ WindowInv => ShortWindowIsRaw
  <2> SUFFICES ASSUME TypeInv, WindowInv, apc = "fanned" PROVE ShortWindowIsRaw
    BY DEF ShortWindowIsRaw
  <2> DEFINE w == Scored
             Z == {0, 200, 201, 300, 400, 500}
             zc == ZScore(w, "cpu_percent")
             zm == ZScore(w, "mem_percent")
             ze == ZScore(w, "error_rate_percent")
             z == Larger(zc, zm)
             c == Raw(w, "cpu_percent", 0)
             m == Raw(w, "mem_percent", 0)
             rate == Raw(w, "error_rate_percent", 0)
             n == Len(w)
             load == CpuSample(w)
             errors == ErrorSample(w)
  <2>1. w \in Seq(Readings) /\ w # <<>>
    BY ScoredTyped
  <2>2. /\ zc \in Z /\ zm \in Z /\ ze \in Z
        /\ n < 5 => zc = 0 /\ zm = 0 /\ ze = 0
        /\ n < 10 => zc <= 201 /\ zm <= 201
        /\ n < 17 => ze <= 300
        /\ n < 26 => zc <= 400 /\ zm <= 400 /\ ze <= 400
    BY <2>1, ZScoreOfShortWindow
  <2>3. c \in Int /\ m \in Int /\ rate \in Int
    BY <2>1, RawTyped
  <2>4. load = [z |-> z, cpu |-> c, mem |-> m] /\ errors = [z |-> ze, rate |-> rate]
    BY DEF CpuSample, ErrorSample
  <2> HIDE DEF zc, zm, ze, c, m, rate, load, errors
  <2>5. /\ z \in Z /\ (n < 5 => z = 0) /\ (n < 10 => z <= 201) /\ (n < 26 => z <= 400)
    BY <2>2 DEF Larger, AtLeast
  <2> HIDE DEF z, w, n
  <2>6. /\ z = 0 => (CpuVerdict(load).detected <=> Larger(c, m) > 7000)
        /\ z <= 201 /\ CpuVerdict(load).severity \in Severe => Larger(c, m) >= 8500
        /\ z <= 400 /\ CpuVerdict(load).severity = "CRITICAL" => Larger(c, m) >= 9500
    BY <2>3, <2>4, <2>5, LoadByValue DEF Severe
  <2>7. /\ ze = 0 => (ErrorVerdict(errors).detected <=> rate > 1000)
        /\ ze <= 300 /\ ErrorVerdict(errors).severity \in Severe => rate >= 1800
        /\ ze <= 400 /\ ErrorVerdict(errors).severity = "CRITICAL" => rate >= 3000
    BY <2>2, <2>3, <2>4, ErrorsByValue DEF Severe
  <2>8. load.cpu = c /\ load.mem = m /\ errors.rate = rate
    BY <2>4
  <2>9. /\ n < 5 => /\ CpuVerdict(load).detected <=> Larger(c, m) > 7000
                    /\ ErrorVerdict(errors).detected <=> rate > 1000
        /\ n < 10 /\ CpuVerdict(load).severity \in Severe => Larger(c, m) >= 8500
        /\ n < 17 /\ ErrorVerdict(errors).severity \in Severe => rate >= 1800
        /\ n < 26 /\ CpuVerdict(load).severity = "CRITICAL" => Larger(c, m) >= 9500
        /\ n < 26 /\ ErrorVerdict(errors).severity = "CRITICAL" => rate >= 3000
    BY <2>2, <2>5, <2>6, <2>7
  <2> QED
    BY <2>8, <2>9 DEF ShortWindowIsRaw, load, errors, w, n
<1> QED
  BY <1>1, ScoredAlways, PTL

LEMMA QuotientBounds ==
  ASSUME NEW a \in Int, NEW b \in Nat \ {0}, NEW q \in Int
  PROVE  /\ a \div b \in Int
         /\ a <= q * b => a \div b <= q
         /\ a >= q * b => a \div b >= q
OBVIOUS

\* The rate of authentication failures is an average of the readings of the last
\* minute.
LEMMA AuthRateIsAverage ==
  ASSUME NEW w \in Seq(Readings), w # <<>>, NEW b \in Int, LastMinute(w) # {}
  PROVE  LET rate(i) == w[i].metrics["auth_failures_per_min"] IN
         /\ AuthRate(w) \in Int
         /\ (\A i \in LastMinute(w) : rate(i) <= b) => AuthRate(w) <= 100 * b
         /\ (\A i \in LastMinute(w) : rate(i) >= b) => AuthRate(w) >= 100 * b
<1> DEFINE rate(i) == w[i].metrics["auth_failures_per_min"]
           minute == LastMinute(w)
           rates == [i \in DOMAIN w |-> IF i \in minute THEN rate(i) ELSE 0]
           n == Cardinality(minute)
           t == Total(rates)
<1>1. Len(w) \in Nat \ {0} /\ DOMAIN w = 1..Len(w) /\ \A i \in 1..Len(w) : w[i] \in Readings
  BY EmptySeq
<1>2. minute \subseteq 1..Len(w) /\ \A i \in minute : rate(i) \in Nat
  BY <1>1, ReadingTypes DEF LastMinute, Has
<1>3. n \in Nat \ {0}
  <2>1. IsFiniteSet(1..Len(w))
    BY <1>1, FS_Interval
  <2> HIDE DEF minute
  <2>2. IsFiniteSet(minute)
    BY <1>2, <2>1, FS_Subset
  <2> QED
    BY <2>2, FS_EmptySet, FS_CardinalityType DEF minute
<1>4. AuthRate(w) = (100 * t) \div n
  BY DEF AuthRate
<1>5. /\ rates \in Seq(Int) /\ DOMAIN rates = 1..Len(w)
      /\ \A i \in minute : rates[i] = rate(i)
      /\ \A i \in DOMAIN rates \ minute : rates[i] = 0
  <2>1. \A i \in 1..Len(w) : (IF i \in minute THEN rate(i) ELSE 0) \in Int
    BY <1>2
  <2>2. \A i \in minute : i \in 1..Len(w)
    BY <1>2
  <2> HIDE DEF minute, rate
  <2> QED
    BY <1>1, <2>1, <2>2
<1> HIDE DEF minute, rates
<1>6. t \in Int
  <2>1. \E sum : IsSum(sum, rates, Len(rates)) /\ t = sum[Len(rates)]
    BY <1>5, TotalIsSum
  <2> QED
    BY <1>5, <2>1 DEF IsSum
<1>7. (\A i \in minute : rate(i) <= b) => t <= b * n
  BY <1>2, <1>5, TotalAtMost
<1>8. (\A i \in minute : rate(i) >= b) => t >= b * n
  BY <1>2, <1>5, TotalAtLeast
<1> HIDE DEF n, t
<1>9. /\ t <= b * n => 100 * t <= (100 * b) * n
      /\ t >= b * n => 100 * t >= (100 * b) * n
      /\ 100 * t \in Int /\ 100 * b \in Int
  BY <1>3, <1>6
<1>10. /\ (100 * t) \div n \in Int
       /\ 100 * t <= (100 * b) * n => (100 * t) \div n <= 100 * b
       /\ 100 * t >= (100 * b) * n => (100 * t) \div n >= 100 * b
  BY <1>3, <1>9, QuotientBounds
<1> QED
  BY <1>4, <1>7, <1>8, <1>9, <1>10 DEF minute

\* An old flood that a window still holds raises no alarm, and a calm that it
\* still holds hides none.
THEOREM FloodsAreOfTheMinute == Spec => []FloodIsOfTheMinute
<1>1. TypeInv /\ WindowInv => FloodIsOfTheMinute
  <2> SUFFICES ASSUME TypeInv, WindowInv, apc = "fanned" PROVE FloodIsOfTheMinute
    BY DEF FloodIsOfTheMinute
  <2> DEFINE w == Scored
             rate(i) == w[i].metrics["auth_failures_per_min"]
             minute == LastMinute(w)
             over == {i \in minute : rate(i) > 20}
             alarm == AuthVerdict(AuthSample(w)).detected
  <2>1. w \in Seq(Readings) /\ w # <<>>
    BY ScoredTyped
  <2>2. \A i \in minute : rate(i) \in Nat
    <3>1. \A i \in minute : i \in DOMAIN w /\ Has(w[i], "auth_failures_per_min")
      BY DEF LastMinute
    <3>2. \A i \in DOMAIN w : w[i] \in Readings
      BY <2>1
    <3> QED
      BY <3>1, <3>2, ReadingTypes DEF Has
  <2> HIDE DEF w
  <2>3. (AuthRate(w) > 2000 => alarm) /\ (~(AuthRate(w) > 2000) => ~alarm)
    <3> DEFINE s == AuthSample(w)
               detected == s.rate > 2000
    <3>1. s.rate = AuthRate(w)
      BY DEF AuthSample
    <3>2. \E severity, confidence : AuthVerdict(s) = Verdict(auth, detected, severity, confidence)
      BY DEF AuthVerdict
    <3>3. detected \in BOOLEAN
      OBVIOUS
    <3>4. AuthVerdict(s).detected = detected
      <4> HIDE DEF detected, s
      <4> QED
        BY <3>2, <3>3, VerdictFields
    <3> HIDE DEF detected, s
    <3>5. (detected => AuthVerdict(s).detected) /\ (~detected => ~AuthVerdict(s).detected)
      BY <3>3, <3>4
    <3> QED
      BY <3>1, <3>5 DEF detected, s
  <2> HIDE DEF alarm
  <2>4. ASSUME alarm PROVE over # {}
    <3> SUFFICES ASSUME \A i \in minute : ~(rate(i) > 20) PROVE FALSE
      BY DEF over
    <3>1. minute # {}
      <4> SUFFICES ASSUME minute = {} PROVE FALSE
        OBVIOUS
      <4>1. AuthRate(w) = 0
        BY DEF AuthRate
      <4>2. ~(AuthRate(w) > 2000)
        BY <4>1
      <4> QED
        BY <2>3, <2>4, <4>2
    <3>2. \A i \in minute : rate(i) <= 20
      BY <2>2
    <3>3. AuthRate(w) \in Int /\ AuthRate(w) <= 100 * 20
      BY <2>1, <3>1, <3>2, AuthRateIsAverage
    <3>4. ~(AuthRate(w) > 2000)
      BY <3>3
    <3> QED
      BY <2>3, <2>4, <3>4
  <2>5. ASSUME minute # {}, over = minute PROVE alarm
    <3>1. \A i \in minute : rate(i) >= 21
      BY <2>2, <2>5
    <3>2. AuthRate(w) \in Int /\ AuthRate(w) >= 100 * 21
      BY <2>1, <2>5, <3>1, AuthRateIsAverage
    <3>3. AuthRate(w) > 2000
      BY <3>2
    <3> QED
      BY <2>3, <3>3
  <2>6. minute = {i \in DOMAIN w : /\ w[i].at >= w[Len(w)].at - 60
                                   /\ Has(w[i], "auth_failures_per_min")}
    BY DEF LastMinute
  <2> HIDE DEF minute, over
  <2>7. (alarm => over # {}) /\ (minute # {} /\ over = minute => alarm)
    BY <2>4, <2>5
  <2> QED
    BY <2>6, <2>7 DEF FloodIsOfTheMinute, alarm, over, w
<1> QED
  BY <1>1, ScoredAlways, PTL

\* An average lies between the bounds of the values that it is made of.
LEMMA AverageBounds ==
  ASSUME NEW values \in Seq(Int), values # <<>>, NEW n \in Nat \ {0}, NEW b \in Int
  PROVE  LET recent == {i \in DOMAIN values : i > Len(values) - n} IN
         /\ Average(values, n) \in Int
         /\ (\A i \in recent : values[i] <= b) => Average(values, n) <= 100 * b
         /\ (\A i \in recent : values[i] >= b) => Average(values, n) >= 100 * b
<1> DEFINE l == Len(values)
           first == IF l > n THEN l - n + 1 ELSE 1
           r == Latest(values, n)
           k == Len(r)
           t == Total(r)
           recent == {i \in DOMAIN values : i > l - n}
<1>1. l \in Nat \ {0} /\ DOMAIN values = 1..l /\ \A i \in 1..l : values[i] \in Int
  BY EmptySeq
<1>2. first \in Int /\ first >= 1 /\ first <= l /\ first <= l + 1 /\ first > l - n
  BY <1>1
<1>3. /\ r \in Seq(Int) /\ k = l - first + 1
      /\ \A i \in 1..k : r[i] = values[first + i - 1]
  <2>1. \A i \in first..l : values[i] \in Int
    BY <1>1, <1>2
  <2>2. r = SubSeq(values, first, l)
    BY DEF Latest
  <2> HIDE DEF first, r, l
  <2>3. /\ r \in Seq(Int) /\ k = IF first <= l THEN l - first + 1 ELSE 0
        /\ \A i \in 1..l - first + 1 : r[i] = values[first + i - 1]
    BY <1>1, <1>2, <2>1, <2>2, SubSeqProperties
  <2> QED
    BY <1>2, <2>3
<1> HIDE DEF first, r, k
<1>4. k \in Nat \ {0} /\ DOMAIN r = 1..k
  <2>1. k \in Nat \ {0}
    BY <1>1, <1>2, <1>3
  <2> QED
    BY <1>3, <2>1, LenProperties DEF k
<1>5. \A i \in 1..k : first + i - 1 \in recent
  BY <1>1, <1>2, <1>3, <1>4
<1>6. t \in Int
  <2>1. \E sum : IsSum(sum, r, k) /\ t = sum[k]
    BY <1>3, TotalIsSum DEF k
  <2> QED
    BY <1>4, <2>1 DEF IsSum
<1>7. Cardinality(1..k) = k
  BY <1>4, FS_Interval
<1>8. (\A i \in recent : values[i] <= b) => t <= b * k
  <2>1. (\A i \in recent : values[i] <= b) => \A i \in 1..k : r[i] <= b
    BY <1>3, <1>5
  <2>2. (\A i \in 1..k : r[i] <= b) => t <= b * Cardinality(1..k)
    BY <1>3, <1>4, TotalAtMost
  <2> QED
    BY <1>7, <2>1, <2>2
<1>9. (\A i \in recent : values[i] >= b) => t >= b * k
  <2>1. (\A i \in recent : values[i] >= b) => \A i \in 1..k : r[i] >= b
    BY <1>3, <1>5
  <2>2. (\A i \in 1..k : r[i] >= b) => t >= b * Cardinality(1..k)
    BY <1>3, <1>4, TotalAtLeast
  <2> QED
    BY <1>7, <2>1, <2>2
<1>10. Average(values, n) = (100 * t) \div k
  BY DEF Average, r, k
<1> HIDE DEF t, recent, l
<1>11. /\ t <= b * k => 100 * t <= (100 * b) * k
       /\ t >= b * k => 100 * t >= (100 * b) * k
       /\ 100 * t \in Int /\ 100 * b \in Int
  BY <1>4, <1>6
<1>12. /\ (100 * t) \div k \in Int
       /\ 100 * t <= (100 * b) * k => (100 * t) \div k <= 100 * b
       /\ 100 * t >= (100 * b) * k => (100 * t) \div k >= 100 * b
  BY <1>4, <1>11, QuotientBounds
<1> QED
  BY <1>8, <1>9, <1>10, <1>11, <1>12 DEF recent, l

\* If no recent value is small in proportion to another, no average is.
LEMMA NoDropWithoutCause ==
  ASSUME NEW values \in Seq(Int), values # <<>>, \A i \in DOMAIN values : values[i] \in Nat,
         \A i, j \in DOMAIN values :
           i > Len(values) - 5 /\ j > Len(values) - 20 => 10 * values[i] >= 4 * values[j]
  PROVE  /\ Average(values, 5) \in Int /\ Average(values, 20) \in Int
         /\ 10 * Average(values, 5) >= 4 * Average(values, 20)
<1> DEFINE l == Len(values)
           last == {i \in DOMAIN values : i > l - 5}
           flows == {values[i] : i \in last}
<1>1. l \in Nat \ {0} /\ l \in DOMAIN values
  BY EmptySeq
<1>2. flows \in SUBSET Nat /\ values[l] \in flows
  BY <1>1
<1> HIDE DEF flows
<1>3. PICK m \in flows : \A x \in flows : m <= x
  BY <1>2, LeastNatural
<1>4. m \in Nat
  BY <1>2
<1>5. \A i \in DOMAIN values : i > l - 5 => values[i] >= m
  BY <1>2, <1>3 DEF flows
<1>6. PICK k \in DOMAIN values : k > l - 5 /\ m = values[k]
  BY DEF flows
<1> DEFINE b == (10 * m) \div 4
<1>7. b \in Int /\ 4 * b <= 10 * m /\ \A x \in Nat : 4 * x <= 10 * m => x <= b
  BY <1>4
<1>8. \A j \in DOMAIN values : j > l - 20 => values[j] <= b
  <2> SUFFICES ASSUME NEW j \in DOMAIN values, j > l - 20 PROVE values[j] <= b
    OBVIOUS
  <2>1. values[j] \in Nat /\ 10 * m >= 4 * values[j]
    BY <1>6
  <2> HIDE DEF b
  <2> QED
    BY <1>4, <1>7, <2>1
<1> HIDE DEF b
<1>9. Average(values, 20) \in Int /\ Average(values, 20) <= 100 * b
  <2>1. 20 \in Nat \ {0} /\ \A j \in {i \in DOMAIN values : i > Len(values) - 20} : values[j] <= b
    BY <1>8
  <2> QED
    BY <1>7, <2>1, AverageBounds
<1>10. Average(values, 5) \in Int /\ Average(values, 5) >= 100 * m
  BY <1>4, <1>5, AverageBounds
<1> QED
  BY <1>4, <1>7, <1>9, <1>10

Measured(x) == x.raw \in Int /\ (x.raw = Absent \/ x.raw >= 0)

LEMMA DetectedDrop ==
  \A x : Measured(x) /\ ThroughputVerdict(x).detected => Dropped(x) \/ x.raw \in LowReadings
<1> SUFFICES ASSUME NEW x, Measured(x)
             PROVE  ThroughputVerdict(x).detected => Dropped(x) \/ x.raw \in LowReadings
  OBVIOUS
<1> DEFINE detected == Silent(x) \/ Dropped(x) \/ Low(x)
           found == ThroughputVerdict(x).detected
<1>1. \E severity, confidence :
        ThroughputVerdict(x) = Verdict(throughput, detected, severity, confidence)
  BY DEF ThroughputVerdict
<1>2. detected \in BOOLEAN
  BY DEF Silent, Dropped, Low
<1>3. Silent(x) \/ Low(x) => x.raw \in LowReadings
  <2>1. Silent(x) \/ Low(x) => x.raw # Absent /\ x.raw < 4000
    BY DEF Silent, Low, Measured
  <2> DEFINE raw == x.raw
  <2>2. raw \in Int /\ (raw = Absent \/ raw >= 0)
    BY DEF Measured
  <2> HIDE DEF raw
  <2>3. raw # Absent /\ raw < 4000 => raw \in LowReadings
    BY <2>2 DEF LowReadings
  <2> QED
    BY <2>1, <2>3 DEF raw
<1>4. detected => Dropped(x) \/ x.raw \in LowReadings
  BY <1>3
<1> HIDE DEF detected
<1>5. found = detected
  BY <1>1, <1>2, VerdictFields
<1> HIDE DEF found
<1>6. found => detected
  BY <1>2, <1>5
<1> QED
  BY <1>4, <1>6 DEF found

LEMMA ThroughputHasCause ==
  ASSUME NEW w \in Seq(Readings), w # <<>>, NEW now
  PROVE  NoneOrCause(w, now)
<1> DEFINE values == Values(w, "messages_per_second")
           x == ThroughputSample(w, now)
           short == MovingAverage(w, "messages_per_second", 5)
           long == MovingAverage(w, "messages_per_second", 20)
<1>1. /\ values \in Seq(Int) /\ values # <<>> /\ Len(values) = Len(w)
      /\ DOMAIN values = DOMAIN w /\ \A i \in DOMAIN values : values[i] \in Nat
  BY ValuesTyped
<1>2. x.raw = Raw(w, "messages_per_second", Absent) /\ x.short = short /\ x.long = long
  BY DEF ThroughputSample
<1> HIDE DEF x
<1>3. Measured(x)
  BY <1>2, RawTyped DEF Absent, Measured
<1>4. ASSUME Dropped(x),
             \A i \in {i \in DOMAIN w : i > Len(w) - 5}, j \in {i \in DOMAIN w : i > Len(w) - 20} :
               ~(10 * values[i] < 4 * values[j])
      PROVE  FALSE
  <2>1. long # 0
    BY <1>2, <1>4 DEF Dropped
  <2>2. short = Average(values, 5) /\ long = Average(values, 20)
    BY <2>1 DEF MovingAverage
  <2> HIDE DEF short, long, values
  <2>3. \A i, j \in DOMAIN values :
          i > Len(values) - 5 /\ j > Len(values) - 20 => 10 * values[i] >= 4 * values[j]
    <3>1. \A i, j \in DOMAIN values : ~(10 * values[i] < 4 * values[j]) => 10 * values[i] >= 4 * values[j]
      BY <1>1
    <3> QED
      BY <1>1, <1>4, <3>1
  <2>4. /\ Average(values, 5) \in Int /\ Average(values, 20) \in Int
        /\ 10 * Average(values, 5) >= 4 * Average(values, 20)
    BY <1>1, <2>3, NoDropWithoutCause
  <2> QED
    BY <1>2, <1>4, <2>2, <2>4 DEF Dropped
<1> HIDE DEF values
<1>5. Dropped(x) => \E i \in {i \in DOMAIN w : i > Len(w) - 5}, j \in {i \in DOMAIN w : i > Len(w) - 20} :
                     10 * values[i] < 4 * values[j]
  BY <1>4, Zenon
<1>6. Dropped(x) => HasFallen(w)
  BY <1>5, Zenon DEF HasFallen, values
<1>7. ThroughputVerdict(x).detected => x.raw \in LowReadings \/ HasFallen(w)
  BY <1>3, <1>6, DetectedDrop
<1> QED
  BY <1>7, Zenon DEF x, NoneOrCause

\* However late an event is scored, the throughput alarm needs a low reading or
\* a fall among the readings: the sentinel for a silence without end raises none.
THEOREM DropsHaveCause == Spec => []DropHasCause
<1>1. TypeInv /\ WindowInv /\ apc = "fanned" => Scored \in Seq(Readings) /\ Scored # <<>>
  BY ScoredTyped
<1>2. TypeInv /\ WindowInv => DropHasCause
  BY <1>1, ThroughputHasCause DEF DropHasCause
<1> QED
  BY <1>2, ScoredAlways, PTL

\* All events that the factory gives to a component carry the same of the watched
\* metrics: a spike overwrites normal metrics, and what a value shift is put on
\* has no other events that pass the Validator.
THEOREM GeneratedEventsAreAlike ==
  ASSUME \A e \in Arrivals : Generated(e)
  PROVE  CarryTheSame
<1> DEFINE replay == "Loghub replay adapter"
<1>1. \A kind \in Spikes, severity \in {"MEDIUM", "HIGH", "CRITICAL"} :
        Watched \subseteq DOMAIN Ranges(kind, severity)
  <2>1. \A f, g : DOMAIN f \union DOMAIN g = DOMAIN Overwritten(f, g)
    BY DEF Overwritten
  <2>2. Watched \subseteq DOMAIN NORMAL_METRICS
    BY DEF Watched, NORMAL_METRICS
  <2>3. \A kind \in Spikes : \A severity :
          Ranges(kind, severity) = Overwritten(NORMAL_METRICS, ANOMALY_METRICS[kind][severity])
    <3>1. \A kind \in Spikes : kind # "NORMAL" /\ kind # "value_shift"
      BY DEF Spikes
    <3> QED
      BY <3>1, Zenon DEF Ranges
  <2>4. \A f : Watched \subseteq DOMAIN Overwritten(NORMAL_METRICS, f)
    BY <2>1, <2>2
  <2> QED
    BY <2>3, <2>4, Zenon
<1>2. \A severity : Watched \subseteq DOMAIN Ranges("NORMAL", severity)
  BY DEF Ranges, Watched, NORMAL_METRICS, Spikes
<1>3. \A severity : Watched \cap DOMAIN Ranges("value_shift", severity) = {"cpu_percent"}
  BY DEF Ranges, Watched, Spikes
<1>4. \A kind \in Kinds : Body(kind) = "valid" =>
        kind \in Spikes \/ kind = "NORMAL" \/ kind = "value_shift"
  BY DEF Kinds, Drifts, Body
<1>5. \A kind \in Spikes \union {"NORMAL"} : replay \notin COMPONENTS[kind]
  BY DEF COMPONENTS, Kinds, Spikes
<1>6. COMPONENTS["value_shift"] = {replay}
  BY DEF COMPONENTS, Kinds, Drifts
<1>7. ASSUME NEW e \in Arrivals
      PROVE  Watched \cap DOMAIN e.metrics = IF e.component = replay THEN {"cpu_percent"} ELSE Watched
  <2>1. PICK kind \in Kinds, severity \in {"MEDIUM", "HIGH", "CRITICAL", "N/A"} :
          /\ Body(kind) = "valid"
          /\ (severity = "N/A") = (kind = "NORMAL")
          /\ e.component \in COMPONENTS[kind]
          /\ DOMAIN e.metrics = DOMAIN Ranges(kind, severity)
    BY DEF Generated
  <2>2. CASE kind \in Spikes
    <3>1. kind # "NORMAL" /\ severity # "N/A"
      BY <2>1, <2>2 DEF Spikes
    <3>2. severity \in {"MEDIUM", "HIGH", "CRITICAL"}
      BY <3>1
    <3>3. Watched \subseteq DOMAIN e.metrics
      BY <1>1, <2>1, <2>2, <3>2
    <3>4. e.component # replay
      BY <1>5, <2>1, <2>2
    <3> QED
      BY <3>3, <3>4
  <2>3. CASE kind = "NORMAL"
    <3>1. Watched \subseteq DOMAIN e.metrics /\ e.component # replay
      BY <1>2, <1>5, <2>1, <2>3
    <3> QED
      BY <3>1
  <2>4. CASE kind = "value_shift"
    BY <1>3, <1>6, <2>1, <2>4
  <2> QED
    BY <1>4, <2>1, <2>2, <2>3, <2>4
<1>8. ASSUME NEW e \in Arrivals, NEW f \in Arrivals, WindowKey(e) = WindowKey(f)
      PROVE  Watched \cap DOMAIN e.metrics = Watched \cap DOMAIN f.metrics
  <2>1. e.component = f.component
    BY <1>8 DEF WindowKey
  <2> QED
    BY <1>7, <2>1
<1> QED
  BY <1>8 DEF CarryTheSame

\* No statistic of a detector is about a metric that a part of the window does not
\* carry, and so none about zeros that nobody measured.
THEOREM ZerosAreMeasured ==
  ASSUME CarryTheSame
  PROVE  Spec => []NoFictitiousZero
<1>1. TypeInv /\ WindowInv => NoFictitiousZero
  <2> SUFFICES ASSUME TypeInv, WindowInv, apc = "fanned", NEW metric \in Watched,
                      NEW i \in DOMAIN Scored, NEW j \in DOMAIN Scored, Has(Scored[i], metric)
               PROVE  Has(Scored[j], metric)
    BY DEF NoFictitiousZero
  <2> DEFINE positions == Latest(window[Key], WindowSize)
             e == stream[positions[i]]
             f == stream[positions[j]]
  <2>1. /\ e \in Arrivals /\ WindowKey(e) = Key /\ Scored[i].metrics = e.metrics
        /\ f \in Arrivals /\ WindowKey(f) = Key /\ Scored[j].metrics = f.metrics
    BY ScoredTyped
  <2> HIDE DEF e, f
  <2>2. Watched \cap DOMAIN e.metrics = Watched \cap DOMAIN f.metrics
    BY <2>1 DEF CarryTheSame
  <2> QED
    BY <2>1, <2>2 DEF Has
<1> QED
  BY <1>1, ScoredAlways, PTL
=============================================================================
