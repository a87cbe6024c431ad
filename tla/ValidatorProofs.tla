--------------------------- MODULE ValidatorProofs ---------------------------
(***************************************************************************)
(* Safety of the Validator for every set of messages on raw.events and     *)
(* every number of deaths, by itself and between the generator and the ADM *)
(* Runner.                                                                 *)
(***************************************************************************)
EXTENDS Intake, DataFacts

Label == [flag : BOOLEAN, life : Nat]

\* The types; the queue holds what was emitted, each message once; there is a
\* message in hand while one is handled.
TypeOK ==
  /\ emitted \subseteq RawMessages
  /\ raw \in Seq(emitted)
  /\ \A i, j \in DOMAIN raw : raw[i] = raw[j] => i = j
  /\ vpc \in {"idle", "checked", "published"}
  /\ vpc # "idle" => raw # <<>>
  /\ flag \in BOOLEAN
  /\ validated \in Seq(RawMessages)
  /\ labels \in Seq(Label)
  /\ Len(labels) = Len(validated)
  /\ bypassed \in Seq(RawMessages)
  /\ crashes \in Nat

\* The message in hand, and what is left of the queue without it.
LEMMA HeadFacts ==
  ASSUME TypeOK, raw # <<>>
  PROVE  /\ Current \in emitted /\ Current \in RawMessages
         /\ Tail(raw) \in Seq(emitted)
         /\ \A i, j \in DOMAIN Tail(raw) : Tail(raw)[i] = Tail(raw)[j] => i = j
         /\ Holds(raw, Current)
         /\ \A m : Holds(Tail(raw), m) <=> Holds(raw, m) /\ m # Current
<1> USE DEF TypeOK, Current
<1>1. Current \in emitted /\ Current \in RawMessages /\ Tail(raw) \in Seq(emitted)
      /\ Current = raw[1]
  BY TailFacts
<1>2. /\ Len(raw) \in Nat \ {0} /\ DOMAIN raw = 1..Len(raw)
      /\ DOMAIN Tail(raw) = 1..Len(raw) - 1
      /\ \A i \in 1..Len(raw) - 1 : Tail(raw)[i] = raw[i + 1]
  BY TailFacts
<1>3. \A i, j \in DOMAIN Tail(raw) : Tail(raw)[i] = Tail(raw)[j] => i = j
  <2> SUFFICES ASSUME NEW i \in 1..Len(raw) - 1, NEW j \in 1..Len(raw) - 1,
                      Tail(raw)[i] = Tail(raw)[j]
               PROVE  i = j
    BY <1>2
  <2>1. i + 1 \in DOMAIN raw /\ j + 1 \in DOMAIN raw /\ raw[i + 1] = raw[j + 1]
    BY <1>2
  <2>2. i + 1 = j + 1
    BY <2>1
  <2> QED
    BY <2>2
<1>4. 1 \in DOMAIN raw
  BY <1>2
<1>5. Holds(raw, Current)
  BY <1>1, <1>4 DEF Holds
<1>6. ASSUME NEW m, Holds(Tail(raw), m) PROVE Holds(raw, m) /\ m # Current
  <2>1. PICK i \in 1..Len(raw) - 1 : Tail(raw)[i] = m
    BY <1>2, <1>6 DEF Holds
  <2>2. i + 1 \in DOMAIN raw /\ raw[i + 1] = m /\ i + 1 # 1
    BY <1>2, <2>1
  <2> QED
    BY <1>1, <1>4, <2>2 DEF Holds
<1>7. ASSUME NEW m, Holds(raw, m), m # Current PROVE Holds(Tail(raw), m)
  <2>1. PICK i \in DOMAIN raw : raw[i] = m
    BY <1>7 DEF Holds
  <2>2. i - 1 \in 1..Len(raw) - 1 /\ Tail(raw)[i - 1] = m
    BY <1>1, <1>2, <1>7, <2>1
  <2> QED
    BY <1>2, <2>2 DEF Holds
<1> QED
  BY <1>1, <1>3, <1>5, <1>6, <1>7

\* The queue after a message was published on it that it did not hold.
LEMMA EmitFacts ==
  ASSUME TypeOK, NEW m \in RawMessages, Emit(m)
  PROVE  /\ raw' \in Seq(emitted')
         /\ \A i, j \in DOMAIN raw' : raw'[i] = raw'[j] => i = j
         /\ raw' # <<>>
         /\ \A x : Holds(raw', x) <=> Holds(raw, x) \/ x = m
         /\ raw # <<>> => Current' = Current
<1> USE DEF TypeOK, Emit
<1>1. raw \in Seq(emitted') /\ m \in emitted' /\ raw' = Append(raw, m)
  BY SeqMonotonic
<1>2. /\ raw' \in Seq(emitted') /\ raw' # <<>>
      /\ Len(raw) \in Nat /\ DOMAIN raw = 1..Len(raw) /\ DOMAIN raw' = 1..Len(raw) + 1
      /\ raw'[Len(raw) + 1] = m
      /\ \A i \in 1..Len(raw) : raw'[i] = raw[i]
  BY <1>1, AppendFacts
<1>3. \A i \in 1..Len(raw) : raw[i] # m
  BY <1>2, ElementOfSeq
<1>4. \A i, j \in DOMAIN raw' : raw'[i] = raw'[j] => i = j
  BY <1>2, <1>3
<1>5. \A x : Holds(raw', x) <=> Holds(raw, x) \/ x = m
  <2>1. Len(raw) + 1 \in DOMAIN raw' /\ \A i \in DOMAIN raw : i \in DOMAIN raw'
    BY <1>2
  <2>2. \A i \in DOMAIN raw' : i \in DOMAIN raw \/ i = Len(raw) + 1
    BY <1>2
  <2> QED
    BY <1>2, <2>1, <2>2 DEF Holds
<1>6. raw # <<>> => Current' = Current
  BY <1>1, AppendHead DEF Current
<1> QED
  BY <1>2, <1>4, <1>5, <1>6

\* Every state keeps the types, and the queue is as TypeOK says.
LEMMA TypeCorrect == Spec => []TypeOK
<1>1. ASSUME Init PROVE TypeOK
  <2>1. /\ raw \in Seq(emitted) /\ DOMAIN raw = {}
        /\ validated \in Seq(RawMessages) /\ labels \in Seq(Label) /\ bypassed \in Seq(RawMessages)
    BY <1>1, EmptySeq DEF Init
  <2> QED
    BY <1>1, <2>1 DEF Init, TypeOK
<1>2. TypeOK /\ [Next]_vars => TypeOK'
  <2> SUFFICES ASSUME TypeOK, [Next]_vars PROVE TypeOK'
    OBVIOUS
  <2>1. ASSUME NEW m \in RawMessages, Emit(m) PROVE TypeOK'
    <3>1. /\ raw' \in Seq(emitted') /\ raw' # <<>>
          /\ \A i, j \in DOMAIN raw' : raw'[i] = raw'[j] => i = j
      BY <2>1, EmitFacts
    <3> QED
      BY <2>1, <3>1 DEF TypeOK, Emit
  <2>2. CASE RejectGarbage
    BY <2>2, HeadFacts DEF RejectGarbage, TypeOK
  <2>3. CASE Remember
    BY <2>3 DEF Remember, TypeOK
  <2>9. CASE Raise
    BY <2>9 DEF Raise, TypeOK
  <2>4. CASE Forward
    <3>1. Current \in RawMessages
      BY <2>4, HeadFacts DEF Forward, TypeOK
    <3>2. [flag |-> flag, life |-> crashes] \in Label
      BY DEF TypeOK, Label
    <3>3. validated' \in Seq(RawMessages) /\ Len(validated') = Len(validated) + 1
      BY <2>4, <3>1, AppendFacts DEF Forward, TypeOK
    <3>4. labels' \in Seq(Label) /\ Len(labels') = Len(labels) + 1
      BY <2>4, <3>2, AppendFacts DEF Forward, TypeOK
    <3> QED
      BY <2>4, <3>3, <3>4 DEF Forward, TypeOK
  <2>5. CASE Bypass
    <3>1. Current \in RawMessages
      BY <2>5, HeadFacts DEF Bypass, TypeOK
    <3>2. bypassed' \in Seq(RawMessages)
      BY <2>5, <3>1, AppendFacts DEF Bypass, TypeOK
    <3> QED
      BY <2>5, <3>2 DEF Bypass, TypeOK
  <2>6. CASE Ack
    BY <2>6, HeadFacts DEF Ack, TypeOK
  <2>7. CASE Crash
    <3>1. UNCHANGED <<emitted, raw, validated, labels, bypassed>> /\ crashes' = crashes + 1
          /\ vpc' = "idle" /\ flag' = FALSE
      BY <2>7 DEF Crash
    <3>2. crashes' \in Nat
      BY <3>1 DEF TypeOK
    <3>4. flag' \in BOOLEAN
      BY <3>1
    <3>3. raw' \in Seq(emitted') /\ \A i, j \in DOMAIN raw' : raw'[i] = raw'[j] => i = j
      BY <3>1 DEF TypeOK
    <3> QED
      BY <3>1, <3>2, <3>3, Zenon DEF TypeOK
  <2>8. CASE UNCHANGED vars
    BY <2>8 DEF vars, TypeOK
  <2> QED
    BY <2>1, <2>2, <2>3, <2>4, <2>5, <2>6, <2>7, <2>8, <2>9 DEF Next, Work
<1> QED
  BY <1>1, <1>2, PTL DEF Spec
-----------------------------------------------------------------------------
(* No message is lost.                                                     *)

PassedOn(m) ==
  /\ m.body = "no_json" => m \in garbage
  /\ m.body = "valid" => ForwardedAs(m) # {}
  /\ m.body = "malformed" => BypassedAs(m) # {}
  /\ m.body # "fatal"

\* A message that is published but not acknowledged was passed on, too.
PassedInv ==
  /\ \A m \in RawMessages : Gone(m) => PassedOn(m)
  /\ vpc = "published" => PassedOn(Current)

\* What is passed on stays passed on.
LEMMA StaysPassedOn ==
  ASSUME TypeOK, [Next]_vars, NEW m, PassedOn(m)
  PROVE  PassedOn(m)'
<1>1. garbage \subseteq garbage'
  BY DEF Next, Work, vars, Emit, RejectGarbage, Raise, Remember, Forward, Bypass, Ack, Crash
<1>2. ASSUME NEW S, NEW q \in Seq(S), NEW x \in S, NEW i \in DOMAIN q
      PROVE  i \in DOMAIN Append(q, x) /\ Append(q, x)[i] = q[i]
  BY AppendFacts
<1>3. \A i \in DOMAIN validated : i \in DOMAIN validated' /\ validated'[i] = validated[i]
  <2>1. CASE Forward
    BY <1>2, <2>1, HeadFacts DEF Forward, TypeOK
  <2>2. CASE UNCHANGED validated
    BY <2>2
  <2> QED
    BY <2>1, <2>2 DEF Next, Work, vars, Emit, RejectGarbage, Raise, Remember, Bypass, Ack, Crash
<1>4. \A i \in DOMAIN bypassed : i \in DOMAIN bypassed' /\ bypassed'[i] = bypassed[i]
  <2>1. CASE Bypass
    BY <1>2, <2>1, HeadFacts DEF Bypass, TypeOK
  <2>2. CASE UNCHANGED bypassed
    BY <2>2
  <2> QED
    BY <2>1, <2>2 DEF Next, Work, vars, Emit, RejectGarbage, Raise, Remember, Forward, Ack, Crash
<1>5. ForwardedAs(m) # {} => ForwardedAs(m)' # {}
  BY <1>3 DEF ForwardedAs
<1>6. BypassedAs(m) # {} => BypassedAs(m)' # {}
  BY <1>4 DEF BypassedAs
<1> QED
  BY <1>1, <1>5, <1>6 DEF PassedOn

\* Whenever the process dies, a message that has left raw.events reached the
\* detectors, the agents or the dead letters, according to its body.
THEOREM NothingIsLost == Spec => []EveryMessagePassedOn
<1>1. Init => PassedInv
  BY DEF Init, PassedInv, Gone
<1>2. TypeOK /\ PassedInv /\ [Next]_vars => PassedInv'
  <2> SUFFICES ASSUME TypeOK, PassedInv, [Next]_vars PROVE PassedInv'
    OBVIOUS
  <2>s. \A m : PassedOn(m) => PassedOn(m)'
    BY StaysPassedOn
  <2> USE DEF PassedInv
  <2>1. ASSUME NEW x \in RawMessages, Emit(x) PROVE PassedInv'
    <3>1. \A m : Gone(m)' => Gone(m)
      BY <2>1, EmitFacts DEF Gone, Emit
    <3>2. vpc' = "published" => PassedOn(Current) /\ Current' = Current
      BY <2>1, EmitFacts DEF Emit, TypeOK
    <3> QED
      BY <3>1, <3>2, <2>s
  <2>2. CASE RejectGarbage
    <3>1. \A m : Gone(m)' => Gone(m) \/ m = Current
      BY <2>2, HeadFacts DEF RejectGarbage, Gone
    <3>2. (\A m : m = Current => PassedOn(m)') /\ vpc' = "idle"
      BY <2>2 DEF RejectGarbage, PassedOn
    <3> QED
      BY <3>1, <3>2, <2>s
  <2>3. CASE Remember
    BY <2>3, <2>s DEF Remember, Gone
  <2>9. CASE Raise
    BY <2>9, <2>s DEF Raise, Gone
  <2>4. CASE Forward
    <3>1. \A m : Gone(m)' => Gone(m)
      BY <2>4 DEF Forward, Gone
    <3>2. PassedOn(Current)' /\ Current' = Current
      <4>1. Current \in RawMessages
        BY <2>4, HeadFacts DEF Forward, TypeOK
      <4>2. validated' = Append(validated, Current) /\ validated \in Seq(RawMessages)
            /\ Current' = Current /\ Current.body = "valid"
        BY <2>4 DEF Forward, TypeOK, Current
      <4>3. Len(validated) + 1 \in DOMAIN validated' /\ validated'[Len(validated) + 1] = Current
        BY <4>1, <4>2, AppendFacts
      <4>4. ForwardedAs(Current)' # {}
        BY <4>2, <4>3 DEF ForwardedAs
      <4> QED
        BY <4>2, <4>4 DEF PassedOn
    <3> QED
      BY <3>1, <3>2, <2>s
  <2>5. CASE Bypass
    <3>1. \A m : Gone(m)' => Gone(m)
      BY <2>5 DEF Bypass, Gone
    <3>2. PassedOn(Current)' /\ Current' = Current
      <4>1. Current \in RawMessages
        BY <2>5, HeadFacts DEF Bypass, TypeOK
      <4>2. bypassed' = Append(bypassed, Current) /\ bypassed \in Seq(RawMessages)
            /\ Current' = Current /\ Current.body = "malformed"
        BY <2>5 DEF Bypass, TypeOK, Current
      <4>3. Len(bypassed) + 1 \in DOMAIN bypassed' /\ bypassed'[Len(bypassed) + 1] = Current
        BY <4>1, <4>2, AppendFacts
      <4>4. BypassedAs(Current)' # {}
        BY <4>2, <4>3 DEF BypassedAs
      <4> QED
        BY <4>2, <4>4 DEF PassedOn
    <3> QED
      BY <3>1, <3>2, <2>s
  <2>6. CASE Ack
    <3>1. \A m : Gone(m)' => Gone(m) \/ m = Current
      BY <2>6, HeadFacts DEF Ack, Gone, TypeOK
    <3>2. PassedOn(Current) /\ vpc' = "idle"
      BY <2>6 DEF Ack
    <3> QED
      BY <3>1, <3>2, <2>s
  <2>7. CASE Crash
    BY <2>7, <2>s DEF Crash, Gone
  <2>8. CASE UNCHANGED vars
    BY <2>8, <2>s DEF vars, Gone, Current
  <2> QED
    BY <2>1, <2>2, <2>3, <2>4, <2>5, <2>6, <2>7, <2>8, <2>9 DEF Next, Work
<1>3. PassedInv => EveryMessagePassedOn
  BY DEF PassedInv, PassedOn, EveryMessagePassedOn
<1> QED
  BY <1>1, <1>2, <1>3, TypeCorrect, PTL DEF Spec
-----------------------------------------------------------------------------
(* The duplicate flag.                                                     *)

\* Another message of the event of m has left the queue.
Repeats(m) == \E x \in RawMessages : x # m /\ x.event = m.event /\ Gone(x)

\* The next message ends the process: no event is published any more.
Stopped == raw # <<>> /\ Current.body = "fatal"

\* As long as the Validator is not stopped, _seen_ids holds the events this process
\* has published, and nothing but events that came before; the flag of the message
\* in hand says whether it is one of those.
FlagInv ==
  /\ FlagTellsTruth
  /\ \A i \in DOMAIN labels :
       /\ labels[i].life <= crashes
       /\ labels[i].life = crashes /\ ~Stopped => validated[i].event \in seen
  /\ vpc # "idle" => ~Stopped
  /\ \A e \in seen : \E x \in RawMessages :
       x.event = e /\ (Gone(x) \/ (vpc # "idle" /\ x = Current))
  /\ vpc # "idle" => Current.event \in seen
  /\ vpc = "checked" /\ flag => Repeats(Current)
  /\ vpc = "checked" /\ ~flag =>
       \A i \in DOMAIN labels : labels[i].life = crashes => validated[i].event # Current.event

\* A message that has left the queue does not come back.
LEMMA StaysGone ==
  ASSUME TypeOK, [Next]_vars, NEW m, Gone(m)
  PROVE  Gone(m)'
<1>1. CASE \E x \in RawMessages : Emit(x)
  BY <1>1, EmitFacts DEF Gone, Emit
<1>2. CASE RejectGarbage \/ Ack
  BY <1>2, HeadFacts DEF Gone, RejectGarbage, Ack, TypeOK
<1>3. CASE UNCHANGED <<emitted, raw>>
  BY <1>3 DEF Gone
<1> QED
  BY <1>1, <1>2, <1>3 DEF Next, Work, Raise, Remember, Forward, Bypass, Crash, vars

\* As long as nothing is published with a flag, the flags stay true.
LEMMA TruthKept ==
  ASSUME TypeOK, [Next]_vars, FlagTellsTruth, UNCHANGED <<validated, labels>>
  PROVE  FlagTellsTruth'
<1>1. \A m : Gone(m) => Gone(m)'
  BY StaysGone
<1> QED
  BY <1>1 DEF FlagTellsTruth

\* One published event more, with the flag of the message in hand.
LEMMA ForwardKeepsTruth ==
  ASSUME TypeOK, FlagInv, Forward
  PROVE  FlagTellsTruth'
<1> DEFINE n == Len(validated) + 1
<1>1. Current \in RawMessages /\ [flag |-> flag, life |-> crashes] \in Label
  BY HeadFacts DEF Forward, TypeOK, Label
<1>2. /\ n \in Nat /\ n - 1 \in Nat /\ DOMAIN validated = 1..n - 1 /\ DOMAIN validated' = 1..n
      /\ validated'[n] = Current
      /\ \A i \in 1..n - 1 : validated'[i] = validated[i]
  BY <1>1, AppendFacts DEF Forward, TypeOK
<1>3. /\ DOMAIN labels = 1..n - 1
      /\ labels'[n] = [flag |-> flag, life |-> crashes]
      /\ \A i \in 1..n - 1 : labels'[i] = labels[i]
  BY <1>1, AppendFacts DEF Forward, TypeOK
<1>4. \A m : Gone(m) => Gone(m)'
  BY DEF Forward, Gone
<1> HIDE DEF n
<1>5. ASSUME NEW i \in 1..n - 1, labels[i].life = crashes, ~flag
      PROVE  validated[i].event # Current.event
  BY <1>3, <1>5 DEF FlagInv, Forward
<1>6. ASSUME NEW i \in 1..n, NEW j \in 1..n,
             validated'[i].event = validated'[j].event, labels'[i].life = labels'[j].life,
             ~labels'[i].flag, ~labels'[j].flag
      PROVE  i = j
  <2>1. CASE i \in 1..n - 1 /\ j \in 1..n - 1
    BY <1>2, <1>3, <1>6, <2>1 DEF FlagInv, FlagTellsTruth
  <2>2. CASE i = n /\ j \in 1..n - 1
    BY <1>2, <1>3, <1>5, <1>6, <2>2
  <2>3. CASE i \in 1..n - 1 /\ j = n
    BY <1>2, <1>3, <1>5, <1>6, <2>3
  <2> QED
    BY <1>2, <2>1, <2>2, <2>3
<1>7. ASSUME NEW i \in 1..n, labels'[i].flag
      PROVE  \E m \in RawMessages : m # validated'[i] /\ m.event = validated'[i].event /\ Gone(m)'
  <2>1. CASE i \in 1..n - 1
    BY <1>2, <1>3, <1>4, <1>7, <2>1 DEF FlagInv, FlagTellsTruth
  <2>2. CASE i = n
    <3>1. Repeats(Current)
      BY <1>3, <1>7, <2>2 DEF FlagInv, Forward
    <3> QED
      BY <1>2, <1>4, <2>2, <3>1 DEF Repeats
  <2> QED
    BY <1>2, <2>1, <2>2
<1> QED
  BY <1>2, <1>6, <1>7 DEF FlagTellsTruth

\* Between two deaths at most one event of an id goes on without the flag, and
\* where the flag is set, the id was in another message taken before.
THEOREM FlagIsTrue == Spec => []FlagTellsTruth
<1>1. Init => FlagInv
  BY DEF Init, FlagInv, FlagTellsTruth
<1>2. TypeOK /\ FlagInv /\ [Next]_vars => FlagInv'
  <2> SUFFICES ASSUME TypeOK, FlagInv, [Next]_vars PROVE FlagInv'
    OBVIOUS
  <2>g. \A m : Gone(m) => Gone(m)'
    BY StaysGone
  <2>r. \A m : Repeats(m) => Repeats(m)'
    BY <2>g DEF Repeats
  <2>t. UNCHANGED <<validated, labels>> => FlagTellsTruth'
    BY TruthKept DEF FlagInv
  <2>1. ASSUME NEW x \in RawMessages, Emit(x) PROVE FlagInv'
    <3>1. UNCHANGED <<seen, vpc, flag, validated, labels, crashes>>
      BY <2>1 DEF Emit
    <3>2. vpc # "idle" => Current' = Current
      BY <2>1, EmitFacts DEF TypeOK
    <3>3. Stopped => Stopped'
      BY <2>1, EmitFacts DEF Stopped
    <3>4. vpc # "idle" => ~Stopped'
      BY <2>1, <3>2 DEF FlagInv, TypeOK, Stopped
    <3> QED
      BY <2>g, <2>r, <2>t, <3>1, <3>2, <3>3, <3>4 DEF FlagInv
  <2>2. CASE RejectGarbage
    <3>1. UNCHANGED <<seen, vpc, flag, validated, labels, crashes>> /\ vpc = "idle"
      BY <2>2 DEF RejectGarbage
    <3>2. ~Stopped
      BY <2>2 DEF RejectGarbage, Stopped
    <3> QED
      BY <2>g, <2>t, <3>1, <3>2 DEF FlagInv
  <2>9. CASE Raise
    <3>1. /\ UNCHANGED <<raw, vpc, flag, validated, labels, crashes>> /\ vpc = "idle"
          /\ seen' = {} /\ Stopped'
      BY <2>9 DEF Raise, Stopped, Current
    <3> QED
      BY <2>t, <3>1 DEF FlagInv
  <2>3. CASE Remember
    <3>1. /\ UNCHANGED <<raw, validated, labels, crashes>> /\ vpc = "idle" /\ vpc' = "checked"
          /\ flag' = (Current.event \in seen) /\ seen' = seen \union {Current.event}
          /\ Current' = Current
      BY <2>3 DEF Remember, Current
    <3>2. Current \in RawMessages /\ ~Gone(Current)
      BY <2>3, HeadFacts DEF Remember, Gone, TypeOK
    <3>3. Current.event \in seen => Repeats(Current)
      BY <3>1, <3>2 DEF FlagInv, Repeats
    <3>4. \A e \in seen' : \E x \in RawMessages : x.event = e /\ (Gone(x)' \/ x = Current)
      BY <2>g, <3>1, <3>2 DEF FlagInv
    <3>5. ~Stopped /\ ~Stopped'
      BY <2>3, <3>1 DEF Remember, Stopped
    <3> QED
      BY <2>r, <2>t, <3>1, <3>3, <3>4, <3>5 DEF FlagInv
  <2>4. CASE Forward
    <3>1. FlagTellsTruth'
      BY <2>4, ForwardKeepsTruth
    <3>2. /\ UNCHANGED <<raw, seen, crashes>> /\ vpc = "checked" /\ vpc' = "published"
          /\ Current' = Current
      BY <2>4 DEF Forward, Current
    <3>3. \A i \in DOMAIN labels' :
            /\ labels'[i].life <= crashes
            /\ labels'[i].life = crashes => validated'[i].event \in seen
      <4>1. Current \in RawMessages /\ [flag |-> flag, life |-> crashes] \in Label
        BY <2>4, HeadFacts DEF Forward, TypeOK, Label
      <4>2. /\ Len(labels) \in Nat /\ DOMAIN labels' = 1..Len(labels) + 1
            /\ DOMAIN labels = 1..Len(labels)
            /\ labels'[Len(labels) + 1] = [flag |-> flag, life |-> crashes]
            /\ validated'[Len(labels) + 1] = Current
            /\ \A i \in 1..Len(labels) : labels'[i] = labels[i] /\ validated'[i] = validated[i]
        BY <2>4, <4>1, AppendFacts DEF Forward, TypeOK
      <4>3. Current.event \in seen /\ crashes <= crashes
        BY <3>2 DEF FlagInv, TypeOK
      <4>4. \A i \in 1..Len(labels) : /\ labels[i].life <= crashes
                                      /\ labels[i].life = crashes => validated[i].event \in seen
        BY <3>2, <4>2 DEF FlagInv
      <4> QED
        BY <4>2, <4>3, <4>4
    <3>4. ~Stopped'
      BY <3>2 DEF FlagInv, Stopped
    <3> QED
      BY <2>g, <3>1, <3>2, <3>3, <3>4 DEF FlagInv
  <2>5. CASE Bypass
    <3>1. /\ UNCHANGED <<raw, seen, validated, labels, crashes>> /\ vpc' = "published"
          /\ vpc = "checked" /\ Current' = Current
      BY <2>5 DEF Bypass, Current
    <3>2. Stopped' = Stopped
      BY <3>1 DEF Stopped
    <3> QED
      BY <2>g, <2>t, <3>1, <3>2 DEF FlagInv
  <2>6. CASE Ack
    <3>1. UNCHANGED <<seen, validated, labels, crashes>> /\ vpc = "published" /\ vpc' = "idle"
      BY <2>6 DEF Ack
    <3>2. \A m : m = Current => Gone(m)'
      BY <2>6, HeadFacts DEF Ack, Gone, TypeOK
    <3>3. \A e \in seen : \E x \in RawMessages : x.event = e /\ Gone(x)'
      BY <2>g, <3>2 DEF FlagInv
    <3> QED
      BY <2>t, <3>1, <3>3 DEF FlagInv
  <2>7. CASE Crash
    <3>1. /\ UNCHANGED <<validated, labels>> /\ seen' = {} /\ vpc' = "idle"
          /\ crashes' = crashes + 1
      BY <2>7 DEF Crash
    <3>2. \A i \in DOMAIN labels : labels[i].life <= crashes + 1 /\ labels[i].life # crashes + 1
      <4>1. \A i \in DOMAIN labels : labels[i].life \in Nat
        <5>1. \A i \in DOMAIN labels : labels[i] \in Label
          BY ElementOfSeq, LenProperties DEF TypeOK
        <5> QED
          BY <5>1 DEF Label
      <4> QED
        BY <4>1 DEF FlagInv, TypeOK
    <3> QED
      BY <2>t, <3>1, <3>2 DEF FlagInv
  <2>8. CASE UNCHANGED vars
    <3>1. UNCHANGED <<seen, vpc, flag, validated, labels, crashes, Current, Stopped>>
      BY <2>8 DEF vars, Current, Stopped
    <3> QED
      BY <2>g, <2>r, <2>t, <3>1 DEF FlagInv
  <2> QED
    BY <2>1, <2>2, <2>3, <2>4, <2>5, <2>6, <2>7, <2>8, <2>9 DEF Next, Work
<1>3. FlagInv => FlagTellsTruth
  BY DEF FlagInv
<1> QED
  BY <1>1, <1>2, <1>3, TypeCorrect, PTL DEF Spec


-----------------------------------------------------------------------------
(* The Validator between the generator and the ADM Runner: Intake.         *)

\* Where the generator is in its corpus.
SourceInv ==
  /\ corpus \in Corpora
  /\ replay \in 1..Replays
  /\ line \in 0..Len(corpus)

LEMMA SourceAlways == IntakeSpec => []SourceInv
<1>1. IntakeInit => SourceInv
  BY IntakeBound, CorporaAreMessages DEF IntakeInit, SourceInv
<1>2. SourceInv /\ [IntakeNext]_<<source, vars, runner>> => SourceInv'
  <2> SUFFICES ASSUME SourceInv, [IntakeNext]_<<source, vars, runner>> PROVE SourceInv'
    OBVIOUS
  <2>1. Len(corpus) \in Nat
    BY CorporaAreMessages DEF SourceInv
  <2>2. CASE ReplayLine
    BY <2>1, <2>2 DEF ReplayLine, SourceInv
  <2>3. CASE ReplayAgain
    BY <2>1, <2>3, IntakeBound DEF ReplayAgain, SourceInv
  <2>4. CASE UNCHANGED source
    BY <2>4 DEF source, SourceInv
  <2> QED
    BY <2>2, <2>3, <2>4
       DEF IntakeNext, Stray, ValidatorWorks, ValidatorPublishes, ValidatorDies, RunnerWorks,
           RunnerFails
<1> QED
  BY <1>1, <1>2, PTL DEF IntakeSpec

\* What the generator and others publish are messages.
LEMMA EmitsAreEmits ==
  /\ SourceInv /\ ReplayLine => \E m \in RawMessages : Emit(m)
  /\ Stray => \E m \in RawMessages : Emit(m)
<1>1. ASSUME SourceInv, ReplayLine PROVE \E m \in RawMessages : Emit(m)
  <2>1. line + 1 \in 1..Len(corpus) /\ Len(corpus) \in Nat
    BY <1>1, CorporaAreMessages DEF SourceInv, ReplayLine
  <2>2. [corpus[line + 1] EXCEPT !.copy = replay] \in RawMessages
    BY <1>1, <2>1, CorporaAreMessages DEF SourceInv
  <2> QED
    BY <1>1, <2>2 DEF ReplayLine
<1>2. Stray => \E m \in RawMessages : Emit(m)
  BY DEF Stray
<1> QED
  BY <1>1, <1>2

\* In the composition the Validator does what it does by itself: nothing that
\* generator and runner do, or leave undone, is anything but a stutter or a
\* message to it.
THEOREM IntakeIsValidator == IntakeSpec => Spec
<1>1. IntakeInit => Init
  BY DEF IntakeInit
<1>2. SourceInv /\ [IntakeNext]_<<source, vars, runner>> => [Next]_vars
  <2> SUFFICES ASSUME SourceInv, [IntakeNext]_<<source, vars, runner>> PROVE [Next]_vars
    OBVIOUS
  <2>1. CASE ReplayLine \/ Stray
    BY <2>1, EmitsAreEmits DEF Next
  <2>2. CASE ReplayAgain
    BY <2>2 DEF ReplayAgain
  <2>3. CASE ValidatorWorks
    BY <2>3 DEF ValidatorWorks, ValidatorPublishes, Next, Work
  <2>4. CASE ValidatorDies
    BY <2>4 DEF ValidatorDies, Next
  <2>5. CASE RunnerWorks \/ RunnerFails
    BY <2>5 DEF RunnerWorks, RunnerFails
  <2>6. CASE UNCHANGED <<source, vars, runner>>
    BY <2>6
  <2> QED
    BY <2>1, <2>2, <2>3, <2>4, <2>5, <2>6 DEF IntakeNext
<1> QED
  BY <1>1, <1>2, SourceAlways, PTL DEF IntakeSpec, Spec

\* The message that is forwarded is one that the runner can be sent.
LEMMA ForwardedIsWellFormed ==
  ASSUME TypeOK, Forward
  PROVE  Current \in WellFormed
<1>1. raw # <<>>
  BY DEF TypeOK, Forward
<1>2. Current \in RawMessages
  BY <1>1, HeadFacts
<1> QED
  BY <1>2 DEF WellFormed, Forward

\* And what the Validator publishes is a stream as FeatureStore expects it: the
\* theorems on the specification of the ADM Runner hold behind the Validator.
THEOREM IntakeIsFeatureStore == IntakeSpec => FS!Spec
<1>1. IntakeInit => FS!Init
  BY DEF IntakeInit
<1>2. TypeOK /\ [IntakeNext]_<<source, vars, runner>> => [FS!Next]_FS!vars
  <2> SUFFICES ASSUME TypeOK, [IntakeNext]_<<source, vars, runner>> PROVE [FS!Next]_FS!vars
    OBVIOUS
  <2>1. CASE validated' = validated /\ UNCHANGED runner
    BY <2>1 DEF runner, FS!vars
  <2>2. CASE ValidatorPublishes
    BY <2>2, ForwardedIsWellFormed DEF ValidatorPublishes, FS!Next
  <2>3. CASE RunnerWorks \/ RunnerFails
    BY <2>3 DEF RunnerWorks, RunnerFails, FS!Next
  <2>4. CASE ReplayLine \/ ReplayAgain \/ Stray \/ ValidatorDies
    <3>1. validated' = validated /\ UNCHANGED runner
      BY <2>4 DEF ReplayLine, ReplayAgain, Stray, ValidatorDies, Emit, Crash, vars
    <3> QED
      BY <2>1, <3>1
  <2>5. CASE (RejectGarbage \/ Raise \/ Remember \/ Bypass \/ Ack) /\ UNCHANGED <<source, runner>>
    <3>1. validated' = validated /\ UNCHANGED runner
      BY <2>5 DEF RejectGarbage, Raise, Remember, Bypass, Ack
    <3> QED
      BY <2>1, <3>1
  <2>6. CASE UNCHANGED <<source, vars, runner>>
    BY <2>1, <2>6 DEF vars
  <2> QED
    BY <2>2, <2>3, <2>4, <2>5, <2>6 DEF IntakeNext, ValidatorWorks
<1> QED
  BY <1>1, <1>2, IntakeIsValidator, TypeCorrect, PTL DEF IntakeSpec, FS!Spec

\* EveryMessagePassedOn and FlagTellsTruth hold in the composition as well.
THEOREM IntakeIsSafe == IntakeSpec => [](EveryMessagePassedOn /\ FlagTellsTruth)
  BY IntakeIsValidator, NothingIsLost, FlagIsTrue, PTL

\* An event is forwarded once, and once more for every death at most.
CopiesInv ==
  /\ IsFiniteSet(emitted)
  /\ crashes <= MaxCrashes
  /\ Len(validated) <= Cardinality(emitted) - Len(raw) + crashes
                       + IF vpc = "published" THEN 1 ELSE 0

LEMMA CopiesAlways == Spec => []CopiesInv
<1>1. Init => CopiesInv
  BY ValidatorBound, FS_EmptySet DEF Init, CopiesInv
<1>2. TypeOK /\ TypeOK' /\ CopiesInv /\ [Next]_vars => CopiesInv'
  <2> SUFFICES ASSUME TypeOK, TypeOK', CopiesInv, [Next]_vars PROVE CopiesInv'
    OBVIOUS
  <2>0. /\ Len(validated) \in Nat /\ Len(raw) \in Nat /\ crashes \in Nat
        /\ Cardinality(emitted) \in Nat /\ MaxCrashes \in Nat
    BY FS_CardinalityType, ValidatorBound DEF TypeOK, CopiesInv
  <2>1. raw # <<>> => Len(Tail(raw)) = Len(raw) - 1
    BY TailFacts DEF TypeOK
  <2>2. ASSUME NEW m \in RawMessages, Emit(m) PROVE CopiesInv'
    <3>1. IsFiniteSet(emitted') /\ Cardinality(emitted') = Cardinality(emitted) + 1
      BY <2>2, FS_AddElement DEF Emit, CopiesInv
    <3>2. Len(raw') = Len(raw) + 1
      BY <2>2, AppendFacts DEF Emit, TypeOK
    <3> QED
      BY <2>0, <2>2, <3>1, <3>2 DEF Emit, CopiesInv
  <2>3. CASE RejectGarbage
    BY <2>0, <2>1, <2>3 DEF RejectGarbage, CopiesInv
  <2>4. CASE Remember
    BY <2>0, <2>4 DEF Remember, CopiesInv
  <2>10. CASE Raise
    BY <2>0, <2>10 DEF Raise, CopiesInv
  <2>5. CASE Forward
    <3>1. Current \in RawMessages
      BY <2>5, ForwardedIsWellFormed DEF WellFormed
    <3>2. Len(validated') = Len(validated) + 1
      BY <2>5, <3>1, AppendFacts DEF Forward, TypeOK
    <3> QED
      BY <2>0, <2>5, <3>2 DEF Forward, CopiesInv
  <2>6. CASE Bypass
    BY <2>0, <2>6 DEF Bypass, CopiesInv
  <2>7. CASE Ack
    <3>1. raw # <<>>
      BY <2>7 DEF Ack, TypeOK
    <3> QED
      BY <2>0, <2>1, <2>7, <3>1 DEF Ack, CopiesInv
  <2>8. CASE Crash
    BY <2>0, <2>8 DEF Crash, CopiesInv
  <2>9. CASE UNCHANGED vars
    BY <2>9 DEF vars, CopiesInv
  <2> QED
    BY <2>2, <2>3, <2>4, <2>5, <2>6, <2>7, <2>8, <2>9, <2>10 DEF Next, Work
<1> QED
  BY <1>1, <1>2, TypeCorrect, PTL DEF Spec

\* The bound on the stream of the runner (MostEvents) never holds the Validator
\* up: it is what messages and deaths can make at most.
THEOREM NeverHeldUp ==
  IntakeSpec => [](vpc = "checked" /\ Current.body = "valid" => Len(validated) < MostEvents)
<1>1. TypeOK /\ CopiesInv /\ vpc = "checked" => Len(validated) < MostEvents
  <2> SUFFICES ASSUME TypeOK, CopiesInv, vpc = "checked" PROVE Len(validated) < MostEvents
    OBVIOUS
  <2>1. Len(raw) \in Nat \ {0}
    BY TailFacts DEF TypeOK
  <2>2. Cardinality(emitted) <= Cardinality(RawMessages)
    BY IntakeBound, FS_Subset DEF TypeOK
  <2>3. /\ Cardinality(emitted) \in Nat /\ Cardinality(RawMessages) \in Nat
        /\ Len(validated) \in Nat /\ crashes \in Nat /\ MaxCrashes \in Nat
    BY IntakeBound, ValidatorBound, FS_CardinalityType DEF TypeOK, CopiesInv
  <2> QED
    BY <2>1, <2>2, <2>3 DEF CopiesInv, MostEvents
<1>2. TypeOK /\ CopiesInv =>
       (vpc = "checked" /\ Current.body = "valid" => Len(validated) < MostEvents)
  BY <1>1
<1> QED
  BY <1>2, IntakeIsValidator, TypeCorrect, CopiesAlways, PTL
=============================================================================
