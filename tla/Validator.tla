------------------------------ MODULE Validator ------------------------------
(***************************************************************************)
(* The Validator process (layer1/validator/validator.py) with the router   *)
(* for malformed events (schema_drift_router.py).  One thread takes the    *)
(* messages of raw.events in order.  A well-formed event goes on to        *)
(* validated.event, flagged if its id was seen before; a malformed one is  *)
(* repackaged as a schema_drift incident and goes past the detectors,      *)
(* directly to anomaly.detected; what is not JSON is dead-lettered.        *)
(*                                                                         *)
(* Nothing catches an exception outside the parsing and the validation: it *)
(* ends start_consuming and the process, like a crash.  basic_publish can  *)
(* raise it, and so can the message itself, which is delivered again to    *)
(* the next process, and the next.                                         *)
(***************************************************************************)
EXTENDS Naturals, Sequences, FiniteSets

CONSTANTS
  RawMessages,   \* the messages [event, copy, body, ...] that can be put on raw.events
  MaxCrashes     \* bound: how often the process dies

ASSUME ValidatorBound == MaxCrashes \in Nat

VARIABLES
  emitted,     \* the messages published on raw.events: history
  raw,         \* queue raw.events
  seen,        \* _seen_ids
  vpc,         \* the thread: idle, checked, published
  flag,        \* dedup_flag of the message in hand
  validated,   \* published on validated.event: history
  labels,      \* [flag, life]: the dedup_flag of each of them, and crashes then
  bypassed,    \* published on anomaly.detected: history
  garbage,     \* dead letters
  crashes      \* how often the process died so far, of anything but a message

vars == <<emitted, raw, seen, vpc, flag, validated, labels, bypassed, garbage, crashes>>

\* What a body can be: no JSON; not looked at without an exception (JSON that is
\* no object has no get, an event_id that is a list or an object no hash, and of
\* json.loads only the JSONDecodeError is caught, not that the bytes are no UTF-8);
\* valid for PipelineEvent; anything else.  No message is known to reach the
\* handler of any other error of the validation.
Bodies == {"no_json", "fatal", "valid", "malformed"}

ASSUME BodiesAreBodies == \A m \in RawMessages : m.body \in Bodies

Init ==
  /\ emitted = {}
  /\ raw = <<>>
  /\ seen = {}
  /\ vpc = "idle"
  /\ flag = FALSE
  /\ validated = <<>>
  /\ labels = <<>>
  /\ bypassed = <<>>
  /\ garbage = {}
  /\ crashes = 0

Holds(seq, m) == \E i \in DOMAIN seq : seq[i] = m

\* The generator replays its corpus, an event possibly more than once.
Emit(m) ==
  /\ m \notin emitted
  /\ emitted' = emitted \union {m}
  /\ raw' = Append(raw, m)
  /\ UNCHANGED <<seen, vpc, flag, validated, labels, bypassed, garbage, crashes>>

Current == Head(raw)

\* basic_nack without requeue.
RejectGarbage ==
  /\ vpc = "idle"
  /\ raw # <<>>
  /\ Current.body = "no_json"
  /\ garbage' = garbage \union {Current}
  /\ raw' = Tail(raw)
  /\ UNCHANGED <<emitted, seen, vpc, flag, validated, labels, bypassed, crashes>>

\* The message ends the process before its id is remembered, and is the first one
\* delivered to the next, which has forgotten the ids.
Raise ==
  /\ vpc = "idle"
  /\ raw # <<>>
  /\ Current.body = "fatal"
  /\ seen' = {}
  /\ UNCHANGED <<emitted, raw, vpc, flag, validated, labels, bypassed, garbage, crashes>>

\* The id is compared and remembered before the event is validated.
Remember ==
  /\ vpc = "idle"
  /\ raw # <<>>
  /\ Current.body \in {"valid", "malformed"}
  /\ flag' = (Current.event \in seen)
  /\ seen' = seen \union {Current.event}
  /\ vpc' = "checked"
  /\ UNCHANGED <<emitted, raw, validated, labels, bypassed, garbage, crashes>>

\* Variant: a duplicate is flagged only by the metrics, not in the event.
MutForward ==
  /\ vpc = "checked"
  /\ Current.body = "valid"
  /\ validated' = Append(validated, Current)
  /\ labels' = Append(labels, [flag |-> FALSE, life |-> crashes])
  /\ vpc' = "published"
  /\ UNCHANGED <<emitted, raw, seen, flag, bypassed, garbage, crashes>>

Forward ==
  /\ vpc = "checked"
  /\ Current.body = "valid"
  /\ validated' = Append(validated, Current)
  /\ labels' = Append(labels, [flag |-> flag, life |-> crashes])
  /\ vpc' = "published"
  /\ UNCHANGED <<emitted, raw, seen, flag, bypassed, garbage, crashes>>

\* SchemaDriftRouter.route: severity and risk tier follow from the kind of
\* error, the id is the one of the message (a fresh one if it has none).
Bypass ==
  /\ vpc = "checked"
  /\ Current.body = "malformed"
  /\ bypassed' = Append(bypassed, Current)
  /\ vpc' = "published"
  /\ UNCHANGED <<emitted, raw, seen, flag, validated, labels, garbage, crashes>>

\* Variant: acknowledged on receipt.
MutAck ==
  /\ vpc \in {"checked", "published"}
  /\ raw' = Tail(raw)
  /\ vpc' = "idle"
  /\ UNCHANGED <<emitted, seen, flag, validated, labels, bypassed, garbage, crashes>>

Ack ==
  /\ vpc = "published"
  /\ raw' = Tail(raw)
  /\ vpc' = "idle"
  /\ UNCHANGED <<emitted, seen, flag, validated, labels, bypassed, garbage, crashes>>

\* The process dies, by itself or because a publish raised, and is started
\* again: the ids are forgotten, unacknowledged messages come again in order.
Crash ==
  /\ crashes < MaxCrashes
  /\ vpc # "idle" \/ seen # {}
  /\ crashes' = crashes + 1
  /\ vpc' = "idle"
  /\ seen' = {}
  /\ flag' = FALSE
  /\ UNCHANGED <<emitted, raw, validated, labels, bypassed, garbage>>

Work == RejectGarbage \/ Raise \/ Remember \/ Forward \/ Bypass \/ Ack

Next == Work \/ Crash \/ \E m \in RawMessages : Emit(m)

Spec == Init /\ [][Next]_vars
-----------------------------------------------------------------------------
(* Properties                                                              *)

ForwardedAs(m) == {i \in DOMAIN validated : validated[i] = m}
BypassedAs(m)  == {i \in DOMAIN bypassed : bypassed[i] = m}
Gone(m)        == m \in emitted /\ ~Holds(raw, m)

\* Whenever the process dies, a message that has left raw.events reached the
\* detectors if it is well-formed, the agents if it is malformed (two of three
\* kinds of schema drift are caught here), the dead letters if it is no JSON; and
\* one that the process cannot look at has not left it.
EveryMessagePassedOn ==
  \A m \in RawMessages : Gone(m) =>
    /\ m.body = "no_json" => m \in garbage
    /\ m.body = "valid" => ForwardedAs(m) # {}
    /\ m.body = "malformed" => BypassedAs(m) # {}
    /\ m.body # "fatal"

\* Between two deaths of the process at most one event of an id reaches the
\* detectors without the duplicate flag; and the flag never lies on an id that
\* came once: where it is set, the same id was in another message, well-formed
\* or not, that was taken before.
FlagTellsTruth ==
  /\ \A i, j \in DOMAIN validated :
       (/\ validated[i].event = validated[j].event
        /\ labels[i].life = labels[j].life
        /\ ~labels[i].flag
        /\ ~labels[j].flag) => i = j
  /\ \A i \in DOMAIN validated : labels[i].flag =>
       \E m \in RawMessages :
         m # validated[i] /\ m.event = validated[i].event /\ Gone(m)
=============================================================================
