------------------------------ MODULE MCIntake ------------------------------
(***************************************************************************)
(* Two replays of a corpus of two events, of one component on two nodes or *)
(* the second of them malformed, a stray message that is no JSON and one   *)
(* that ends the Validator.                                                *)
(***************************************************************************)
EXTENDS Intake

Ev(id, kind, component, node) ==
  [event |-> id, copy |-> 0, body |-> Body(kind), component |-> component, node |-> node]

Calm    == Ev(1, "NORMAL", "HTTP gateway", "stream-node")
Surge   == Ev(2, "error_rate_surge", "HTTP gateway", "gateway-node")
Mutated == Ev(3, "type_mutation", "Loghub replay adapter", "stream-node")
NoJson  == [Calm EXCEPT !.body = "no_json", !.event = 4]
Poison  == [Calm EXCEPT !.body = "fatal", !.event = 5]

FewCorpora == {<<Calm, Surge>>, <<Calm, Mutated>>}

EveryMessage ==
  {NoJson, Poison} \union {[c[i] EXCEPT !.copy = r] : c \in FewCorpora, i \in 1..2, r \in 1..Replays}

OwnFiles == [c \in {"HTTP gateway", "Loghub replay adapter"} |-> c]
=============================================================================
