----------------------------- MODULE MCScoring -----------------------------
(***************************************************************************)
(* Streams of generated events, all of them on the queue at the start.     *)
(* Long ones with a calm past and no faults, for deep windows; short ones  *)
(* of three components on two nodes with faults; and floods at different   *)
(* times.                                                                  *)
(***************************************************************************)
EXTENDS Scoring, EventTemplates

Ev(kind, severity, quarter, noise, node, component) ==
  [metrics |-> Metrics(kind, severity, quarter, noise), node |-> node, component |-> component]

Timed(events, gap) ==
  [i \in DOMAIN events |-> [at |-> gap * i, node |-> events[i].node,
                            component |-> events[i].component, metrics |-> events[i].metrics]]

Here(kind, severity, quarter, noise) ==
  Ev(kind, severity, quarter, noise, "stream-node", "HTTP gateway")

Calm(i)  == Here("NORMAL", "N/A", i % 4, 5 * (i % 3) - 5)
Spike == Here("cpu_memory_spike", "CRITICAL", 2, 0)

Tails ==
  {Calm(0), Here("error_rate_surge", "MEDIUM", 0, -10), Here("error_rate_surge", "CRITICAL", 4, 0),
   Here("cpu_memory_spike", "MEDIUM", 0, -5), Spike,
   Here("throughput_drop", "MEDIUM", 4, 5), Here("throughput_drop", "CRITICAL", 0, 0)}

\* Equal events, or none equal to the one before.
Past(n, varied) == [i \in 1..n |-> IF varied THEN Calm(i) ELSE Calm(1)]

LongStreams ==
  {Timed(Past(n, v) \o <<t, u>>, 1) :
     n \in {3, 8, 15, 24, 30}, v \in BOOLEAN, t \in {Calm(0), Spike}, u \in Tails}

\* Five slow events, then faster ones.
Recoveries ==
  {Timed([i \in 1..5 |-> Here("throughput_drop", "HIGH", q, 0)] \o Past(n, TRUE), 1) :
     q \in {0, 4}, n \in 2..6}

Floods ==
  {Timed([i \in 1..Len(s) |->
     IF s[i] = "N/A" THEN Calm(i) ELSE Here("auth_failure_flood", s[i], 2, 0)], gap) :
       s \in [1..4 -> {"N/A", "MEDIUM", "CRITICAL"}], gap \in {1, 30, 61}}

Mixed ==
  {Timed(s, 1) : s \in [1..4 ->
     {Calm(1), Calm(2), Ev("error_rate_surge", "HIGH", 2, 0, "gateway-node", "HTTP gateway"),
      Ev("value_shift", "MEDIUM", 2, 0, "stream-node", "Loghub replay adapter")}]}

AllEvents ==
  UNION {{s[i] : i \in DOMAIN s} : s \in LongStreams \union Recoveries \union Floods \union Mixed}

\* Every component of these streams has events that the factory makes.
ASSUME MixedIsGenerated == \A s \in Mixed : \A i \in DOMAIN s : Generated(s[i])

OwnFiles == [c \in {"HTTP gateway", "Loghub replay adapter"} |-> c]

ScoringInit ==
  \/ \E s \in LongStreams \union Recoveries \union Floods : StartedWith(s, MaxFaults)
  \/ \E s \in Mixed : StartedWith(s, 0)

ScoringNext == Work \/ FanOutFails \/ Crash

ScoringSpec == ScoringInit /\ [][ScoringNext]_vars
=============================================================================
