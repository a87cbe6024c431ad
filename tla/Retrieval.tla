----------------------------- MODULE Retrieval -----------------------------
(***************************************************************************)
(* The retrieval of past incidents for a prompt (layer2/chromadb_utils/    *)
(* query.py) while the Learning Agent upserts incidents.  A document is a  *)
(* number, its rank in similarity to the event at hand.                    *)
(***************************************************************************)
EXTENDS Integers, Sequences, FiniteSets

CONSTANTS
  Documents,     \* how many incidents can be in the collection
  MaxUpserts,    \* bound: how many incidents are upserted between the two queries
  NoIncident     \* no such document

ASSUME RetrievalBounds == Documents \in Nat /\ MaxUpserts \in Nat

Ranks == 1..Documents

\* The tier is whatever the language model called it; MEDIUM is one that is neither
\* LOW nor HIGH.
Metadata == [tier : {"LOW", "HIGH", "MEDIUM"}, positive : BOOLEAN]
NResults == 3

VARIABLES
  store,      \* the collection: rank -> NoIncident or metadata
  place,      \* the retrieval: start, contrast, done
  positive,   \* locals: the similar incidents with a positive outcome, best first
  context,    \* what is returned
  anew        \* the incidents upserted between the two queries: history

retrievalVars == <<store, place, positive, context, anew>>

Present(s) == {r \in Ranks : s[r] # NoIncident}

RetrievalInit ==
  /\ store \in [Ranks -> Metadata \union {NoIncident}]
  /\ place = "start"
  /\ positive = <<>>
  /\ context = <<>>
  /\ anew = {}

\* The Learning Agent stores what became of an incident.
Upsert(r, metadata) ==
  /\ place # "done"
  /\ store' = [store EXCEPT ![r] = metadata]
  /\ anew' = IF place = "contrast" THEN anew \union {r} ELSE anew
  /\ Cardinality(anew') <= MaxUpserts
  /\ UNCHANGED <<place, positive, context>>

FirstOf(set, n) == {r \in set : Cardinality({x \in set : x < r}) < n}

Hits(set) == [i \in 1..Cardinality(set) |->
  LET r == CHOOSE x \in set : Cardinality({y \in set : y < x}) = i - 1 IN
  [rank |-> r, tier |-> store[r].tier]]

\* The first query and the outcome filter.
Similar == {r \in FirstOf(Present(store), 5) : store[r].positive}

Cut(hits) == SubSeq(hits, 1, IF Len(hits) < NResults THEN Len(hits) ELSE NResults)

TiersOf(hits) == {hits[i].tier : i \in DOMAIN hits}

\* Variant: the tiers of all positive hits are looked at.
MutOneSided(hits) == Cardinality(TiersOf(hits)) = 1 /\ Len(hits) > NResults

OneSided(hits) == Cardinality(TiersOf(Cut(hits))) = 1

\* Fewer than three incidents, or no positive one: no context.
ReturnNothing ==
  /\ place = "start"
  /\ Cardinality(Present(store)) < 3 \/ Similar = {}
  /\ place' = "done"
  /\ UNCHANGED <<store, positive, context, anew>>

ReturnMixed ==
  /\ place = "start"
  /\ Cardinality(Present(store)) >= 3 /\ Similar # {}
  /\ ~OneSided(Hits(Similar))
  /\ context' = Cut(Hits(Similar))
  /\ place' = "done"
  /\ UNCHANGED <<store, positive, anew>>

NeedContrast ==
  /\ place = "start"
  /\ Cardinality(Present(store)) >= 3 /\ Similar # {}
  /\ OneSided(Hits(Similar))
  /\ positive' = Hits(Similar)
  /\ place' = "contrast"
  /\ UNCHANGED <<store, context, anew>>

\* Variant: the second query looks for the tier that is there already.
MutContrasts ==
  {r \in Present(store) : store[r].positive /\ store[r].tier = positive[1].tier}

\* HIGH is the opposite of LOW, and LOW of anything else.
Opposite(tier) == IF tier = "LOW" THEN "HIGH" ELSE "LOW"

Opposed(tier) == {r \in Present(store) : store[r].positive /\ store[r].tier = Opposite(tier)}

\* The second query: the positive incidents of the opposite tier.
Contrasts == Opposed(positive[1].tier)

\* The contrast is appended last, and the list cut to three.
AddContrast ==
  /\ place = "contrast"
  /\ context' = Cut(positive \o Hits(FirstOf(Contrasts, 1)))
  /\ place' = "done"
  /\ UNCHANGED <<store, positive, anew>>

RetrievalNext ==
  \/ \E r \in Ranks, m \in Metadata : Upsert(r, m)
  \/ ReturnNothing
  \/ ReturnMixed
  \/ NeedContrast
  \/ AddContrast

RetrievalSpec == RetrievalInit /\ [][RetrievalNext]_retrievalVars
-----------------------------------------------------------------------------
(* Properties                                                              *)

\* No incident is given to the model twice, but for one that the Learning Agent
\* stored anew between the two queries; what else it stores meanwhile repeats
\* nothing.
NoIncidentTwice ==
  \A i, j \in DOMAIN context :
    context[i].rank = context[j].rank => i = j \/ context[i].rank \in anew

\* One-sided context has a counterexample, as far as the code looks for one: if
\* less than three hits were found and all given have one tier, then there was
\* no positive incident of the opposite tier when the second query was made,
\* also not one stored since the first.  query.py:12 promises more ("if all
\* same tier, add one contrast example"): three hits leave no room for it, and
\* against an invented tier only LOW is looked for.
BalancedIfRoom ==
  (place = "done" /\ Len(positive) < NResults /\ Cardinality(TiersOf(context)) = 1) =>
    Opposed(context[1].tier) = {}
=============================================================================
