--------------------------- MODULE LearningAgent ---------------------------
(***************************************************************************)
(* The Learning Agent (layer2/agents/learning_agent.py): for every message *)
(* of outcome.feedback it upserts the incident into ChromaDB and moves the *)
(* confidence threshold in threshold_config.json towards the signal of the *)
(* outcome.  The file is emptied and then written, while the Policy Agent  *)
(* may read it at any time; the message is acknowledged last.              *)
(* Thresholds and signals are in ten-thousandths.                          *)
(***************************************************************************)
EXTENDS Integers, Sequences, FiniteSets

CONSTANTS
  Events,        \* event ids
  MaxCrashes,    \* bound: how often the agent dies
  MayFail,       \* whether the upsert or writing threshold_config.json can raise
  None,          \* no document, no configuration in hand
  Torn           \* the content of the file between truncation and write

VARIABLES
  feedback,    \* queue outcome.feedback: everything ever published on it
  handled,     \* how many of its messages are acknowledged or dead-lettered
  lpc,         \* the agent: idle, upserted, emptied, saved
  config,      \* update_ema: the configuration to be written
  file,        \* threshold_config.json
  known,       \* ChromaDB: event -> outcome of its document
  unlearned,   \* the messages that were dead-lettered, by position
  learned,     \* the configuration that was written last: history
  crashes      \* how often the agent died

learningVars == <<feedback, handled, lpc, config, file, known, unlearned, learned, crashes>>

OUTCOME_SIGNALS ==
  [AUTO_EXECUTE_SUCCESS |-> 8000, AUTO_EXECUTE_FAILURE |-> 5000,
   HITL_APPROVED |-> 7500, HITL_REJECTED |-> 4000, HITL_MODIFIED |-> 6000]

Outcomes == DOMAIN OUTCOME_SIGNALS

Config == [threshold : 6000..9000, updates : Nat]

DefaultConfig == [threshold |-> 6500, updates |-> 0]

LearningInit ==
  /\ feedback = <<>>
  /\ handled = 0
  /\ lpc = "idle"
  /\ config = None
  /\ file = DefaultConfig
  /\ known = [e \in Events |-> None]
  /\ unlearned = {}
  /\ learned = DefaultConfig
  /\ crashes = 0

-----------------------------------------------------------------------------
(* update_ema                                                              *)

\* round(x / 10): where x / 10 lies halfway the floating point error decides.
Rounded(x) == {n \in {x \div 10, (x \div 10) + 1} : x - 5 <= 10 * n /\ 10 * n <= x + 5}

\* alpha * current + (1 - alpha) * signal, bounded, with four decimals;
\* alpha is 0.9, the value of the file that nothing changes.
Moved(threshold, signal) ==
  LET x == 9 * threshold + signal IN
  Rounded(IF x < 60000 THEN 60000 ELSE IF x > 90000 THEN 90000 ELSE x)

\* Variant: a file that cannot be read counts as an empty configuration.
MutLoaded == IF file = Torn THEN [threshold |-> 0, updates |-> 0] ELSE file

\* load_threshold_config
Loaded == IF file = Torn THEN DefaultConfig ELSE file

\* load_threshold of the Policy Agent, at any moment: it has its own default and
\* its own bounds.
Applied ==
  IF file = Torn THEN 6500
  ELSE IF file.threshold < 6000 THEN 6000
  ELSE IF file.threshold > 9000 THEN 9000
  ELSE file.threshold

Message == feedback[handled + 1]

-----------------------------------------------------------------------------
\* Variant: a document that is there already is left alone.
MutUpsert ==
  /\ lpc = "idle"
  /\ handled < Len(feedback)
  /\ known' = [known EXCEPT ![Message.event] = IF @ = None THEN Message.outcome ELSE @]
  /\ lpc' = "upserted"
  /\ UNCHANGED <<feedback, handled, config, file, unlearned, learned, crashes>>

\* The summary of the model, or its replacement, is upserted with metadata.
Upsert ==
  /\ lpc = "idle"
  /\ handled < Len(feedback)
  /\ known' = [known EXCEPT ![Message.event] = Message.outcome]
  /\ lpc' = "upserted"
  /\ UNCHANGED <<feedback, handled, config, file, unlearned, learned, crashes>>

\* The metadata cannot be built, or ChromaDB refuses the document: dead letter.
UpsertFails ==
  /\ MayFail
  /\ lpc = "idle"
  /\ handled < Len(feedback)
  /\ unlearned' = unlearned \union {handled + 1}
  /\ handled' = handled + 1
  /\ UNCHANGED <<feedback, lpc, config, file, known, learned, crashes>>

\* The file is read, the new threshold computed, the file opened for writing.
Empty ==
  /\ lpc = "upserted"
  /\ \E threshold \in Moved(Loaded.threshold, OUTCOME_SIGNALS[Message.outcome]) :
       config' = [threshold |-> threshold, updates |-> Loaded.updates + 1]
  /\ file' = Torn
  /\ lpc' = "emptied"
  /\ UNCHANGED <<feedback, handled, known, unlearned, learned, crashes>>

Write ==
  /\ lpc = "emptied"
  /\ file' = config
  /\ learned' = config
  /\ config' = None
  /\ lpc' = "saved"
  /\ UNCHANGED <<feedback, handled, known, unlearned, crashes>>

\* Nothing can be written to the file: it stays empty, dead letter.
WriteFails ==
  /\ MayFail
  /\ lpc = "emptied"
  /\ unlearned' = unlearned \union {handled + 1}
  /\ handled' = handled + 1
  /\ config' = None
  /\ lpc' = "idle"
  /\ UNCHANGED <<feedback, file, known, learned, crashes>>

\* Variant: never acknowledged, so it is delivered again.
MutForgetAck ==
  /\ lpc = "saved"
  /\ lpc' = "idle"
  /\ UNCHANGED <<feedback, handled, config, file, known, unlearned, learned, crashes>>

AckFeedback ==
  /\ lpc = "saved"
  /\ handled' = handled + 1
  /\ lpc' = "idle"
  /\ UNCHANGED <<feedback, config, file, known, unlearned, learned, crashes>>

\* The agent dies; its message will be delivered again.
LearningCrash ==
  /\ crashes < MaxCrashes
  /\ lpc # "idle"
  /\ crashes' = crashes + 1
  /\ lpc' = "idle"
  /\ config' = None
  /\ UNCHANGED <<feedback, handled, file, known, unlearned, learned>>

Learn == Upsert \/ UpsertFails \/ Empty \/ Write \/ WriteFails \/ AckFeedback

LearningNext == Learn \/ LearningCrash
-----------------------------------------------------------------------------
(* Properties                                                              *)

\* The signals of the outcomes taken so far, and the threshold to begin with.
Heard ==
  {6500} \union
  {OUTCOME_SIGNALS[feedback[i].outcome] : i \in {j \in 1..handled + 1 : j \in DOMAIN feedback}}

\* Whenever the Policy Agent reads the file, the threshold it applies lies within
\* what the outcomes taken so far ask for and the initial 0.65: routing becomes
\* laxer than at the beginning only after a lower signal, stricter only after a
\* higher one.  That the file is emptied for every write, that a death or a full
\* disk leaves it empty, and that an outcome is taken twice must not show.
AppliedIsEarned ==
  /\ \E s \in Heard : s <= Applied
  /\ \E s \in Heard : Applied <= s

Learned(e, i) == feedback[i].event = e /\ i \notin unlearned

\* ChromaDB holds the latest reported outcome of every incident, up to the
\* message in hand: a message that is handled again after a death does not
\* overwrite a later one, and a dead letter at most leaves what an earlier
\* attempt at it stored.
KnownIsLatest ==
  \A e \in Events :
    \/ known[e] = None /\ \A i \in 1..handled : ~Learned(e, i)
    \/ \E i \in 1..handled + 1 :
         /\ i \in DOMAIN feedback
         /\ feedback[i].event = e
         /\ feedback[i].outcome = known[e]
         /\ \A j \in i + 1..handled : ~Learned(e, j)
=============================================================================
