------------------------------ MODULE MCChain ------------------------------
(* Instances of AgentChain for TLC: one answer per class of behaviour.     *)
EXTENDS AgentChain

CONSTANTS a, b

object(severity, tier, confidence, actions) ==
  [shape |-> "object", severity |-> severity, tier |-> tier,
   confidence |-> confidence, actions |-> actions]

shapeless(shape) ==
  [shape |-> shape, severity |-> "absent", tier |-> "absent",
   confidence |-> 0, actions |-> 0]

silent     == shapeless("silent")
unparsable == shapeless("unparsable")
array      == shapeless("array")
sure       == object("MEDIUM", "LOW", 85, 3)
hesitant   == object("LOW", "LOW", 55, 3)
grave      == object("CRITICAL", "HIGH", 95, 3)
contrary   == object("CRITICAL", "LOW", 90, 3)
invented   == object("MEDIUM", "MEDIUM", 80, 3)
shrug      == object("LOW", "LOW", Null, 3)
empty      == object("absent", "absent", 0, 0)

EveryAnswer == {silent, unparsable, array, sure, hesitant, grave, contrary,
                invented, shrug, empty}

FewAnswers == {silent, unparsable, sure, hesitant, contrary, grave}

\* Torn and below the range.
FewContents == {Broken, 40}
OneContent  == {65}
=============================================================================
