---------------------------- MODULE TypeSoundness ----------------------------
(***************************************************************************)
(* What the type extractor promises the interpreter.                       *)
(***************************************************************************)
EXTENDS DirectThreadedVM

(* The engines never look at the tag of a word before they compute with    *)
(* it.  These are the tags that make sense.                                *)

Equalities == {"CMP_EQ", "CMP_NEQ"}
ReadsInt == IntArithmetic \cup (IntComparisons \ Equalities) \cup {"NEG_INT", "CAST_DECIMAL"}
ReadsDecimal == DecimalArithmetic \cup DecimalComparisons \cup {"NEG_DECIMAL"}
IntTags == {"int"}
DecimalTags == {"dec", "negzero", "nonfinite"}

WordsRead ==
  (IF op \in BinaryOpcodes \cup UnaryOpcodes \cup Branches THEN {AtOffset(op1)} ELSE {})
    \cup (IF op \in BinaryOpcodes THEN {AtOffset(op2)} ELSE {})
HaveTags(words, tags) == \A v \in words : v[1] \in tags

KindsRight ==
  /\ op \in ReadsInt => HaveTags(WordsRead, IntTags)
  /\ op \in ReadsDecimal => HaveTags(WordsRead, DecimalTags)
  /\ op \in Equalities =>
       HaveTags(WordsRead, IntTags) \/ HaveTags(WordsRead, DecimalTags)
  /\ op = "ADD_STRING" => HaveTags(WordsRead, {"str"})
  /\ op \in Branches => HaveTags(WordsRead, {"bool", "null"})
  /\ op = "CALL" => HaveTags({Local(op1)}, {"fnref", "null"})
  /\ op = "CALL_NATIVE" => HaveTags({AtOffset(op1)}, {"word"})

(* Type soundness: what the extractor took for an int, a decimal, a string *)
(* or a boolean is one whenever an instruction computes with it, and what  *)
(* is called is a function or null.                                        *)
OperandsHaveTheirKind == status = "running" => KindsRight

=============================================================================
