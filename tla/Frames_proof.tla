---------------------------- MODULE Frames_proof ----------------------------
(***************************************************************************)
(* The calling convention of the engines: what has to hold between two     *)
(* instructions, the five things an instruction may do to a frame, and     *)
(* that each of them preserves it, for every well formed program, every    *)
(* size of the stack and every width of the integers.  CallFrames_proof    *)
(* and JitFrames_proof show that an engine does nothing else.              *)
(***************************************************************************)
EXTENDS Frames, IntegerArithmetic, SequenceTheorems, TLAPS

(* The inductive invariant: every part needs the others.  A return is      *)
(* right because the linkage is intact; the linkage is intact because      *)
(* stores stay in their context and operands above it; they do because the *)
(* registers match the frame, which is what a return reestablishes.        *)
CallingConvention ==
  /\ FramesTypeOK
  /\ RootStays
  /\ RegistersMatchFrame
  /\ LinkageKept
  /\ ResumesInCaller
  /\ FramesDisjoint
  /\ ContextsOwned
  /\ NothingCapturesStack

-----------------------------------------------------------------------------
(* Every data opcode yields machine words, whatever words it is given. *)

(* The half of a word that is read as an int is an int. *)
LEMMA HighWordsAreInts ==
  ASSUME NEW v \in Value
  PROVE  HighWords(v) \subseteq Int
BY DEF HighWords, Value, Tag, FloatBits, MinNormalBits, NegativeZeroBits, NonFiniteBits, Unspecified

(* Truncation to the width of an int gives an int. *)
LEMMA WrapIsInt ==
  ASSUME NEW n \in Int
  PROVE  Wrap(n) \in Int
BY IntMaxAssumption DEF Wrap

(* Division that does not trap is defined. *)
LEMMA DivisionIsInt ==
  ASSUME NEW m \in Int, NEW n \in Int, n # 0
  PROVE  Quotient(m, n) \in Int /\ Remainder(m, n) \in Int
<1>1. Magnitude(m) \in Nat /\ Magnitude(n) \in Nat \ {0}
  BY DEF Magnitude
<1>2. Magnitude(m) \div Magnitude(n) \in Int
  BY <1>1
<1>3. Quotient(m, n) \in Int
  BY <1>2 DEF Quotient
<1> QED
  BY <1>3 DEF Remainder

(* The constructors of z_value_t build words. *)
LEMMA ConstructorsAreValues ==
  /\ \A n \in Int : ivalue(n) \in Value /\ dvalue(n) \in Value /\ uvalue(n) \in Value
  /\ \A b \in BOOLEAN : bvalue(b) \in Value
  /\ \A s \in Seq(STRING) : svalue(s) \in Value
  /\ {NonFinite, undef, nvalue, nullptr} \subseteq Value
<1>1. \A tag \in Tag, n \in Int : <<tag, n>> \in Value
  BY DEF Value
<1>2. {"int", "dec", "word", "bool", "nonfinite", "undef", "null"} \subseteq Tag
  BY DEF Tag
<1>3. \A n \in Int : ivalue(n) \in Value /\ dvalue(n) \in Value /\ uvalue(n) \in Value
  BY <1>1, <1>2, WrapIsInt DEF ivalue, dvalue, uvalue
<1>4. \A b \in BOOLEAN : bvalue(b) \in Value
  BY <1>1, <1>2 DEF bvalue
<1>5. \A s \in Seq(STRING) : svalue(s) \in Value
  BY DEF svalue, Value
<1>6. {NonFinite, undef, nvalue, nullptr} \subseteq Value
  BY <1>1, <1>2 DEF NonFinite, undef, nvalue, nullptr, uvalue
<1> QED
  BY <1>3, <1>4, <1>5, <1>6

(* The words that are floats. *)
FloatWord == {w \in Value : w[2] \in Int}

LEMMA ZerosAreFloatWords ==
  /\ \A n \in Int : dvalue(n) \in FloatWord
  /\ {NegativeZero, NonFinite} \subseteq FloatWord
BY DEF FloatWord, dvalue, NegativeZero, NonFinite, Value, Tag

(* The half of a word that is read as a float is one. *)
LEMMA DecimalsAreFloats ==
  ASSUME NEW v \in Value
  PROVE  Decimals(v) \subseteq FloatWord
<1>1. AnyFloat \subseteq FloatWord /\ dvalue(0) \in FloatWord
  BY ZerosAreFloatWords DEF AnyFloat
<1>2. FloatsOfBits(v[2]) \subseteq FloatWord
  BY <1>1, ZerosAreFloatWords DEF FloatsOfBits
<1>3. v[1] \in {"dec", "negzero", "nonfinite"} => v \in FloatWord
  BY DEF FloatWord, Value, Tag
<1> QED
  BY <1>1, <1>2, <1>3 DEF Decimals

(* Float arithmetic yields a float. *)
LEMMA ExactIsInt ==
  ASSUME NEW opcode \in DecimalArithmetic, NEW x \in Int, NEW y \in Int,
         y # 0 \/ opcode \notin {"DIV_DECIMAL", "MOD_DECIMAL"}
  PROVE  Exact(opcode, x, y) \in Int
<1>1. CASE opcode \in {"ADD_DECIMAL", "SUB_DECIMAL"}
  BY <1>1 DEF Exact
<1>2. CASE opcode = "MUL_DECIMAL"
  <2>1. (x * y) \div DecimalUnit \in Int
    BY DEF DecimalUnit
  <2> QED
    BY <1>2, <2>1 DEF Exact
<1>3. CASE opcode = "DIV_DECIMAL"
  <2>1. Quotient(x * DecimalUnit, y) \in Int
    BY <1>3, DivisionIsInt DEF DecimalUnit
  <2> QED
    BY <1>3, <2>1 DEF Exact
<1>4. CASE opcode = "MOD_DECIMAL"
  BY <1>4, DivisionIsInt DEF Exact
<1> QED
  BY <1>1, <1>2, <1>3, <1>4 DEF DecimalArithmetic

LEMMA DecimalResultsAreFloats ==
  ASSUME NEW opcode \in DecimalArithmetic, NEW a \in FloatWord, NEW b \in FloatWord
  PROVE  DecimalResults(opcode, a, b) \subseteq FloatWord
<1>1. NonFiniteResults(opcode, a) \subseteq FloatWord
  BY ZerosAreFloatWords DEF NonFiniteResults
<1>2. a[2] \in Int /\ b[2] \in Int
  BY DEF FloatWord
<1>3. CASE b[2] = 0 /\ opcode \in {"DIV_DECIMAL", "MOD_DECIMAL"}
  <2>1. DecimalResult(opcode, a, b) \in FloatWord
    BY <1>3, ZerosAreFloatWords DEF DecimalResult
  <2> QED
    BY <1>1, <2>1 DEF DecimalResults
<1>4. CASE ~(b[2] = 0 /\ opcode \in {"DIV_DECIMAL", "MOD_DECIMAL"})
  <2>1. Exact(opcode, a[2], b[2]) \in Int
    BY <1>2, <1>4, ExactIsInt
  <2>2. DecimalResult(opcode, a, b) \in {NegativeZero, dvalue(Exact(opcode, a[2], b[2]))}
    BY <1>4 DEF DecimalResult
  <2>3. DecimalResult(opcode, a, b) \in FloatWord
    BY <2>1, <2>2, ZerosAreFloatWords
  <2> QED
    BY <1>1, <2>3 DEF DecimalResults
<1> QED
  BY <1>3, <1>4

(* Int arithmetic yields ints, before truncation. *)
LEMMA IntResultsAreInts ==
  ASSUME NEW opcode \in IntArithmetic, NEW m \in Int, NEW n \in Int
  PROVE  IntResults(opcode, m, n) \subseteq Int
<1>1. CASE opcode \in {"ADD_INT", "SUB_INT", "MUL_INT"}
  <2>1. m + n \in Int /\ m - n \in Int /\ m * n \in Int
    OBVIOUS
  <2> QED
    BY <1>1, <2>1 DEF IntResults
<1>2. CASE opcode \in {"DIV_INT", "MOD_INT"}
  BY <1>2, DivisionIsInt DEF IntResults, Traps
<1> QED
  BY <1>1, <1>2 DEF IntArithmetic

(* Int opcodes yield words whatever words they are applied to. *)
LEMMA IntOutcomesAreValues ==
  ASSUME NEW opcode \in IntArithmetic, NEW v \in Value, NEW w \in Value
  PROVE  IntOutcomes(opcode, v, w) \subseteq Value
<1> DEFINE R == {IntResults(opcode, m, n) : m \in HighWords(v), n \in HighWords(w)}
<1>1. \A S \in R : S \subseteq Int
  BY HighWordsAreInts, IntResultsAreInts
<1>2. \A r \in UNION R : ivalue(r) \in Value
  BY <1>1, ConstructorsAreValues
<1> HIDE DEF R
<1>3. {ivalue(r) : r \in UNION R} \subseteq Value
  BY <1>2
<1> QED
  BY <1>3 DEF R, IntOutcomes

(* Float opcodes yield words whatever words they are applied to. *)
LEMMA DecimalOutcomesAreValues ==
  ASSUME NEW opcode \in DecimalArithmetic, NEW v \in Value, NEW w \in Value
  PROVE  DecimalOutcomes(opcode, v, w) \subseteq Value
<1>1. \A a \in Decimals(v), b \in Decimals(w) : DecimalResults(opcode, a, b) \subseteq FloatWord
  BY DecimalsAreFloats, DecimalResultsAreFloats
<1>2. FloatWord \subseteq Value
  BY DEF FloatWord
<1> QED
  BY <1>1, <1>2 DEF DecimalOutcomes

(* Concatenation yields a word or traps. *)
LEMMA ConcatenationsAreValues ==
  ASSUME NEW v \in Value, NEW w \in Value
  PROVE  Concatenation(v, w) \subseteq Value
<1>1. v[1] = "str" /\ w[1] = "str" => v[2] \in Seq(STRING) /\ w[2] \in Seq(STRING)
  BY DEF Value, Tag
<1>2. v[1] = "str" /\ w[1] = "str" => v[2] \o w[2] \in Seq(STRING)
  BY <1>1
<1> QED
  BY <1>2, ConstructorsAreValues DEF Concatenation

(* Comparisons yield boolean words. *)
LEMMA ComparisonsAreBooleans ==
  ASSUME NEW opcode, NEW v, NEW w
  PROVE  /\ IntComparisonOutcomes(opcode, v, w) \subseteq Value
         /\ DecimalGreaterOutcomes(v, w) \subseteq Value
         /\ DecimalComparisonOutcomes(opcode, v, w) \subseteq Value
<1>1. \A b : bvalue(b) \in Value
  BY DEF bvalue, Value, Tag
<1>2. \A a, n : DecimalGreater(a, n) \subseteq Value
  BY <1>1 DEF DecimalGreater, Either
<1>3. \A a, b : DecimalComparison(opcode, a, b) \subseteq Value
  BY <1>1 DEF DecimalComparison, Either
<1>4. DecimalGreaterOutcomes(v, w) \subseteq Value
  BY <1>2 DEF DecimalGreaterOutcomes
<1>5. DecimalComparisonOutcomes(opcode, v, w) \subseteq Value
  BY <1>3 DEF DecimalComparisonOutcomes
<1> QED
  BY <1>1, <1>4, <1>5 DEF IntComparisonOutcomes

(* A binary opcode yields words. *)
LEMMA BinaryResultsAreValues ==
  ASSUME NEW opcode \in BinaryOpcodes, NEW v \in Value, NEW w \in Value
  PROVE  BinaryResults(opcode, v, w) \subseteq Value
BY IntOutcomesAreValues, DecimalOutcomesAreValues, ConcatenationsAreValues,
   ComparisonsAreBooleans
   DEF BinaryResults

(* A unary opcode yields words. *)
LEMMA UnaryResultsAreValues ==
  ASSUME NEW opcode \in UnaryOpcodes, NEW v \in Value
  PROVE  UnaryResults(opcode, v) \subseteq Value
<1>1. \A m \in Int : -m \in Int /\ m * DecimalUnit \in Int
  BY DEF DecimalUnit
<1>2. CASE opcode = "NEG_INT"
  <2>1. UnaryResults(opcode, v) = {ivalue(-m) : m \in HighWords(v)}
    BY <1>2 DEF UnaryResults
  <2> QED
    BY <1>1, <2>1, HighWordsAreInts, ConstructorsAreValues
<1>3. CASE opcode = "NEG_DECIMAL"
  <2>1. UnaryResults(opcode, v) = {Negation(a) : a \in Decimals(v)}
    BY <1>3 DEF UnaryResults
  <2>2. \A a \in FloatWord : Negation(a) \in FloatWord
    BY <1>1, ZerosAreFloatWords DEF Negation, FloatWord
  <2>3. \A a \in Decimals(v) : Negation(a) \in Value
    BY <2>2, DecimalsAreFloats DEF FloatWord
  <2> QED
    BY <2>1, <2>3
<1>4. CASE opcode = "CAST_DECIMAL"
  <2>1. UnaryResults(opcode, v) = {dvalue(m * DecimalUnit) : m \in HighWords(v)}
    BY <1>4 DEF UnaryResults
  <2> QED
    BY <1>1, <2>1, HighWordsAreInts, ConstructorsAreValues
<1> QED
  BY <1>2, <1>3, <1>4 DEF UnaryOpcodes

-----------------------------------------------------------------------------
(* Integers: what the opcodes compute is what arithmetic says, for every   *)
(* width of the type.                                                      *)

(* Division with a positive divisor. *)
LEMMA Division ==
  ASSUME NEW a \in Int, NEW n \in Nat \ {0}
  PROVE  /\ a \div n \in Int /\ a % n \in 0 .. n - 1
         /\ a = n * (a \div n) + (a % n)
OBVIOUS

(* Adding multiples of the divisor changes nothing, *)
LEMMA RemainderOfMultiple ==
  ASSUME NEW n \in Nat \ {0}, NEW q \in Int
  PROVE  (n * q) % n = 0
OBVIOUS

LEMMA WrapFacts ==
  ASSUME NEW n \in Int
  PROVE  /\ Wrap(n) \in IntRange
         /\ Congruent(Wrap(n), n)
         /\ n \in IntRange => Wrap(n) = n
<1>1. PICK half \in Nat \ {0}, size \in Nat \ {0} : half = INT_MAX + 1 /\ size = 2 * half
  BY IntMaxAssumption
<1>2. PICK sum \in Int : sum = n + half
  BY <1>1
<1>10. PICK q \in Int, rest \in 0 .. size - 1 : sum = size * q + rest /\ rest = sum % size
  <2>1. /\ sum \div size \in Int /\ sum % size \in 0 .. size - 1
        /\ sum = size * (sum \div size) + (sum % size)
    BY <1>1, <1>2, Division
  <2> QED
    BY <2>1, Zenon
<1>3. Wrap(n) = rest - half
  <2>1. n + INT_MAX + 1 = sum /\ INT_MAX + 1 = half
    BY <1>1, <1>2, IntMaxAssumption
  <2>2. Wrap(n) = (sum % size) - half
    BY <1>1, <2>1 DEF Wrap
  <2> QED
    BY <1>10, <2>2
<1>4. \A x \in Int : x \in IntRange <=> -half <= x /\ x <= half - 1
  BY <1>1, IntMaxAssumption DEF IntRange
<1>5. Wrap(n) - n = size * (-q)
  <2>1. PICK product \in Int : product = size * q /\ size * (-q) = -product
    BY <1>1
  <2> QED
    BY <1>2, <1>10, <1>3, <2>1
<1>6. (size * (-q)) % size = 0
  BY <1>1, <1>2, RemainderOfMultiple
<1>7. Congruent(Wrap(n), n)
  BY <1>1, <1>5, <1>6, IntMaxAssumption DEF Congruent
<1>8. ASSUME n \in IntRange
      PROVE  Wrap(n) = n
  <2>1. n + half \in 0 .. size - 1
    BY <1>1, <1>4, <1>8
  <2>2. sum % size = sum
    BY <1>1, <1>2, <2>1
  <2>3. rest = sum
    BY <1>10, <2>2, Zenon
  <2> QED
    BY <1>1, <1>2, <1>3, <2>3
<1>9. Wrap(n) \in IntRange
  BY <1>1, <1>3, <1>4
<1> QED
  BY <1>7, <1>8, <1>9

(* Quotient truncates and leaves a rest with the sign of the dividend. *)
LEMMA QuotientFacts ==
  ASSUME NEW m \in Int, NEW n \in Int, n # 0
  PROVE  /\ Quotient(m, n) \in Int
         /\ m = n * Quotient(m, n) + Remainder(m, n)
         /\ Magnitude(Remainder(m, n)) < Magnitude(n)
         /\ Remainder(m, n) # 0 => (Remainder(m, n) < 0) = (m < 0)
         /\ Remainder(m, n) \in Int
         /\ Magnitude(Quotient(m, n)) <= Magnitude(m)
<1>1. PICK a \in Nat, b \in Nat \ {0} : a = Magnitude(m) /\ b = Magnitude(n)
  BY DEF Magnitude
<1>2. PICK q \in Int, r \in 0 .. b - 1 : a = b * q + r /\ q = a \div b
  <2>1. a \in Int
    OBVIOUS
  <2>2. /\ a \div b \in Int /\ a % b \in 0 .. b - 1
        /\ a = b * (a \div b) + (a % b)
    BY <2>1, Division
  <2> QED
    BY <2>2, Zenon
<1>3. q \in Nat /\ q <= a
  <2>1. q >= 0
    <3>1. q < 0 => b * q <= -b
      BY <1>1, <1>2
    <3> QED
      BY <1>1, <1>2, <3>1
  <2>2. b * q >= q
    BY <1>1, <1>2, <2>1
  <2> QED
    BY <1>1, <1>2, <2>1, <2>2
<1>4. /\ m \in Int /\ m = IF m < 0 THEN -a ELSE a
      /\ n = IF n < 0 THEN -b ELSE b
  BY <1>1 DEF Magnitude
<1>5. Quotient(m, n) = IF (m < 0) = (n < 0) THEN q ELSE -q
  BY <1>1, <1>2 DEF Quotient
<1>6. n * Quotient(m, n) = IF m < 0 THEN -(b * q) ELSE b * q
  <2>1. CASE m < 0 /\ n < 0
    BY <1>1, <1>2, <1>4, <1>5, <2>1
  <2>2. CASE m < 0 /\ ~(n < 0)
    BY <1>1, <1>2, <1>4, <1>5, <2>2
  <2>3. CASE ~(m < 0) /\ n < 0
    BY <1>1, <1>2, <1>4, <1>5, <2>3
  <2>4. CASE ~(m < 0) /\ ~(n < 0)
    BY <1>1, <1>2, <1>4, <1>5, <2>4
  <2> QED
    BY <2>1, <2>2, <2>3, <2>4
<1>7. Remainder(m, n) = IF m < 0 THEN -r ELSE r
  <2>1. PICK product \in Int : product = b * q
    BY <1>1, <1>2
  <2> QED
    BY <1>2, <1>4, <1>6, <2>1 DEF Remainder
<1>8. Quotient(m, n) \in Int /\ Magnitude(Quotient(m, n)) <= a
  BY <1>2, <1>3, <1>5 DEF Magnitude
<1>9. /\ Magnitude(Remainder(m, n)) < b
      /\ Remainder(m, n) # 0 => (Remainder(m, n) < 0) = (m < 0)
      /\ Remainder(m, n) \in Int
  BY <1>2, <1>4, <1>7 DEF Magnitude
<1>10. m = n * Quotient(m, n) + Remainder(m, n)
  <2>1. PICK product \in Int : product = n * Quotient(m, n)
    BY <1>8
  <2> QED
    BY <2>1 DEF Remainder
<1> QED
  BY <1>1, <1>8, <1>9, <1>10

(* It fits unless idiv traps. *)
LEMMA QuotientFits ==
  ASSUME NEW m \in IntRange, NEW n \in IntRange, ~Traps(m, n)
  PROVE  /\ Quotient(m, n) \in IntRange
         /\ Remainder(m, n) \in IntRange
<1>1. /\ m \in Int /\ n \in Int /\ n # 0 /\ INT_MAX \in Nat
      /\ Magnitude(m) <= INT_MAX + 1 /\ Magnitude(n) <= INT_MAX + 1
  BY IntMaxAssumption DEF IntRange, Traps, Magnitude
<1>2. PICK q \in Int, r \in Int :
        /\ q = Quotient(m, n)
        /\ r = Remainder(m, n)
        /\ m = n * q + r
        /\ Magnitude(r) < Magnitude(n)
        /\ r # 0 => (r < 0) = (m < 0)
        /\ Magnitude(q) <= Magnitude(m)
  BY <1>1, QuotientFacts
<1>3. r \in IntRange
  BY <1>1, <1>2 DEF IntRange, Magnitude
<1>4. q # INT_MAX + 1
  <2> SUFFICES ASSUME q = INT_MAX + 1
               PROVE  FALSE
    OBVIOUS
  <2>1. Magnitude(m) = INT_MAX + 1 /\ m = -INT_MAX - 1
    BY <1>1, <1>2 DEF Magnitude, IntRange
  <2>2. PICK product \in Int : /\ product = n * q
                               /\ n < -1 => product <= -2 * q
                               /\ n > 0 => product >= q
    <3>1. n * q \in Int /\ (n < -1 => n * q <= -2 * q) /\ (n > 0 => n * q >= q)
      BY <1>1
    <3> QED
      BY <3>1, Zenon
  <2>3. m = product + r
    BY <1>2, <2>2, Zenon
  <2>4. n = -1
    <3>1. /\ n < -1 => product <= -2 * q
          /\ n > 0 => product >= q
          /\ Magnitude(r) < Magnitude(n)
      BY <1>2, <2>2, Zenon
    <3> QED
      BY <1>1, <2>1, <2>3, <3>1 DEF Magnitude
  <2> QED
    BY <2>1, <2>4 DEF Traps
<1>5. q \in IntRange
  BY <1>1, <1>2, <1>4 DEF IntRange, Magnitude
<1> QED
  BY <1>2, <1>3, <1>5

(* An operator on ints yields an int: the one arithmetic says.             *)
LEMMA IntResultsExact ==
  ASSUME NEW o \in IntArithmetic, NEW m \in IntRange, NEW n \in IntRange,
         NEW r \in IntResults(o, m, n)
  PROVE  /\ Wrap(r) \in IntRange
         /\ IsIntResult(o, m, n, Wrap(r))
<1>1. m \in Int /\ n \in Int
  BY IntMaxAssumption DEF IntRange
<1>2. CASE o = "ADD_INT"
  <2>1. r = m + n
    BY <1>2 DEF IntResults
  <2> QED
    BY <1>1, <1>2, <2>1, WrapFacts DEF IsIntResult
<1>3. CASE o = "SUB_INT"
  <2>1. r = m - n
    BY <1>3 DEF IntResults
  <2> QED
    BY <1>1, <1>3, <2>1, WrapFacts DEF IsIntResult
<1>4. CASE o = "MUL_INT"
  <2>1. r = m * n /\ m * n \in Int
    BY <1>1, <1>4 DEF IntResults
  <2> QED
    BY <1>1, <1>4, <2>1, WrapFacts DEF IsIntResult
<1>5. CASE o \in {"DIV_INT", "MOD_INT"}
  <2>1. /\ ~Traps(m, n)
        /\ r = IF o = "DIV_INT" THEN Quotient(m, n) ELSE Remainder(m, n)
    BY <1>5 DEF IntResults
  <2>2. n # 0
    BY <2>1 DEF Traps
  <2>3. PICK q \in IntRange, rest \in IntRange :
          /\ q = Quotient(m, n) /\ rest = Remainder(m, n)
          /\ m = n * q + rest
          /\ Magnitude(rest) < Magnitude(n)
          /\ rest # 0 => (rest < 0) = (m < 0)
    <3>1. Quotient(m, n) \in IntRange /\ Remainder(m, n) \in IntRange
      BY <2>1, QuotientFits
    <3>2. /\ m = n * Quotient(m, n) + Remainder(m, n)
          /\ Magnitude(Remainder(m, n)) < Magnitude(n)
          /\ Remainder(m, n) # 0 => (Remainder(m, n) < 0) = (m < 0)
      BY <1>1, <2>2, QuotientFacts
    <3> QED
      BY <3>1, <3>2, Zenon
  <2>4. r \in Int /\ r \in IntRange /\ Wrap(r) = r
    BY <2>1, <2>3, WrapFacts, IntMaxAssumption DEF IntRange
  <2>5. CASE o = "DIV_INT"
    <3>1. rest \in -Magnitude(n) + 1 .. Magnitude(n) - 1
      BY <1>1, <2>3, IntMaxAssumption DEF IntRange, Magnitude
    <3> QED
      BY <2>1, <2>3, <2>4, <2>5, <3>1 DEF IsIntResult
  <2>6. CASE o = "MOD_INT"
    BY <2>1, <2>3, <2>4, <2>6 DEF IsIntResult
  <2> QED
    BY <1>5, <2>5, <2>6
<1> QED
  BY <1>2, <1>3, <1>4, <1>5 DEF IntArithmetic

(* A division traps only where no int is the result: nothing divides by 0, *)
(* and the quotient of the least int and -1 is not in the range.  (MOD_INT *)
(* of those two has no result for the same reason: its rest is 0, but the  *)
(* quotient it belongs to does not fit.)                                   *)
LEMMA NoResultToStore ==
  ASSUME NEW o \in {"DIV_INT", "MOD_INT"}, NEW m \in IntRange, NEW n \in IntRange,
         Traps(m, n), NEW r \in IntRange
  PROVE  ~IsIntResult(o, m, n, r)
<1>1. /\ m \in Int /\ n \in Int /\ r \in Int /\ INT_MAX \in Nat
      /\ r <= INT_MAX
  BY IntMaxAssumption DEF IntRange
<1>2. CASE n = 0
  <2>1. Magnitude(n) = 0 /\ Magnitude(r) >= 0 /\ Magnitude(r) \in Int
    BY <1>1, <1>2 DEF Magnitude
  <2>2. -Magnitude(n) + 1 .. Magnitude(n) - 1 = {}
    BY <2>1
  <2>3. ~(Magnitude(r) < Magnitude(n))
    BY <2>1
  <2> QED
    BY <2>2, <2>3 DEF IsIntResult
<1>3. CASE m = -INT_MAX - 1 /\ n = -1
  <2>1. Magnitude(n) = 1
    <3>1. n + 1 = 0
      BY <1>3
    <3>2. n < 0 /\ -n = 1
      BY <1>1, <3>1
    <3> QED
      BY <3>2, Zenon DEF Magnitude
  <2>2. CASE o = "DIV_INT"
    <3>1. ASSUME NEW rest \in -1 + 1 .. 1 - 1
          PROVE  m # n * r + rest
      BY <1>1, <1>3, <3>1
    <3>2. \A rest \in -Magnitude(n) + 1 .. Magnitude(n) - 1 : m # n * r + rest
      BY <2>1, <3>1
    <3> QED
      BY <2>2, <3>2 DEF IsIntResult
  <2>3. CASE o = "MOD_INT"
    <3>1. ASSUME NEW q \in IntRange, Magnitude(r) < 1
          PROVE  m # n * q + r
      <4>1. q \in Int /\ q <= INT_MAX /\ r = 0
        BY <1>1, <3>1 DEF IntRange, Magnitude
      <4>2. n * q = -q
        BY <1>3, <4>1
      <4> QED
        BY <1>1, <1>3, <4>1, <4>2
    <3> QED
      BY <2>1, <2>3, <3>1 DEF IsIntResult
  <2> QED
    BY <2>2, <2>3
<1> QED
  BY <1>2, <1>3 DEF Traps

-----------------------------------------------------------------------------
(* Facts about well formed programs *)

(* A function starts with its FN_ENTER, with no operands and at least the  *)
(* parent slot.                                                            *)
LEMMA EntryFacts ==
  ASSUME NEW p \in Programs, NEW e \in EntriesOf(p)
  PROVE  /\ e \in Addresses(p)
         /\ p.code[e].op \in FnEnters
         /\ p.entry[e] = e
         /\ p.height[e] = 0
         /\ p.code[e].op1 = FrameSize(p, e)
         /\ FrameSize(p, e) \in Nat \ {0}
         /\ StackWords(p, e) \in Nat
<1>1. WellFormed(p)
  BY ProgramsAssumption
<1>2. e \in Addresses(p) /\ p.code[e].op \in FnEnters
  BY DEF EntriesOf
<1>3. WellFormedAt(p, e)
  BY <1>1, <1>2 DEF WellFormed
<1>4. p.entry[e] = e /\ p.height[e] = 0 /\ p.code[e].op1 \in Nat \ {0}
  BY <1>2, <1>3 DEF WellFormedAt
<1> QED
  BY <1>2, <1>4 DEF FrameSize, StackWords

(* Every address of a program belongs to one of its functions. *)
LEMMA AddressFacts ==
  ASSUME NEW p \in Programs, NEW a \in Addresses(p)
  PROVE  /\ a \in Nat
         /\ WellFormedAt(p, a)
         /\ p.code[a].op \in Opcode
         /\ p.code[a].op2 \in Nat
         /\ p.code[a].dest \in Nat
         /\ p.entry[a] \in EntriesOf(p)
         /\ p.height[a] \in Nat
         /\ p.code[a].op \in FnEnters <=> a = p.entry[a]
         /\ p.code[a].op \in FnEnters <=> a \in EntriesOf(p)
<1>1. WellFormed(p)
  BY ProgramsAssumption
<1>2. a \in Nat /\ WellFormedAt(p, a)
  BY <1>1 DEF WellFormed
<1>3. IsInstruction(p.code[a])
  BY <1>2 DEF WellFormedAt
<1> QED
  BY <1>2, <1>3 DEF WellFormedAt, IsInstruction, EntriesOf

(* Code starts with the root function. *)
LEMMA RootFacts ==
  ASSUME NEW p \in Programs
  PROVE  0 \in EntriesOf(p)
BY ProgramsAssumption DEF WellFormed

(* Control that does not jump stays in the function. *)
LEMMA SuccessorFacts ==
  ASSUME NEW p \in Programs, NEW a \in Addresses(p), p.code[a].op \notin {"JMP", "RET"}
  PROVE  /\ a + 1 \in Addresses(p)
         /\ a + 1 \notin EntriesOf(p)
         /\ p.entry[a + 1] = p.entry[a]
         /\ p.height[a + 1] = HeightAfter(p.code[a], p.height[a])
<1>1. /\ a + 1 \in Addresses(p)
      /\ a + 1 # p.entry[a]
      /\ p.entry[a + 1] = p.entry[a]
      /\ p.height[a + 1] = HeightAfter(p.code[a], p.height[a])
  BY AddressFacts DEF WellFormedAt
<1>2. a + 1 \in EntriesOf(p) => p.entry[a + 1] = a + 1
  BY EntryFacts
<1> QED
  BY <1>1, <1>2

(* Neither does control that jumps leave it. *)
LEMMA JumpFacts ==
  ASSUME NEW p \in Programs, NEW a \in Addresses(p), p.code[a].op \in Jumps
  PROVE  LET target == p.code[a].dest IN
         /\ target \in Addresses(p)
         /\ target \notin EntriesOf(p)
         /\ p.entry[target] = p.entry[a]
         /\ p.height[target] = p.height[a]
<1> DEFINE target == p.code[a].dest
<1>1. /\ target \in Addresses(p)
      /\ target # p.entry[a]
      /\ p.entry[target] = p.entry[a]
      /\ p.height[target] = p.height[a]
  BY AddressFacts DEF WellFormedAt
<1>2. target \in EntriesOf(p) => p.entry[target] = target
  BY EntryFacts
<1> QED
  BY <1>1, <1>2

(* Scaling a slot index and dividing again gives the index. *)
LEMMA Unscaled ==
  ASSUME NEW n \in Nat
  PROVE  (WORD * n) \div WORD = n
BY DEF WORD

(* What an appended sequence holds. *)
LEMMA AppendIndexes ==
  ASSUME NEW S, NEW s \in Seq(S), NEW e \in S
  PROVE  /\ DOMAIN Append(s, e) = 1 .. Len(s) + 1
         /\ Append(s, e)[Len(s) + 1] = e
         /\ \A i \in 1 .. Len(s) : Append(s, e)[i] = s[i]
         /\ \A i \in DOMAIN Append(s, e) :
              Append(s, e)[i] = e \/ (i \in DOMAIN s /\ Append(s, e)[i] = s[i])
<1>1. /\ Append(s, e) \in Seq(S)
      /\ Len(Append(s, e)) = Len(s) + 1
      /\ \A i \in 1 .. Len(s) : Append(s, e)[i] = s[i]
      /\ Append(s, e)[Len(s) + 1] = e
  BY AppendProperties
<1>2. DOMAIN s = 1 .. Len(s) /\ Len(s) \in Nat
  OBVIOUS
<1>3. DOMAIN Append(s, e) = 1 .. Len(s) + 1
  BY <1>1
<1>4. ASSUME NEW i \in DOMAIN Append(s, e)
      PROVE  Append(s, e)[i] = e \/ (i \in DOMAIN s /\ Append(s, e)[i] = s[i])
  <2>1. i \in 1 .. Len(s) \/ i = Len(s) + 1
    BY <1>2, <1>3
  <2>2. CASE i = Len(s) + 1
    BY <1>1, <2>2
  <2>3. CASE i \in 1 .. Len(s)
    BY <1>1, <1>2, <2>3
  <2> QED
    BY <2>1, <2>2, <2>3
<1> QED
  BY <1>1, <1>3, <1>4

-----------------------------------------------------------------------------
(* Facts about states of the calling convention *)

(* Where the arguments of an activation are, by its base. *)
LEMMA ArgumentsBelowBase ==
  ASSUME NEW k, frames[k].base \in Nat, Len(frames[k].args) \in Nat,
         Len(frames[k].linkage) \in Nat
  PROVE  /\ ArgumentsStart(k) \in Int
         /\ ArgumentsStart(k) + Len(frames[k].args) = frames[k].base - Len(frames[k].linkage)
         /\ ArgumentsStart(k) <= frames[k].base
         /\ Len(frames[k].linkage) > 0 => ArgumentsStart(k) < frames[k].base
<1>1. PICK base, size, words : /\ base = frames[k].base
                               /\ size = Len(frames[k].args)
                               /\ words = Len(frames[k].linkage)
  OBVIOUS
<1>2. ArgumentsStart(k) = base - words - size
  BY <1>1 DEF ArgumentsStart
<1>3. base \in Nat /\ size \in Nat /\ words \in Nat
  BY <1>1
<1>4. /\ base - words - size \in Int
      /\ (base - words - size) + size = base - words
      /\ base - words - size <= base
      /\ words > 0 => base - words - size < base
  BY <1>3
<1> QED
  BY <1>1, <1>2, <1>4

(* Where the parts of every frame are. *)
LEMMA FrameFacts ==
  ASSUME CallingConvention
  PROVE  /\ program \in Programs
         /\ ip \in Addresses(program)
         /\ Depth \in Nat \ {0}
         /\ Frame.entry = program.entry[ip]
         /\ Entering <=> ip \in EntriesOf(program)
         /\ \A k \in 1 .. Depth :
              /\ frames[k].base \in Nat \ {0}
              /\ frames[k].entry \in EntriesOf(program)
              /\ StackWords(program, frames[k].entry) \in Nat
              /\ FrameSize(program, frames[k].entry) \in Nat \ {0}
              /\ ContextEnd(k) \in Nat
              /\ ArgumentsStart(k) \in Int
              /\ Len(frames[k].args) \in Nat
              /\ Len(frames[k].linkage) \in Nat
              /\ k > 1 => ArgumentsStart(k) > 0 /\ Len(frames[k].linkage) > 2
         /\ stack_pointer \in StackIndexes
         /\ ~Entering => stack_pointer >= ContextEnd(Depth)
<1>1. FramesTypeOK
  BY DEF CallingConvention
<1>2. /\ program \in Programs
      /\ ip \in Addresses(program)
      /\ stack_pointer \in StackIndexes
      /\ Depth \in Nat \ {0}
      /\ \A k \in 1 .. Depth : /\ frames[k].base \in Nat
                               /\ frames[k].args \in Seq(Value)
                               /\ frames[k].linkage \in Seq(Value)
  <2>1. program \in Programs /\ ip \in Addresses(program) /\ stack_pointer \in StackIndexes
    BY <1>1 DEF FramesTypeOK, SharedTypeOK
  <2>2. frames \in Seq(FrameRecord)
    BY <1>1 DEF FramesTypeOK
  <2>3. Depth \in Nat \ {0} /\ Depth = Len(frames)
    BY <1>1, <2>2 DEF FramesTypeOK, Depth
  <2>4. \A k \in 1 .. Depth : /\ frames[k].base \in Nat
                              /\ frames[k].args \in Seq(Value)
                              /\ frames[k].linkage \in Seq(Value)
    <3>1. \A k \in 1 .. Depth : frames[k] \in FrameRecord
      BY <2>2, <2>3
    <3> QED
      BY <3>1 DEF FrameRecord
  <2> QED
    BY <2>1, <2>3, <2>4
<1>3. program.entry[ip] = Frame.entry
  BY DEF CallingConvention, RegistersMatchFrame
<1>4. Entering <=> ip \in EntriesOf(program)
  BY <1>2, AddressFacts DEF Entering
<1>5. \A k \in 1 .. Depth : frames[k].entry \in EntriesOf(program)
  <2>1. TAKE k \in 1 .. Depth
  <2>2. CASE k = Depth
    BY <1>2, <1>3, <2>2, AddressFacts DEF Frame
  <2>3. CASE k # Depth
    <3>1. k + 1 \in 2 .. Depth /\ k + 1 - 1 = k
      BY <1>2, <2>3
    <3>2. /\ frames[k + 1].resume \in Addresses(program)
          /\ program.entry[frames[k + 1].resume] = frames[k].entry
      BY <3>1 DEF CallingConvention, ResumesInCaller
    <3> QED
      BY <1>2, <3>2, AddressFacts
  <2> QED
    BY <2>2, <2>3
<1>6. \A k \in 1 .. Depth : /\ StackWords(program, frames[k].entry) \in Nat
                            /\ FrameSize(program, frames[k].entry) \in Nat \ {0}
  BY <1>2, <1>5, EntryFacts
<1>7. frames[1].base = 1
  BY DEF CallingConvention, RootStays, RootFrame
<1>8. \A k \in 1 .. Depth : /\ ContextEnd(k) \in Nat
                            /\ ArgumentsStart(k) \in Int
                            /\ Len(frames[k].args) \in Nat
                            /\ Len(frames[k].linkage) \in Nat
                            /\ ContextEnd(k) >= frames[k].base
                            /\ frames[k].base >= ArgumentsStart(k)
  <2>1. TAKE k \in 1 .. Depth
  <2>2. /\ frames[k].base \in Nat
        /\ Len(frames[k].args) \in Nat
        /\ Len(frames[k].linkage) \in Nat
        /\ StackWords(program, frames[k].entry) \in Nat
    BY <1>2, <1>6
  <2>3. ContextEnd(k) \in Nat /\ ContextEnd(k) >= frames[k].base
    BY <2>2 DEF ContextEnd
  <2>4. ArgumentsStart(k) \in Int /\ frames[k].base >= ArgumentsStart(k)
    BY <2>2, ArgumentsBelowBase
  <2> QED
    BY <2>2, <2>3, <2>4
<1>9. \A k \in 2 .. Depth : ContextEnd(1) <= ArgumentsStart(k)
  <2>1. FramesDisjoint
    BY DEF CallingConvention
  <2> QED
    BY <1>2, <2>1 DEF FramesDisjoint
<1>10. \A k \in 1 .. Depth : k > 1 => ArgumentsStart(k) > 0 /\ Len(frames[k].linkage) > 2
  <2>1. \A k \in 1 .. Depth : k > 1 => Len(frames[k].linkage) > 2
    BY <1>2 DEF CallingConvention, LinkageKept
  <2> QED
    BY <1>2, <1>7, <1>8, <1>9, <2>1
<1>11. \A k \in 1 .. Depth : frames[k].base \in Nat \ {0}
  BY <1>2, <1>7, <1>8, <1>10
<1>12. ~Entering => stack_pointer >= ContextEnd(Depth)
  <2>1. program.height[ip] \in Nat
    BY <1>2, AddressFacts
  <2> QED
    BY <1>2, <1>8, <2>1 DEF CallingConvention, RegistersMatchFrame
<1> QED
  BY <1>2, <1>3, <1>4, <1>5, <1>6, <1>8, <1>10, <1>11, <1>12

(* Linkage, arguments and contexts of the suspended activations are below  *)
(* the base of the running one.                                            *)
LEMMA BelowBase ==
  ASSUME CallingConvention, NEW k \in 1 .. Depth
  PROVE  /\ Frame.base \in Nat \ {0}
         /\ Frame.base <= stack_pointer
         /\ \A i \in 0 .. Frame.base : i \in StackIndexes
         /\ frames[k].base <= Frame.base
         /\ k < Depth => ContextEnd(k) < Frame.base /\ frames[k].base < Frame.base
         /\ k > 1 => /\ \A j \in 1 .. Len(frames[k].linkage) : frames[k].base - j \in 0 .. Frame.base - 1
                     /\ \A n \in 1 .. Len(frames[k].args) :
                          ArgumentsStart(k) + n - 1 \in 0 .. Frame.base - 1
<1>1. /\ Depth \in 1 .. Depth
      /\ frames[k].base \in Nat \ {0}
      /\ Frame.base \in Nat \ {0}
      /\ Len(frames[k].args) \in Nat
      /\ Len(Frame.args) \in Nat
      /\ Len(frames[k].linkage) \in Nat
      /\ Len(Frame.linkage) \in Nat
      /\ Depth > 1 => Len(Frame.linkage) > 2
      /\ StackWords(program, frames[k].entry) \in Nat
      /\ StackWords(program, Frame.entry) \in Nat
      /\ k > 1 => ArgumentsStart(k) > 0
      /\ stack_pointer \in StackIndexes
  <2>1. Depth \in 1 .. Depth /\ stack_pointer \in StackIndexes
    BY FrameFacts
   <2>2. \A n \in 1 .. Depth :
          /\ frames[n].base \in Nat \ {0}
          /\ Len(frames[n].args) \in Nat
          /\ Len(frames[n].linkage) \in Nat
          /\ n > 1 => Len(frames[n].linkage) > 2
          /\ StackWords(program, frames[n].entry) \in Nat
          /\ n > 1 => ArgumentsStart(n) > 0
    BY FrameFacts
  <2>3. /\ frames[Depth].base \in Nat \ {0}
        /\ Len(frames[Depth].args) \in Nat
        /\ Len(frames[Depth].linkage) \in Nat
        /\ Depth > 1 => Len(frames[Depth].linkage) > 2
        /\ StackWords(program, frames[Depth].entry) \in Nat
    BY <2>1, <2>2
  <2>4. /\ frames[k].base \in Nat \ {0}
        /\ Len(frames[k].args) \in Nat
        /\ Len(frames[k].linkage) \in Nat
        /\ StackWords(program, frames[k].entry) \in Nat
        /\ k > 1 => ArgumentsStart(k) > 0
    BY <2>2
  <2> QED
    BY <2>1, <2>3, <2>4 DEF Frame
<1>2. ContextEnd(k) >= frames[k].base /\ ContextEnd(k) \in Nat
  BY <1>1 DEF ContextEnd
<1>3. k < Depth => ContextEnd(k) < Frame.base
  <2>1. k < Depth => ContextEnd(k) <= ArgumentsStart(Depth)
    <3>1. FramesDisjoint
      BY DEF CallingConvention
    <3> QED
      BY <1>1, <3>1 DEF FramesDisjoint
  <2>2. /\ ArgumentsStart(Depth) \in Int
        /\ Depth > 1 => ArgumentsStart(Depth) < Frame.base
    BY <1>1, ArgumentsBelowBase DEF Frame
  <2> QED
    BY <1>1, <1>2, <2>1, <2>2
<1>4. frames[k].base <= Frame.base
  BY <1>1, <1>2, <1>3 DEF Frame
<1>5. Frame.base <= stack_pointer
  <2>1. CASE Entering
    BY <1>1, <2>1 DEF CallingConvention, RegistersMatchFrame
  <2>2. CASE ~Entering
    <3>1. Frame.base <= ContextEnd(Depth) /\ ContextEnd(Depth) \in Nat
      BY <1>1 DEF ContextEnd, Frame
    <3>2. stack_pointer >= ContextEnd(Depth)
      BY <2>2, FrameFacts
    <3> QED
      BY <1>1, <3>1, <3>2, StackMaxAssumption DEF StackIndexes
  <2> QED
    BY <2>1, <2>2
<1>6. \A i \in 0 .. Frame.base : i \in StackIndexes
  BY <1>1, <1>5, StackMaxAssumption DEF StackIndexes
<1>7. ASSUME k > 1
      PROVE  /\ \A j \in 1 .. Len(frames[k].linkage) : frames[k].base - j \in 0 .. Frame.base - 1
             /\ \A n \in 1 .. Len(frames[k].args) :
                  ArgumentsStart(k) + n - 1 \in 0 .. Frame.base - 1
  <2> DEFINE start == ArgumentsStart(k)
             size == Len(frames[k].args)
             words == Len(frames[k].linkage)
             base == frames[k].base
  <2>1. /\ start = base - words - size /\ start > 0
        /\ size \in Nat /\ words \in Nat /\ base \in Nat
    BY <1>1, <1>7 DEF ArgumentsStart
  <2>2. base <= Frame.base
    BY <1>4
  <2> HIDE DEF start, size, words, base
  <2>3. PICK top \in Nat : top = Frame.base
    BY <1>1
  <2>4. \A j \in 1 .. words : base - j \in 0 .. top - 1
    BY <2>1, <2>2, <2>3
  <2>5. \A n \in 1 .. size : start + n - 1 \in 0 .. top - 1
    BY <2>1, <2>2, <2>3
  <2> QED
    BY <2>3, <2>4, <2>5 DEF start, size, words, base
<1>8. k < Depth => frames[k].base < Frame.base
  BY <1>1, <1>2, <1>3
<1> QED
  BY <1>1, <1>3, <1>4, <1>5, <1>6, <1>7, <1>8

(* Every block of the heap has a first slot, which holds a parent. *)
LEMMA HeapFacts ==
  ASSUME CallingConvention
  PROVE  /\ heap \in Seq(Seq(Value))
         /\ \A n \in DOMAIN heap : /\ heap[n] \in Seq(Value)
                                  /\ 1 \in DOMAIN heap[n]
                                  /\ heap[n][1] \in MayBeParent
<1>1. heap \in Seq(Seq(Value))
  BY DEF CallingConvention, FramesTypeOK, SharedTypeOK
<1>2. \A n \in DOMAIN heap : Len(heap[n]) > 0 /\ heap[n][1] \in MayBeParent
  BY DEF CallingConvention, NothingCapturesStack
<1>3. \A n \in DOMAIN heap : heap[n] \in Seq(Value)
  BY <1>1
<1> QED
  BY <1>1, <1>2, <1>3

(* The running activation has its context on its stack frame or a heap     *)
(* block of its own size.                                                  *)
LEMMA ContextFacts ==
  ASSUME CallingConvention, ~Entering
  PROVE  \/ /\ IsStackFunction(program, Frame.entry)
            /\ context_object = <<"stack", Frame.base>>
            /\ ContextEnd(Depth) = Frame.base + FrameSize(program, Frame.entry)
         \/ /\ ~IsStackFunction(program, Frame.entry)
            /\ context_object \in HeapContexts
            /\ Len(heap[context_object[2]]) = FrameSize(program, Frame.entry)
<1>1. Depth \in 1 .. Depth
  BY FrameFacts
<1>2. Entered(Depth) /\ OwnContext(Depth) = context_object
  BY <1>1 DEF Entered, OwnContext
<1> QED
  BY <1>1, <1>2 DEF CallingConvention, ContextsOwned, Frame, ContextEnd, StackWords

(* A heap context is a pointer to a block, never null or on the stack. *)
LEMMA HeapContextFacts ==
  ASSUME CallingConvention, NEW c \in HeapContexts
  PROVE  /\ c[2] \in DOMAIN heap
         /\ c = <<"heap", c[2]>>
         /\ ~OnStack(c)
         /\ c # nullptr
BY DEF HeapContexts, OnStack, nullptr, uvalue

(* The slots an instruction may read hold words. *)
LEMMA LocalsAreValues ==
  ASSUME CallingConvention, ~Entering,
         NEW s \in 0 .. FrameSize(program, Frame.entry) - 1
  PROVE  Local(s) \in Value
<1>1. value_stack \in [StackIndexes -> Value]
  BY DEF CallingConvention, FramesTypeOK, SharedTypeOK
<1>2. FrameSize(program, Frame.entry) \in Nat \ {0} /\ Frame.base \in Nat \ {0}
  BY FrameFacts DEF Frame
<1>3. CASE IsStackFunction(program, Frame.entry)
  <2>1. Local(s) = value_stack[Frame.base + s]
    BY <1>3, ContextFacts DEF Local, Slot, OnStack
  <2>2. Frame.base + s < ContextEnd(Depth)
    BY <1>2, <1>3, ContextFacts
  <2>3. Frame.base + s \in StackIndexes
    <3>1. Frame.base + s < stack_pointer /\ stack_pointer \in StackIndexes
      BY <1>2, <2>2, FrameFacts DEF StackIndexes
    <3> QED
      BY <1>2, <3>1, StackMaxAssumption DEF StackIndexes
  <2> QED
    BY <1>1, <2>1, <2>3
<1>4. CASE ~IsStackFunction(program, Frame.entry)
  <2>1. context_object \in HeapContexts
    BY <1>4, ContextFacts
  <2>2. Local(s) = heap[context_object[2]][s + 1]
    BY <2>1, HeapContextFacts DEF Local, Slot
  <2>3. heap[context_object[2]] \in Seq(Value)
    BY <2>1, HeapContextFacts, HeapFacts
  <2>4. s + 1 \in 1 .. Len(heap[context_object[2]])
    BY <1>2, <1>4, ContextFacts
  <2> QED
    BY <2>2, <2>3, <2>4
<1> QED
  BY <1>3, <1>4

-----------------------------------------------------------------------------
(* Steps that stay in their activation *)

(* What such a step may do to memory: nothing below its base, nothing to   *)
(* the parent of its context, nothing to the shape of the heap.            *)
LocalEffect ==
  /\ value_stack' \in [StackIndexes -> Value]
  /\ \A i \in StackIndexes : i < Frame.base => value_stack'[i] = value_stack[i]
  /\ IsStackFunction(program, Frame.entry) =>
       value_stack'[Frame.base] = value_stack[Frame.base]
  /\ heap' \in Seq(Seq(Value))
  /\ DOMAIN heap' = DOMAIN heap
  /\ \A n \in DOMAIN heap : Len(heap'[n]) = Len(heap[n]) /\ heap'[n][1] = heap[n][1]

(* A step that touches no memory has no effect on it. *)
LEMMA NoEffect ==
  ASSUME CallingConvention, UNCHANGED <<value_stack, heap>>
  PROVE  LocalEffect
<1>1. value_stack \in [StackIndexes -> Value] /\ heap \in Seq(Seq(Value))
  BY DEF CallingConvention, FramesTypeOK, SharedTypeOK
<1> QED
  BY <1>1 DEF LocalEffect

(* A store into any slot but the parent's of a heap context. *)
LEMMA HeapStores ==
  ASSUME CallingConvention, NEW c \in HeapContexts, NEW i \in Nat \ {0}, NEW v \in Value,
         i + 1 \in DOMAIN heap[c[2]], StoreSlot(c, i, v)
  PROVE  LocalEffect
<1>1. /\ heap' = [heap EXCEPT ![c[2]][i + 1] = v]
      /\ value_stack' = value_stack
  BY HeapContextFacts DEF StoreSlot
<1> DEFINE n == c[2]
           block == [heap[n] EXCEPT ![i + 1] = v]
<1>2. n \in DOMAIN heap /\ heap[n] \in Seq(Value)
  BY HeapContextFacts, HeapFacts
<1>3. /\ block \in Seq(Value)
      /\ Len(block) = Len(heap[n])
      /\ block[1] = heap[n][1]
  BY <1>2, HeapFacts
<1>4. heap' = [heap EXCEPT ![n] = block]
  BY <1>1
<1> HIDE DEF n, block
<1>5. /\ heap' \in Seq(Seq(Value))
      /\ DOMAIN heap' = DOMAIN heap
      /\ \A m \in DOMAIN heap : heap'[m] = IF m = n THEN block ELSE heap[m]
  BY <1>2, <1>3, <1>4, HeapFacts
<1>6. value_stack \in [StackIndexes -> Value]
  BY DEF CallingConvention, FramesTypeOK, SharedTypeOK
<1> QED
  BY <1>1, <1>3, <1>5, <1>6 DEF LocalEffect

(* A store into any slot but the parent's of the running context. *)
LEMMA DestinationStores ==
  ASSUME CallingConvention, ~Entering,
         NEW i \in 1 .. FrameSize(program, Frame.entry) - 1, NEW v \in Value,
         StoreSlot(context_object, i, v)
  PROVE  LocalEffect
<1>1. CASE IsStackFunction(program, Frame.entry)
  <2>1. /\ value_stack' = [value_stack EXCEPT ![Frame.base + i] = v]
        /\ heap' = heap
    BY <1>1, ContextFacts DEF StoreSlot, OnStack
  <2>2. Frame.base \in Nat /\ i \in Nat \ {0}
    BY FrameFacts DEF Frame
  <2>3. value_stack \in [StackIndexes -> Value]
    BY DEF CallingConvention, FramesTypeOK, SharedTypeOK
  <2>4. value_stack' \in [StackIndexes -> Value]
    BY <2>1, <2>3
  <2>5. \A j \in StackIndexes : j <= Frame.base => value_stack'[j] = value_stack[j]
    BY <2>1, <2>2, <2>3, StackMaxAssumption DEF StackIndexes
  <2>6. Frame.base \in StackIndexes
    <3>1. stack_pointer \in StackIndexes /\ Frame.base <= stack_pointer
      <4>1. FrameSize(program, Frame.entry) \in Nat
        BY FrameFacts DEF Frame
      <4> QED
        BY <1>1, <2>2, <4>1, ContextFacts, FrameFacts, StackMaxAssumption DEF StackIndexes
    <3> QED
      BY <2>2, <3>1, StackMaxAssumption DEF StackIndexes
  <2> QED
    BY <2>1, <2>2, <2>4, <2>5, <2>6, HeapFacts DEF LocalEffect, StackIndexes
<1>2. CASE ~IsStackFunction(program, Frame.entry)
  <2>1. /\ context_object \in HeapContexts
        /\ Len(heap[context_object[2]]) = FrameSize(program, Frame.entry)
    BY <1>2, ContextFacts
  <2>2. heap[context_object[2]] \in Seq(Value)
    BY <2>1, HeapContextFacts, HeapFacts
  <2>3. FrameSize(program, Frame.entry) \in Nat
    BY FrameFacts DEF Frame
  <2>4. i \in Nat \ {0} /\ i + 1 \in DOMAIN heap[context_object[2]]
    BY <2>1, <2>2, <2>3
  <2> QED
    BY <2>1, <2>4, HeapStores
<1> QED
  BY <1>1, <1>2

(* Types and the depth of the operand stack, in the form most proofs use. *)
LEMMA StateFacts ==
  ASSUME CallingConvention
  PROVE  /\ value_stack \in [StackIndexes -> Value]
         /\ stack_pointer \in StackIndexes
         /\ stack_pointer \in Nat
         /\ fn_refs \in Seq(FnRef)
         /\ \A r \in DOMAIN fn_refs : /\ fn_refs[r] \in FnRef
                                     /\ fn_refs[r].parent \in HeapContexts
         /\ output \in Seq(Value)
         /\ program.height[ip] \in Nat
         /\ ~Entering => stack_pointer = ContextEnd(Depth) + program.height[ip]
<1>1. /\ value_stack \in [StackIndexes -> Value]
      /\ stack_pointer \in StackIndexes
      /\ fn_refs \in Seq(FnRef)
      /\ output \in Seq(Value)
  BY DEF CallingConvention, FramesTypeOK, SharedTypeOK
<1>2. stack_pointer \in Nat
  BY <1>1, StackMaxAssumption DEF StackIndexes
<1>3. program.height[ip] \in Nat
  BY FrameFacts, AddressFacts
<1> QED
  BY <1>1, <1>2, <1>3
     DEF CallingConvention, NothingCapturesStack, RegistersMatchFrame

(* The instruction about to be executed. *)
LEMMA InstructionFacts ==
  ASSUME CallingConvention
  PROVE  LET i == program.code[ip] IN
         /\ i.op \in Opcode
         /\ i.op2 \in Nat
         /\ i.dest \in Nat
         /\ Entering <=> i.op \in FnEnters
         /\ WellFormedAt(program, ip)
         /\ IsInstruction(i)
         /\ program.entry[ip] = Frame.entry
<1>1. WellFormedAt(program, ip)
  BY FrameFacts, AddressFacts
<1>2. IsInstruction(program.code[ip])
  BY <1>1 DEF WellFormedAt
<1> QED
  BY <1>1, <1>2, FrameFacts, AddressFacts DEF Entering

(* The slots an instruction names. *)
LEMMA SlotFacts ==
  ASSUME CallingConvention, ~Entering
  PROVE  LET i == program.code[ip] IN
         /\ \A s \in SlotsRead(i) : s \in Nat /\ Local(s) \in Value
         /\ WritesDest(i.op) => i.dest \in 1 .. FrameSize(program, Frame.entry) - 1
<1> DEFINE i == program.code[ip]
<1>1. /\ WellFormedAt(program, ip)
      /\ program.entry[ip] = Frame.entry
      /\ FrameSize(program, Frame.entry) \in Nat
  BY InstructionFacts, FrameFacts DEF Frame
<1>2. SlotsRead(i) \subseteq 0 .. FrameSize(program, Frame.entry) - 1
  BY <1>1 DEF WellFormedAt
<1>3. WritesDest(i.op) => i.dest \in 1 .. FrameSize(program, Frame.entry) - 1
  BY <1>1 DEF WellFormedAt
<1>4. \A s \in SlotsRead(i) : s \in Nat
  BY <1>1, <1>2
<1> QED
  BY <1>2, <1>3, <1>4, LocalsAreValues

(* A function makes references to its own closures only. *)
ReferencesGrow ==
  \/ UNCHANGED fn_refs
  \/ /\ program.code[ip].op = "MOV_FNC"
     /\ fn_refs' = Append(fn_refs, [parent |-> context_object,
                                    entry |-> program.code[ip].op1])

(* A step inside an entered activation stays in the function, balances the *)
(* operands and has a local effect.                                        *)
LocalStep ==
  /\ ~Entering
  /\ LocalEffect
  /\ UNCHANGED <<program, frames, base_pointer, call_depth, context_object, status>>
  /\ ip' \in Addresses(program) \ EntriesOf(program)
  /\ program.entry[ip'] = Frame.entry
  /\ stack_pointer' \in StackIndexes
  /\ stack_pointer' = ContextEnd(Depth) + program.height[ip']
  /\ ReferencesGrow
  /\ output' \in Seq(Value)

(* A reference is only made by a function whose context is in the heap. *)
LEMMA ReferenceFacts ==
  ASSUME CallingConvention, ~Entering, ReferencesGrow
  PROVE  /\ fn_refs' \in Seq(FnRef)
         /\ \A r \in DOMAIN fn_refs' : fn_refs'[r].parent \in HeapContexts
<1> DEFINE i == program.code[ip]
           ref == [parent |-> context_object, entry |-> i.op1]
<1>1. CASE UNCHANGED fn_refs
  BY <1>1, StateFacts
<1>2. CASE i.op = "MOV_FNC" /\ fn_refs' = Append(fn_refs, ref)
  <2>1. /\ ~IsStackFunction(program, Frame.entry)
        /\ i.op1 \in EntriesOf(program) \ {0}
    BY <1>2, InstructionFacts DEF WellFormedAt
  <2>2. context_object \in HeapContexts
    BY <2>1, ContextFacts
  <2>3. context_object \in Context
    BY DEF CallingConvention, FramesTypeOK, SharedTypeOK
  <2>4. ref \in FnRef /\ ref.parent \in HeapContexts
    BY <2>1, <2>2, <2>3 DEF FnRef
  <2> HIDE DEF ref
  <2>5. fn_refs' \in Seq(FnRef)
    BY <1>2, <2>4, StateFacts
  <2>6. \A r \in DOMAIN fn_refs' : fn_refs'[r] = ref \/ (r \in DOMAIN fn_refs /\ fn_refs'[r] = fn_refs[r])
    BY <1>2, <2>4, StateFacts, AppendIndexes
  <2> QED
    BY <2>4, <2>5, <2>6, StateFacts
<1> QED
  BY <1>1, <1>2 DEF ReferencesGrow

(* Such a step preserves the convention. *)
LEMMA LocalSteps ==
  ASSUME CallingConvention, LocalStep
  PROVE  CallingConvention'
<1> USE DEF LocalStep
<1>1. /\ Depth' = Depth
      /\ Frame' = Frame
      /\ \A k : ContextEnd(k)' = ContextEnd(k)
      /\ \A k : ArgumentsStart(k)' = ArgumentsStart(k)
      /\ \A k : OwnContext(k)' = OwnContext(k)
  BY DEF Depth, Frame, ContextEnd, ArgumentsStart, OwnContext
<1>2. HeapContexts' = HeapContexts /\ MayBeParent' = MayBeParent
  BY DEF LocalEffect, HeapContexts, MayBeParent
<1>3. ~Entering'
  <2>1. program \in Programs
    BY FrameFacts
  <2> QED
    BY <2>1, AddressFacts DEF Entering
<1>4. \A k \in 1 .. Depth : Entered(k) /\ Entered(k)'
  BY <1>1, <1>3 DEF Entered
<1>5. \A k \in 1 .. Depth : k < Depth => value_stack'[frames[k].base] = value_stack[frames[k].base]
  <2>1. TAKE k \in 1 .. Depth
  <2>2. frames[k].base \in Nat
    BY FrameFacts
  <2>3. HAVE k < Depth
  <2>4. frames[k].base \in 0 .. Frame.base /\ frames[k].base < Frame.base
    BY <2>2, <2>3, BelowBase
  <2> QED
    BY <2>4, BelowBase DEF LocalEffect
<1>6. FramesTypeOK'
  <2>1. SharedTypeOK'
    BY <1>1, ReferenceFacts DEF CallingConvention, FramesTypeOK, SharedTypeOK, LocalEffect, FnRef
  <2> QED
    BY <1>1, <2>1 DEF CallingConvention, FramesTypeOK
<1>7. RootStays'
  BY DEF CallingConvention, RootStays, RootFrame
<1>8. RegistersMatchFrame'
  BY <1>1, <1>3 DEF CallingConvention, RegistersMatchFrame
<1>9. LinkageKept'
  <2>1. value_stack'[0] = nullptr
    <3>1. Depth \in 1 .. Depth
      BY FrameFacts
    <3>2. 0 \in StackIndexes /\ 0 < Frame.base
      BY <3>1, BelowBase
    <3> QED
      BY <3>2 DEF LocalEffect, CallingConvention, LinkageKept
  <2>2. ASSUME NEW k \in 2 .. Depth
        PROVE  /\ \A j \in 1 .. Len(frames[k].linkage) :
                    value_stack'[frames[k].base - j] = value_stack[frames[k].base - j]
               /\ \A n \in 1 .. Len(frames[k].args) :
                    value_stack'[ArgumentsStart(k) + n - 1] = value_stack[ArgumentsStart(k) + n - 1]
    <3>1. k \in 1 .. Depth /\ k > 1
      BY FrameFacts
    <3>2. /\ \A i \in 0 .. Frame.base : i \in StackIndexes
          /\ \A j \in 1 .. Len(frames[k].linkage) : frames[k].base - j \in 0 .. Frame.base - 1
          /\ \A n \in 1 .. Len(frames[k].args) :
               ArgumentsStart(k) + n - 1 \in 0 .. Frame.base - 1
          /\ Frame.base \in Nat
      BY <3>1, BelowBase
    <3>3. \A i \in 0 .. Frame.base - 1 : value_stack'[i] = value_stack[i]
      BY <3>2 DEF LocalEffect
    <3> QED
      BY <3>2, <3>3
  <2>3. ASSUME NEW k \in 2 .. Depth
        PROVE  LET words == Len(frames[k].linkage) IN
               /\ words > 2
               /\ \A j \in 2 .. words :
                    value_stack'[frames[k].base - j] = frames[k].linkage[words - j + 1]
               /\ value_stack'[frames[k].base - 1] = uvalue(frames[k - 1].base)
               /\ \A n \in 1 .. Len(frames[k].args) :
                    value_stack'[ArgumentsStart(k) + n - 1] = frames[k].args[n]
    <3> DEFINE words == Len(frames[k].linkage)
    <3>1. Entered(k)
      BY <1>4
    <3>2. words \in Nat /\ words > 2
      BY FrameFacts
    <3>3. 1 \in 1 .. words /\ \A j \in 2 .. words : j \in 1 .. words
      BY <3>2
    <3>4. /\ \A j \in 2 .. words : value_stack[frames[k].base - j] = frames[k].linkage[words - j + 1]
          /\ value_stack[frames[k].base - 1] = uvalue(frames[k - 1].base)
          /\ \A n \in 1 .. Len(frames[k].args) :
               value_stack[ArgumentsStart(k) + n - 1] = frames[k].args[n]
      BY <3>1 DEF CallingConvention, LinkageKept
    <3> QED
      BY <2>2, <3>2, <3>3, <3>4
  <2>4. \A k \in 2 .. Depth : Entered(k)'
    BY <1>4, FrameFacts
  <2> QED
    BY <1>1, <2>1, <2>3, <2>4 DEF LinkageKept
<1>10. ResumesInCaller'
  BY <1>1 DEF CallingConvention, ResumesInCaller
<1>11. FramesDisjoint'
  BY <1>1 DEF CallingConvention, FramesDisjoint
<1>12. ContextsOwned'
  <2>1. ASSUME NEW k \in 1 .. Depth, OwnContext(k) \in HeapContexts
        PROVE  Len(heap'[OwnContext(k)[2]]) = Len(heap[OwnContext(k)[2]])
    BY <2>1, HeapContextFacts DEF LocalEffect
  <2> QED
    BY <1>1, <1>2, <1>4, <2>1 DEF CallingConvention, ContextsOwned
<1>13. NothingCapturesStack'
  <2>1. \A n \in DOMAIN heap' : Len(heap'[n]) > 0 /\ heap'[n][1] \in MayBeParent'
    BY <1>2 DEF LocalEffect, CallingConvention, NothingCapturesStack
  <2>2. ASSUME NEW k \in 1 .. Depth
        PROVE  /\ frames[k].parent \in MayBeParent
               /\ IsStackFunction(program, frames[k].entry) =>
                    value_stack'[frames[k].base] \in MayBeParent
    <3>1. /\ frames[k].parent \in MayBeParent
          /\ IsStackFunction(program, frames[k].entry) =>
               value_stack[frames[k].base] \in MayBeParent
      BY <1>4 DEF CallingConvention, NothingCapturesStack
    <3>2. k = Depth \/ k < Depth
      BY FrameFacts
    <3> QED
      BY <1>5, <3>1, <3>2 DEF LocalEffect, Frame
  <2>3. \A r \in DOMAIN fn_refs' : fn_refs'[r].parent \in HeapContexts'
    BY <1>2, ReferenceFacts
  <2> QED
    BY <1>1, <1>2, <2>1, <2>2, <2>3 DEF NothingCapturesStack
<1> QED
  BY <1>6, <1>7, <1>8, <1>9, <1>10, <1>11, <1>12, <1>13 DEF CallingConvention

-----------------------------------------------------------------------------
(* The instructions that are such steps *)

(* An instruction that computes a word into the running context. *)
LEMMA ComputingSteps ==
  ASSUME CallingConvention, ~Entering,
         program.code[ip].op \notin {"JMP", "RET", "CALL"},
         WritesDest(program.code[ip].op),
         NEW v \in Value, StoreSlot(context_object, program.code[ip].dest, v),
         ip' = ip + 1,
         UNCHANGED <<program, frames, base_pointer, call_depth, context_object, status>>,
         stack_pointer' \in StackIndexes,
         stack_pointer' = ContextEnd(Depth) + HeightAfter(program.code[ip], program.height[ip]),
         ReferencesGrow,
         output' \in Seq(Value)
  PROVE  LocalStep
<1> DEFINE i == program.code[ip]
<1>1. i.dest \in 1 .. FrameSize(program, Frame.entry) - 1
  BY SlotFacts
<1>2. LocalEffect
  BY <1>1, DestinationStores
<1>3. /\ ip' \in Addresses(program) \ EntriesOf(program)
      /\ program.entry[ip'] = Frame.entry
      /\ program.height[ip'] = HeightAfter(i, program.height[ip])
  BY FrameFacts, SuccessorFacts
<1> QED
  BY <1>2, <1>3 DEF LocalStep

(* The same with the registers, the references and the output unchanged. *)
LEMMA PlainComputingSteps ==
  ASSUME CallingConvention, ~Entering,
         program.code[ip].op \notin {"JMP", "RET", "CALL", "CALL_NATIVE", "POP", "PUSH"},
         WritesDest(program.code[ip].op),
         NEW v \in Value, StoreSlot(context_object, program.code[ip].dest, v),
         ip' = ip + 1,
         UNCHANGED <<program, frames, base_pointer, call_depth, context_object, status,
                     stack_pointer, fn_refs, output>>
  PROVE  LocalStep
<1>1. HeightAfter(program.code[ip], program.height[ip]) = program.height[ip]
  BY DEF HeightAfter
<1>2. /\ stack_pointer' \in StackIndexes
      /\ stack_pointer' = ContextEnd(Depth) + HeightAfter(program.code[ip], program.height[ip])
      /\ output' \in Seq(Value)
  BY <1>1, StateFacts
<1> QED
  BY <1>2, ComputingSteps DEF ReferencesGrow

(* MOV_FNC makes a reference and stores it. *)
LEMMA MoveFunctionSteps ==
  ASSUME CallingConvention, program.code[ip].op = "MOV_FNC",
         fn_refs' = Append(fn_refs, [parent |-> context_object,
                                     entry |-> program.code[ip].op1]),
         StoreSlot(context_object, program.code[ip].dest, <<"fnref", Len(fn_refs) + 1>>),
         ip' = ip + 1,
         UNCHANGED <<program, frames, base_pointer, call_depth, context_object, status,
                     stack_pointer, output>>
  PROVE  LocalStep
<1> DEFINE v == <<"fnref", Len(fn_refs) + 1>>
<1>1. ~Entering /\ WritesDest("MOV_FNC")
  BY InstructionFacts DEF FnEnters, WritesDest
<1>2. v \in Value
  BY StateFacts DEF Value, Tag
<1>3. /\ stack_pointer' \in StackIndexes
      /\ stack_pointer' = ContextEnd(Depth) + HeightAfter(program.code[ip], program.height[ip])
      /\ output' \in Seq(Value)
  BY <1>1, StateFacts DEF HeightAfter
<1> HIDE DEF v
<1>4. StoreSlot(context_object, program.code[ip].dest, v)
  BY DEF v
<1> QED
  BY <1>1, <1>2, <1>3, <1>4, ComputingSteps DEF ReferencesGrow

(* The constants of a program are words. *)
LEMMA ImmediatesAreValues ==
  ASSUME NEW i, IsInstruction(i), i.op \in Immediates
  PROVE  ImmediateValue(i.op, i.op1) \in Value
<1>1. i.op = "MOV_STRING" => svalue(i.op1) \in Value
  BY ConstructorsAreValues DEF IsInstruction
<1>2. i.op \in {"MOV_INT", "MOV_BOOLEAN", "MOV_DECIMAL"} => i.op1 \in Int
  BY DEF IsInstruction
<1>3. i.op = "MOV_BOOLEAN" => <<"bool", i.op1>> \in Value
  BY <1>2 DEF Value, Tag
<1>4. i.op = "MOV_INT" => ivalue(i.op1) \in Value
  BY <1>2, ConstructorsAreValues
<1>5. i.op = "MOV_DECIMAL" => dvalue(i.op1) \in Value
  BY <1>2, ConstructorsAreValues
<1>6. nvalue \in Value
  BY ConstructorsAreValues
<1> QED
  BY <1>1, <1>3, <1>4, <1>5, <1>6 DEF ImmediateValue, Immediates

(* The words native_print and POP take are operands. *)
LEMMA TopFacts ==
  ASSUME CallingConvention, program.code[ip].op \in {"POP", "CALL_NATIVE"}
  PROVE  /\ ~Entering
         /\ Top \in Value
         /\ Printed(Top) \in Value
         /\ stack_pointer - 1 \in StackIndexes
         /\ stack_pointer - 1 = ContextEnd(Depth) + HeightAfter(program.code[ip], program.height[ip])
<1>1. ~Entering
  BY InstructionFacts DEF FnEnters
<1>2. program.height[ip] > 0
  BY InstructionFacts DEF WellFormedAt
<1>3. HeightAfter(program.code[ip], program.height[ip]) = program.height[ip] - 1
  BY DEF HeightAfter
<1>4. ContextEnd(Depth) \in Nat /\ program.height[ip] \in Nat
      /\ stack_pointer = ContextEnd(Depth) + program.height[ip]
  BY <1>1, FrameFacts, StateFacts
<1>5. stack_pointer - 1 \in StackIndexes
  BY <1>2, <1>4, StateFacts, StackMaxAssumption DEF StackIndexes
<1>6. Top \in Value
  BY <1>5, StateFacts DEF Top
<1>7. Printed(Top) \in Value
  <2>1. Printed(Top) \in {Top, <<"bool", 0>>, <<"bool", 1>>, nvalue, <<"fnref", 0>>, <<"word", 0>>}
    BY DEF Printed
  <2>2. {<<"bool", 0>>, <<"bool", 1>>, <<"fnref", 0>>, <<"word", 0>>} \subseteq Value
    BY DEF Value, Tag
  <2> QED
    BY <1>6, <2>1, <2>2, ConstructorsAreValues
<1> QED
  BY <1>1, <1>3, <1>4, <1>5, <1>6, <1>7

(* CALL_NATIVE takes its argument from the operands and prints it. *)
LEMMA CallNativeSteps ==
  ASSUME CallingConvention, program.code[ip].op = "CALL_NATIVE",
         output' = Append(output, Printed(Top)),
         stack_pointer' = stack_pointer - 1,
         StoreSlot(context_object, program.code[ip].dest, ivalue(0)),
         ip' = ip + 1,
         UNCHANGED <<program, frames, base_pointer, call_depth, context_object, status, fn_refs>>
  PROVE  LocalStep
<1>1. WritesDest("CALL_NATIVE") /\ ivalue(0) \in Value
  BY ConstructorsAreValues DEF WritesDest
<1>2. output' \in Seq(Value)
  BY TopFacts, StateFacts
<1> QED
  BY <1>1, <1>2, TopFacts, ComputingSteps DEF ReferencesGrow

(* POP stores the operand it takes. *)
LEMMA PopSteps ==
  ASSUME CallingConvention, program.code[ip].op = "POP",
         stack_pointer' = stack_pointer - 1,
         StoreSlot(context_object, program.code[ip].dest, Top),
         ip' = ip + 1,
         UNCHANGED <<program, frames, base_pointer, call_depth, context_object, status,
                     fn_refs, output>>
  PROVE  LocalStep
<1>1. WritesDest("POP") /\ output' \in Seq(Value)
  BY StateFacts DEF WritesDest
<1> QED
  BY <1>1, TopFacts, ComputingSteps DEF ReferencesGrow

(* PUSH: operands lie above the context. *)
LEMMA PushSteps ==
  ASSUME CallingConvention, program.code[ip].op = "PUSH",
         NEW v \in Value, PushWord(v),
         stack_pointer <= STACK_MAX,
         ip' = ip + 1,
         UNCHANGED <<program, frames, status>>
  PROVE  LocalStep
<1>1. ~Entering
  BY InstructionFacts DEF FnEnters
<1>2. /\ \A j \in StackIndexes : value_stack'[j] = IF j = stack_pointer THEN v ELSE value_stack[j]
      /\ value_stack' \in [StackIndexes -> Value]
  <2>1. value_stack' = [j \in StackIndexes |-> IF j \in stack_pointer .. stack_pointer
                                              THEN <<v>>[j - stack_pointer + 1] ELSE value_stack[j]]
    BY StateFacts DEF PushWord, Pushed
  <2>2. \A j \in StackIndexes : value_stack'[j] = IF j = stack_pointer THEN v ELSE value_stack[j]
    BY <2>1, StateFacts, StackMaxAssumption DEF StackIndexes
  <2>3. \A j \in StackIndexes : value_stack'[j] \in Value
    BY <2>2, StateFacts
  <2> QED
    BY <2>1, <2>2, <2>3
<1>3. /\ stack_pointer' = stack_pointer + 1
      /\ UNCHANGED <<base_pointer, call_depth, context_object, heap, fn_refs, output>>
  BY DEF PushWord
<1>4. LocalEffect
  <2>1. Frame.base \in Nat /\ Frame.base <= stack_pointer /\ Frame.base \in StackIndexes
    <3>1. Depth \in 1 .. Depth
      BY FrameFacts
    <3> QED
      BY <3>1, BelowBase
  <2>2. IsStackFunction(program, Frame.entry) => Frame.base < stack_pointer
    <3>1. FrameSize(program, Frame.entry) \in Nat \ {0} /\ ContextEnd(Depth) \in Nat
      BY FrameFacts DEF Frame
    <3> QED
      BY <1>1, <2>1, <3>1, FrameFacts, ContextFacts, StateFacts DEF IsStackFunction, HeapContexts
  <2>3. \A j \in StackIndexes : j < Frame.base => value_stack'[j] = value_stack[j]
    BY <1>2, <2>1, StateFacts, StackMaxAssumption DEF StackIndexes
  <2>4. IsStackFunction(program, Frame.entry) => value_stack'[Frame.base] = value_stack[Frame.base]
    BY <1>2, <2>1, <2>2, StateFacts
  <2> QED
    BY <1>2, <1>3, <2>3, <2>4, HeapFacts DEF LocalEffect
<1>5. /\ ip' \in Addresses(program) \ EntriesOf(program)
      /\ program.entry[ip'] = Frame.entry
      /\ program.height[ip'] = program.height[ip] + 1
  <2>1. HeightAfter(program.code[ip], program.height[ip]) = program.height[ip] + 1
    BY DEF HeightAfter
  <2> QED
    BY <2>1, FrameFacts, SuccessorFacts
<1>6. stack_pointer' \in StackIndexes
  BY <1>3, StateFacts, StackMaxAssumption DEF StackIndexes
<1>7. stack_pointer' = ContextEnd(Depth) + program.height[ip']
  <2>1. Depth \in 1 .. Depth /\ ContextEnd(Depth) \in Nat
    BY FrameFacts
  <2>2. program.height[ip] \in Nat /\ stack_pointer = ContextEnd(Depth) + program.height[ip]
    BY <1>1, StateFacts
  <2>3. PICK end, height : end = ContextEnd(Depth) /\ height = program.height[ip]
    OBVIOUS
  <2>4. (end + height) + 1 = end + (height + 1)
    BY <2>1, <2>2, <2>3
  <2> QED
    BY <1>3, <1>5, <2>2, <2>3, <2>4
<1> QED
  BY <1>1, <1>3, <1>4, <1>5, <1>6, <1>7, StateFacts DEF LocalStep, ReferencesGrow

(* Control moves inside the function and memory stays. *)
LEMMA ControlSteps ==
  ASSUME CallingConvention, UNCHANGED <<program, frames, status, machine>>,
         \/ program.code[ip].op \in Jumps /\ ip' = program.code[ip].dest
         \/ program.code[ip].op \in Branches \cup ObjectOpcodes /\ ip' = ip + 1
  PROVE  LocalStep
<1> DEFINE i == program.code[ip]
<1>1. UNCHANGED <<value_stack, stack_pointer, base_pointer, call_depth, context_object,
                  heap, fn_refs, output>>
  BY DEF machine
<1>2. LocalEffect
  BY <1>1, NoEffect
<1>3. ~Entering
  BY InstructionFacts DEF FnEnters, Jumps, Branches, ObjectOpcodes
<1>4. /\ ip' \in Addresses(program) \ EntriesOf(program)
      /\ program.entry[ip'] = Frame.entry
      /\ program.height[ip'] = program.height[ip]
  <2>1. CASE i.op \in Jumps /\ ip' = i.dest
    BY <2>1, FrameFacts, JumpFacts
  <2>2. CASE i.op \in Branches \cup ObjectOpcodes /\ ip' = ip + 1
    <3>1. i.op \notin {"JMP", "RET"} /\ HeightAfter(i, program.height[ip]) = program.height[ip]
      BY <2>2 DEF HeightAfter, Branches, ObjectOpcodes
    <3> QED
      BY <2>2, <3>1, FrameFacts, SuccessorFacts
  <2> QED
    BY <2>1, <2>2
<1> QED
  BY <1>1, <1>2, <1>3, <1>4, StateFacts DEF LocalStep, ReferencesGrow

(* A walk along the parents that ends in a context ends in the heap. *)
LEMMA AncestorFacts ==
  ASSUME CallingConvention, ~Entering, NEW depth, Ancestor(depth) \in Contexts
  PROVE  Ancestor(depth) \in HeapContexts
<1>1. PICK c : Ancestor(depth) = ParentOf(c)
  BY Zenon DEF Ancestor
<1>2. c \in Contexts
  BY <1>1 DEF ParentOf
<1>3. Ancestor(depth) = Slot(c, 0)
  BY <1>1, <1>2 DEF ParentOf
<1>4. nullptr \notin Contexts
  <2>1. nullptr \notin HeapContexts
    BY HeapContextFacts
  <2>2. context_object # nullptr
    BY <2>1, ContextFacts DEF nullptr, uvalue
  <2> QED
    BY <2>1, <2>2 DEF Contexts
<1>5. Slot(c, 0) \in MayBeParent
  <2>1. CASE c \in HeapContexts
    BY <2>1, HeapContextFacts, HeapFacts DEF Slot
  <2>2. CASE c \notin HeapContexts
    <3>1. c = context_object
      BY <1>2, <2>2 DEF Contexts
    <3>2. IsStackFunction(program, Frame.entry) /\ c = <<"stack", Frame.base>>
      BY <2>2, <3>1, ContextFacts
    <3>3. value_stack[Frame.base] \in MayBeParent
      <4>1. Depth \in 1 .. Depth /\ Entered(Depth)
        BY FrameFacts DEF Entered
      <4> QED
        BY <3>2, <4>1 DEF CallingConvention, NothingCapturesStack, Frame
    <3>4. Slot(c, 0) = value_stack[Frame.base + 0]
      BY <3>2 DEF Slot, OnStack
    <3>5. Frame.base \in Nat
      BY FrameFacts DEF Frame
    <3> QED
      BY <3>3, <3>4, <3>5
  <2> QED
    BY <2>1, <2>2
<1> QED
  BY <1>3, <1>4, <1>5 DEF MayBeParent

(* A slot found on such a walk holds a word. *)
LEMMA AncestorSlots ==
  ASSUME CallingConvention, ~Entering, NEW depth, Ancestor(depth) \in Contexts,
         NEW n, HasSlot(Ancestor(depth), n)
  PROVE  Slot(Ancestor(depth), n) \in Value
<1>1. PICK c : c = Ancestor(depth)
  OBVIOUS
<1>2. c \in HeapContexts
  BY <1>1, AncestorFacts
<1>3. HasSlot(c, n)
  BY <1>1
<1>4. /\ Slot(c, n) = heap[c[2]][n + 1]
      /\ n + 1 \in DOMAIN heap[c[2]]
      /\ heap[c[2]] \in Seq(Value)
  BY <1>2, <1>3, HeapContextFacts, HeapFacts DEF Slot, HasSlot
<1>5. Slot(c, n) \in Value
  BY <1>4
<1> QED
  BY <1>1, <1>5

(* SET_IN_PARENT changes a variable of an enclosing function. *)
LEMMA SetInParentSteps ==
  ASSUME CallingConvention, program.code[ip].op = "SET_IN_PARENT",
         NEW depth, Ancestor(depth) \in Contexts,
         NEW n \in Nat \ {0}, HasSlot(Ancestor(depth), n),
         NEW v \in Value, StoreSlot(Ancestor(depth), n, v),
         ip' = ip + 1,
         UNCHANGED <<program, frames, status, stack_pointer, base_pointer, call_depth,
                     context_object, fn_refs, output>>
  PROVE  LocalStep
<1>1. ~Entering
  BY InstructionFacts DEF FnEnters
<1>2. PICK c : c = Ancestor(depth)
  OBVIOUS
<1>3. c \in HeapContexts /\ HasSlot(c, n) /\ StoreSlot(c, n, v)
  BY <1>1, <1>2, AncestorFacts
<1>4. n + 1 \in DOMAIN heap[c[2]]
  BY <1>3, HeapContextFacts DEF HasSlot
<1>5. LocalEffect
  BY <1>3, <1>4, HeapStores
<1>6. /\ ip' \in Addresses(program) \ EntriesOf(program)
      /\ program.entry[ip'] = Frame.entry
      /\ program.height[ip'] = program.height[ip]
  BY FrameFacts, SuccessorFacts DEF HeightAfter
<1> QED
  BY <1>1, <1>5, <1>6, StateFacts DEF LocalStep, ReferencesGrow

-----------------------------------------------------------------------------
(* The process ends, or nothing happens any more *)

StopStep ==
  /\ UNCHANGED <<program, ip, value_stack, stack_pointer, base_pointer,
                 context_object, heap, fn_refs, output, frames>>
  /\ call_depth' \in Nat
  /\ status' \in {"running", "returned", "error", "undefined"}
  /\ status' = "running" => status = "running" /\ call_depth' = call_depth

(* Such a step leaves everything the convention speaks of. *)
LEMMA StopSteps ==
  ASSUME CallingConvention, StopStep
  PROVE  CallingConvention'
<1> USE DEF StopStep
<1>1. /\ Depth' = Depth
      /\ Frame' = Frame
      /\ Entering' = Entering
      /\ \A k : ContextEnd(k)' = ContextEnd(k)
      /\ \A k : ArgumentsStart(k)' = ArgumentsStart(k)
      /\ \A k : OwnContext(k)' = OwnContext(k)
      /\ \A k : Entered(k)' = Entered(k)
      /\ HeapContexts' = HeapContexts
      /\ MayBeParent' = MayBeParent
  BY DEF Depth, Frame, Entering, ContextEnd, ArgumentsStart, OwnContext, Entered,
         HeapContexts, MayBeParent
<1>2. FramesTypeOK'
  BY <1>1 DEF CallingConvention, FramesTypeOK, SharedTypeOK, FnRef
<1>3. RootStays'
  BY DEF CallingConvention, RootStays
<1>4. RegistersMatchFrame'
  BY <1>1 DEF CallingConvention, RegistersMatchFrame
<1>5. LinkageKept'
  BY <1>1 DEF CallingConvention, LinkageKept
<1>6. ResumesInCaller'
  BY <1>1 DEF CallingConvention, ResumesInCaller
<1>7. FramesDisjoint'
  BY <1>1 DEF CallingConvention, FramesDisjoint
<1>8. ContextsOwned'
  BY <1>1 DEF CallingConvention, ContextsOwned
<1>9. NothingCapturesStack'
  BY <1>1 DEF CallingConvention, NothingCapturesStack
<1> QED
  BY <1>2, <1>3, <1>4, <1>5, <1>6, <1>7, <1>8, <1>9 DEF CallingConvention

-----------------------------------------------------------------------------
(* Entering a function *)

(* Activations follow one another upwards, the linkage between them. *)
LEMMA FrameOrder ==
  ASSUME CallingConvention, NEW j \in 1 .. Depth, NEW k \in 1 .. Depth, j < k
  PROVE  /\ frames[j].base \in Nat \ {0}
         /\ frames[k].base \in Nat \ {0}
         /\ frames[j].base <= ContextEnd(j)
         /\ ContextEnd(j) \in Nat
         /\ ContextEnd(j) <= ArgumentsStart(k)
         /\ ArgumentsStart(k) \in Nat
         /\ ArgumentsStart(k) + Len(frames[k].args) = frames[k].base - Len(frames[k].linkage)
         /\ Len(frames[k].args) \in Nat
         /\ Len(frames[k].linkage) \in Nat
         /\ Len(frames[k].linkage) > 2
         /\ frames[j].base < frames[k].base - 2
<1>1. /\ Depth \in Nat
      /\ frames[j].base \in Nat \ {0}
      /\ frames[k].base \in Nat \ {0}
      /\ StackWords(program, frames[j].entry) \in Nat
      /\ ContextEnd(j) \in Nat
      /\ ArgumentsStart(k) \in Int
      /\ Len(frames[k].args) \in Nat
      /\ Len(frames[k].linkage) \in Nat
      /\ k > 1
      /\ Len(frames[k].linkage) > 2
  BY FrameFacts
<1>2. frames[j].base <= ContextEnd(j)
  BY <1>1 DEF ContextEnd
<1>3. ContextEnd(j) <= ArgumentsStart(k)
  <2>1. FramesDisjoint
    BY DEF CallingConvention
  <2> QED
    BY <2>1 DEF FramesDisjoint
<1>4. ArgumentsStart(k) + Len(frames[k].args) = frames[k].base - Len(frames[k].linkage)
  BY <1>1, ArgumentsBelowBase
<1>5. ArgumentsStart(k) \in Nat
  BY <1>1, <1>3
<1>6. frames[j].base < frames[k].base - 2
  <2> DEFINE start == ArgumentsStart(k)
             end == ContextEnd(j)
             lower == frames[j].base
             upper == frames[k].base
             size == Len(frames[k].args)
             words == Len(frames[k].linkage)
  <2>1. /\ start \in Int /\ end \in Nat /\ lower \in Nat /\ upper \in Nat /\ size \in Nat
        /\ words \in Nat /\ words > 2
        /\ lower <= end
        /\ end <= start
        /\ start + size = upper - words
    BY <1>1, <1>2, <1>3, <1>4
  <2> HIDE DEF start, end, lower, upper, size, words
  <2>2. lower < upper - 2
    BY <2>1
  <2> QED
    BY <2>2 DEF lower, upper
<1> QED
  BY <1>1, <1>2, <1>3, <1>4, <1>5, <1>6

(* What FN_ENTER finds: the word on top of the stack is the parent that    *)
(* the function reference captured.                                        *)
LEMMA EnteringFacts ==
  ASSUME CallingConvention, Entering
  PROVE  /\ Depth \in 1 .. Depth
         /\ stack_pointer = Frame.base
         /\ stack_pointer \in StackIndexes
         /\ stack_pointer - 1 \in StackIndexes
         /\ stack_pointer \in Nat \ {0}
         /\ base_pointer \in StackIndexes
         /\ base_pointer = IF Depth = 1 THEN 0 ELSE frames[Depth - 1].base
         /\ Top = Frame.parent
         /\ Top \in MayBeParent
         /\ Top \in Value
         /\ program.height[ip] = 0
         /\ program.code[ip].op1 = FrameSize(program, Frame.entry)
         /\ FrameSize(program, Frame.entry) \in Nat \ {0}
<1>1. /\ Depth \in Nat \ {0}
      /\ Depth \in 1 .. Depth
      /\ Frame.base \in Nat \ {0}
      /\ stack_pointer \in StackIndexes
      /\ program \in Programs
      /\ ip \in EntriesOf(program)
      /\ Frame.entry = program.entry[ip]
  BY FrameFacts DEF Frame
<1>2. /\ stack_pointer = Frame.base
      /\ base_pointer = IF Depth = 1 THEN 0 ELSE frames[Depth - 1].base
  BY DEF CallingConvention, RegistersMatchFrame
<1>3. stack_pointer - 1 \in StackIndexes
  BY <1>1, <1>2, StackMaxAssumption DEF StackIndexes
<1>4. base_pointer \in StackIndexes
  BY DEF CallingConvention, FramesTypeOK, SharedTypeOK
<1>5. Top = Frame.parent
  <2>1. CASE Depth = 1
    <3>1. Frame = RootFrame
      BY <2>1 DEF CallingConvention, RootStays, Frame
    <3>2. stack_pointer - 1 = 0 /\ Frame.parent = nullptr
      BY <1>2, <3>1 DEF RootFrame
    <3> QED
      BY <3>2 DEF CallingConvention, LinkageKept, Top
  <2>2. CASE Depth # 1
    <3>1. Depth \in 2 .. Depth /\ ~Entered(Depth)
      BY <1>1, <2>2 DEF Entered
    <3>2. value_stack[Frame.base - 1] = Frame.parent
      BY <3>1 DEF CallingConvention, LinkageKept, Frame
    <3> QED
      BY <1>2, <3>2 DEF Top
  <2> QED
    BY <2>1, <2>2
<1>6. Frame.parent \in MayBeParent
  BY <1>1 DEF CallingConvention, NothingCapturesStack, Frame
<1>7. Top \in Value
  BY <1>3, StateFacts DEF Top
<1>8. /\ Frame.entry = ip
      /\ program.height[ip] = 0
      /\ program.code[ip].op1 = FrameSize(program, Frame.entry)
      /\ FrameSize(program, Frame.entry) \in Nat \ {0}
  BY <1>1, EntryFacts
<1> QED
  BY <1>1, <1>2, <1>3, <1>4, <1>5, <1>6, <1>7, <1>8

(* The linkage and the arguments of an activation are below its base.      *)
LEMMA LinkageBelow ==
  ASSUME CallingConvention, NEW k \in 2 .. Depth,
         \A i \in 0 .. frames[k].base - 2 : value_stack'[i] = value_stack[i]
  PROVE  LET words == Len(frames[k].linkage) IN
         /\ words > 2
         /\ \A j \in 2 .. words :
              value_stack'[frames[k].base - j] = frames[k].linkage[words - j + 1]
         /\ \A n \in 1 .. Len(frames[k].args) :
              value_stack'[ArgumentsStart(k) + n - 1] = frames[k].args[n]
<1>1. k - 1 \in 1 .. Depth /\ k \in 1 .. Depth /\ k - 1 < k
  BY FrameFacts
<1> DEFINE start == ArgumentsStart(k)
           size == Len(frames[k].args)
           base == frames[k].base
           words == Len(frames[k].linkage)
<1>2. /\ start \in Nat /\ size \in Nat /\ base \in Nat /\ words \in Nat /\ words > 2
      /\ start + size = base - words
  BY <1>1, FrameOrder
<1>3. /\ \A j \in 2 .. words : value_stack[base - j] = frames[k].linkage[words - j + 1]
      /\ \A n \in 1 .. size : value_stack[start + n - 1] = frames[k].args[n]
  BY DEF CallingConvention, LinkageKept
<1>4. \A i \in 0 .. base - 2 : value_stack'[i] = value_stack[i]
  OBVIOUS
<1> HIDE DEF start, size, base, words
<1>5. \A j \in 2 .. words : base - j \in 0 .. base - 2
  BY <1>2
<1>6. \A n \in 1 .. size : start + n - 1 \in 0 .. base - 2
  BY <1>2
<1>7. /\ \A j \in 2 .. words : value_stack'[base - j] = frames[k].linkage[words - j + 1]
      /\ \A n \in 1 .. size : value_stack'[start + n - 1] = frames[k].args[n]
  BY <1>3, <1>4, <1>5, <1>6
<1> QED
  BY <1>2, <1>7 DEF start, size, base, words

(* What the two forms of FN_ENTER have in common. *)
LEMMA EnteredContexts ==
  ASSUME CallingConvention, Entering, status = "running",
         UNCHANGED <<program, frames, status, fn_refs, output>>,
         value_stack' \in [StackIndexes -> Value],
         \A i \in StackIndexes : i < stack_pointer - 1 => value_stack'[i] = value_stack[i],
         value_stack'[stack_pointer - 1] = uvalue(base_pointer),
         heap' \in Seq(Seq(Value)),
         DOMAIN heap \subseteq DOMAIN heap',
         \A n \in DOMAIN heap : heap'[n] = heap[n],
         \A n \in DOMAIN heap' : Len(heap'[n]) > 0 /\ heap'[n][1] \in MayBeParent,
         ip' = ip + 1,
         base_pointer' = stack_pointer,
         call_depth' = call_depth + 1,
         stack_pointer' \in StackIndexes,
         stack_pointer' = stack_pointer + StackWords(program, Frame.entry),
         context_object' \in Context,
         IsStackFunction(program, Frame.entry) =>
           /\ context_object' = <<"stack", Frame.base>>
           /\ value_stack'[Frame.base] \in MayBeParent,
         ~IsStackFunction(program, Frame.entry) =>
           /\ context_object' \in HeapContexts'
           /\ Len(heap'[context_object'[2]]) = FrameSize(program, Frame.entry)
  PROVE  CallingConvention'
<1>1. /\ Depth' = Depth
      /\ Frame' = Frame
      /\ \A k : ContextEnd(k)' = ContextEnd(k)
      /\ \A k : ArgumentsStart(k)' = ArgumentsStart(k)
      /\ \A k : k < Depth => OwnContext(k)' = OwnContext(k)
      /\ OwnContext(Depth)' = context_object'
  <2>1. ~(Depth < Depth)
    BY FrameFacts
  <2> QED
    BY <2>1 DEF Depth, Frame, ContextEnd, ArgumentsStart, OwnContext
<1>2. HeapContexts \subseteq HeapContexts' /\ MayBeParent \subseteq MayBeParent'
  BY DEF HeapContexts, MayBeParent
<1>3. /\ ip' \in Addresses(program) \ EntriesOf(program)
      /\ program.entry[ip'] = Frame.entry
      /\ program.height[ip'] = 0
  <2>1. program.code[ip].op \in FnEnters /\ program.code[ip].op \notin {"JMP", "RET"}
    BY DEF Entering, FnEnters
  <2>2. HeightAfter(program.code[ip], program.height[ip]) = program.height[ip]
    BY <2>1 DEF HeightAfter, FnEnters
  <2>3. program \in Programs /\ ip \in Addresses(program) /\ program.entry[ip] = Frame.entry
    BY FrameFacts
  <2>4. program.height[ip] = 0
    BY EnteringFacts
  <2> QED
    BY <2>1, <2>2, <2>3, <2>4, SuccessorFacts
<1>4. ~Entering'
  BY <1>3, FrameFacts, AddressFacts DEF Entering
<1>5. \A k \in 1 .. Depth : Entered(k)' /\ (k < Depth => Entered(k))
  BY <1>1, <1>4 DEF Entered
<1>6. \A k \in 1 .. Depth : k < Depth =>
        /\ value_stack'[frames[k].base] = value_stack[frames[k].base]
        /\ frames[k].base < stack_pointer - 1
  <2>1. TAKE k \in 1 .. Depth
  <2>2. HAVE k < Depth
  <2>3. frames[k].base \in Nat /\ frames[k].base < Frame.base - 2 /\ Frame.base \in Nat
    <3>1. Depth \in 1 .. Depth
      BY EnteringFacts
    <3> QED
      BY <2>2, <3>1, FrameOrder DEF Frame
  <2>4. frames[k].base < stack_pointer - 1 /\ frames[k].base \in StackIndexes
    <3>1. PICK lower, upper : lower = frames[k].base /\ upper = stack_pointer
      OBVIOUS
    <3>2. upper \in StackIndexes /\ stack_pointer = Frame.base
      BY <3>1, EnteringFacts
    <3>3. lower \in Nat /\ lower < upper - 2
      BY <2>3, <3>1, <3>2
    <3>4. lower < upper - 1 /\ lower \in StackIndexes
      BY <3>2, <3>3, StackMaxAssumption DEF StackIndexes
    <3> QED
      BY <3>1, <3>4
  <2> QED
    BY <2>4
<1>7. FramesTypeOK'
  <2>1. call_depth' \in Nat
    BY DEF CallingConvention, FramesTypeOK, SharedTypeOK
  <2>2. SharedTypeOK'
    BY <1>3, <2>1, EnteringFacts
       DEF CallingConvention, FramesTypeOK, SharedTypeOK, FnRef
  <2> QED
    BY <1>1, <2>2 DEF CallingConvention, FramesTypeOK
<1>8. RootStays'
  BY DEF CallingConvention, RootStays, RootFrame
<1>9. RegistersMatchFrame'
  <2>1. stack_pointer' = ContextEnd(Depth) + 0
    <3>1. ContextEnd(Depth) = Frame.base + StackWords(program, Frame.entry)
      BY DEF ContextEnd, Frame
    <3>2. ContextEnd(Depth) \in Nat
      BY FrameFacts
    <3> QED
      BY <3>1, <3>2, EnteringFacts
  <2>2. call_depth' = Depth
    <3>1. call_depth = Depth - 1
      BY DEF CallingConvention, RegistersMatchFrame
    <3> QED
      BY <3>1, FrameFacts
  <2> QED
    BY <1>1, <1>3, <1>4, <2>1, <2>2, EnteringFacts DEF RegistersMatchFrame
<1>10. LinkageKept'
  <2>1. value_stack'[0] = nullptr
    <3>1. CASE Depth = 1
      <4>1. stack_pointer = 1 /\ base_pointer = 0
        BY <3>1, EnteringFacts DEF CallingConvention, RootStays, Frame, RootFrame
      <4> QED
        BY <4>1 DEF nullptr
    <3>2. CASE Depth # 1
      <4>1. 1 \in 1 .. Depth /\ 1 < Depth
        BY <3>2, FrameFacts
      <4>2. Frame.base - 2 > 0 /\ Frame.base \in Nat
        <5>1. frames[1].base \in Nat /\ Frame.base \in Nat /\ frames[1].base < Frame.base - 2
          BY <4>1, EnteringFacts, FrameOrder DEF Frame
        <5> QED
          BY <5>1
      <4>3. 0 < stack_pointer - 1 /\ 0 \in StackIndexes
        BY <4>2, EnteringFacts, StackMaxAssumption DEF StackIndexes
      <4> QED
        BY <4>3 DEF CallingConvention, LinkageKept
    <3> QED
      BY <3>1, <3>2
  <2>2. ASSUME NEW k \in 2 .. Depth, NEW i \in 0 .. frames[k].base - 2
        PROVE  value_stack'[i] = value_stack[i]
    <3>1. /\ k \in 1 .. Depth
          /\ frames[k].base \in Nat
          /\ frames[k].base <= stack_pointer
      <4>1. k \in 1 .. Depth
        BY FrameFacts
      <4>2. frames[k].base \in Nat /\ frames[k].base <= Frame.base
        BY <4>1, FrameFacts, BelowBase
      <4>3. stack_pointer = Frame.base
        BY EnteringFacts
      <4> QED
        BY <4>1, <4>2, <4>3
    <3>2. stack_pointer \in Nat /\ stack_pointer <= STACK_MAX + 1
      BY EnteringFacts, StackMaxAssumption DEF StackIndexes
    <3>3. i < stack_pointer - 1 /\ i \in StackIndexes
      <4> DEFINE base == frames[k].base
      <4>1. base \in Nat /\ base <= stack_pointer /\ i \in 0 .. base - 2
        BY <3>1
      <4> HIDE DEF base
      <4> QED
        BY <3>2, <4>1, StackMaxAssumption DEF StackIndexes
    <3> QED
      BY <3>3
  <2>3. ASSUME NEW k \in 2 .. Depth
        PROVE  LET words == Len(frames[k].linkage) IN
               /\ words > 2
               /\ \A j \in 2 .. words :
                    value_stack'[frames[k].base - j] = frames[k].linkage[words - j + 1]
               /\ \A n \in 1 .. Len(frames[k].args) :
                    value_stack'[ArgumentsStart(k) + n - 1] = frames[k].args[n]
    BY <2>2, LinkageBelow
  <2>4. ASSUME NEW k \in 2 .. Depth
        PROVE  value_stack'[frames[k].base - 1] = uvalue(frames[k - 1].base)
    <3>1. CASE k = Depth
      <4>1. Depth # 1
        BY <3>1, FrameFacts
      <4> QED
        BY <3>1, <4>1, EnteringFacts DEF Frame
    <3>2. CASE k # Depth
      <4>1. k \in 1 .. Depth /\ k < Depth
        BY <3>2, FrameFacts
      <4>2. frames[k].base - 1 < stack_pointer - 1 /\ frames[k].base - 1 \in StackIndexes
        <5> DEFINE base == frames[k].base
        <5>1. base \in Nat \ {0} /\ base < stack_pointer - 1
          BY <1>6, <4>1, FrameFacts
        <5>2. stack_pointer \in StackIndexes
          BY EnteringFacts
        <5> HIDE DEF base
        <5>3. base - 1 < stack_pointer - 1 /\ base - 1 \in StackIndexes
          BY <5>1, <5>2, StackMaxAssumption DEF StackIndexes
        <5> QED
          BY <5>3 DEF base
      <4>3. value_stack[frames[k].base - 1] = uvalue(frames[k - 1].base)
        BY <1>5, <4>1 DEF CallingConvention, LinkageKept
      <4> QED
        BY <4>2, <4>3
    <3> QED
      BY <3>1, <3>2
  <2>5. \A k \in 2 .. Depth : Entered(k)'
    BY <1>5, FrameFacts
  <2> QED
    BY <1>1, <2>1, <2>3, <2>4, <2>5 DEF LinkageKept
<1>11. ResumesInCaller'
  BY <1>1 DEF CallingConvention, ResumesInCaller
<1>12. FramesDisjoint'
  BY <1>1 DEF CallingConvention, FramesDisjoint
<1>13. ContextsOwned'
  <2>1. \A k \in 1 .. Depth : OwnContext(k) \in HeapContexts =>
          heap'[OwnContext(k)[2]] = heap[OwnContext(k)[2]]
    BY HeapContextFacts
  <2>2. ASSUME NEW k \in 1 .. Depth, k < Depth
        PROVE  IF IsStackFunction(program, frames[k].entry)
                 THEN OwnContext(k)' = <<"stack", frames[k].base>>
                 ELSE /\ OwnContext(k)' \in HeapContexts'
                      /\ Len(heap'[OwnContext(k)'[2]]) = FrameSize(program, frames[k].entry)
    BY <1>1, <1>2, <1>5, <2>1, <2>2 DEF CallingConvention, ContextsOwned
  <2>3. IF IsStackFunction(program, frames[Depth].entry)
          THEN OwnContext(Depth)' = <<"stack", frames[Depth].base>>
          ELSE /\ OwnContext(Depth)' \in HeapContexts'
               /\ Len(heap'[OwnContext(Depth)'[2]]) = FrameSize(program, frames[Depth].entry)
    BY <1>1 DEF Frame
  <2>4. \A k \in 1 .. Depth : k = Depth \/ k < Depth
    BY FrameFacts
  <2> QED
    BY <1>1, <2>2, <2>3, <2>4 DEF ContextsOwned
<1>14. NothingCapturesStack'
  <2>1. \A r \in DOMAIN fn_refs : fn_refs[r].parent \in HeapContexts'
    BY <1>2, StateFacts
  <2>2. \A n \in DOMAIN heap' : Len(heap'[n]) > 0 /\ heap'[n][1] \in MayBeParent'
    BY <1>2
  <2>3. ASSUME NEW k \in 1 .. Depth
        PROVE  /\ frames[k].parent \in MayBeParent'
               /\ IsStackFunction(program, frames[k].entry) =>
                    value_stack'[frames[k].base] \in MayBeParent'
    <3>1. frames[k].parent \in MayBeParent'
      BY <1>2 DEF CallingConvention, NothingCapturesStack
    <3>2. CASE k < Depth
      BY <1>2, <1>5, <1>6, <3>1, <3>2 DEF CallingConvention, NothingCapturesStack
    <3>3. CASE k = Depth
      BY <1>2, <3>1, <3>3 DEF Frame
    <3> QED
      BY <3>2, <3>3, FrameFacts
  <2> QED
    BY <1>1, <2>1, <2>2, <2>3 DEF NothingCapturesStack
<1> QED
  BY <1>7, <1>8, <1>9, <1>10, <1>11, <1>12, <1>13, <1>14 DEF CallingConvention

(* FN_ENTER in its two forms: see EnterHeap and EnterStack. *)
EnterStep ==
  LET size == program.code[ip].op1 IN
  /\ status = "running"
  /\ \/ program.code[ip].op = "FN_ENTER_HEAP" /\ EnterHeap(size)
     \/ /\ program.code[ip].op = "FN_ENTER_STACK"
        /\ stack_pointer + size <= STACK_MAX
        /\ EnterStack(size)
  /\ ip' = ip + 1
  /\ UNCHANGED <<program, frames, status>>

(* init_call_context writes words, the parent first. *)
LEMMA InitializedWords ==
  ASSUME NEW i \in Nat, NEW parent \in Value, NEW old \in Value
  PROVE  /\ InitCallContext(i, parent, old) \in Value
         /\ InitCallContext(0, parent, old) = parent
BY ConstructorsAreValues DEF InitCallContext

(* FN_ENTER_HEAP. *)
LEMMA FnEnterHeapSteps ==
  ASSUME CallingConvention, EnterStep, program.code[ip].op = "FN_ENTER_HEAP"
  PROVE  CallingConvention'
<1> DEFINE size == program.code[ip].op1
           block == NewHeapContext(size, Top)
<1>1. /\ status = "running"
      /\ UNCHANGED <<program, frames, status>>
      /\ ip' = ip + 1
  BY DEF EnterStep
<1>2. /\ heap' = Append(heap, block)
      /\ context_object' = <<"heap", Len(heap) + 1>>
      /\ value_stack' = [value_stack EXCEPT ![stack_pointer - 1] = uvalue(base_pointer)]
      /\ base_pointer' = stack_pointer
      /\ call_depth' = call_depth + 1
      /\ UNCHANGED <<stack_pointer, fn_refs, output>>
  BY DEF EnterStep, EnterHeap
<1>3. Entering
  BY DEF Entering, FnEnters
<1>4. ~IsStackFunction(program, Frame.entry) /\ StackWords(program, Frame.entry) = 0
  <2>1. ip = Frame.entry
    BY <1>3, FrameFacts, EntryFacts
  <2> QED
    BY <2>1 DEF IsStackFunction, StackWords
<1>5. /\ block \in Seq(Value)
      /\ Len(block) = FrameSize(program, Frame.entry)
      /\ Len(block) > 0
      /\ block[1] = Top
  <2>1. size \in Nat \ {0} /\ size = FrameSize(program, Frame.entry) /\ Top \in Value
    BY <1>3, EnteringFacts
  <2>2. block = [i \in 1 .. size |-> InitCallContext(i - 1, Top, undef)]
    BY DEF NewHeapContext
  <2>3. \A i \in 1 .. size : InitCallContext(i - 1, Top, undef) \in Value
    BY <2>1, InitializedWords, ConstructorsAreValues
  <2>4. block \in [1 .. size -> Value]
    BY <2>2, <2>3
  <2>5. block[1] = Top
    BY <2>1, <2>2, InitializedWords, ConstructorsAreValues
  <2> HIDE DEF block
  <2> QED
    BY <2>1, <2>4, <2>5
<1> HIDE DEF block
<1>6. /\ heap' \in Seq(Seq(Value))
      /\ DOMAIN heap \subseteq DOMAIN heap'
      /\ \A n \in DOMAIN heap : heap'[n] = heap[n]
      /\ Len(heap) + 1 \in DOMAIN heap'
      /\ heap'[Len(heap) + 1] = block
      /\ \A n \in DOMAIN heap' : heap'[n] = block \/ (n \in DOMAIN heap /\ heap'[n] = heap[n])
  <2>1. heap \in Seq(Seq(Value))
    BY HeapFacts
  <2>2. Len(heap) \in Nat /\ DOMAIN heap = 1 .. Len(heap)
    BY <2>1
  <2>3. heap' \in Seq(Seq(Value))
    BY <1>2, <1>5, <2>1, AppendProperties
  <2>4. /\ DOMAIN heap' = 1 .. Len(heap) + 1
        /\ heap'[Len(heap) + 1] = block
        /\ \A n \in 1 .. Len(heap) : heap'[n] = heap[n]
        /\ \A n \in DOMAIN heap' : heap'[n] = block \/ (n \in DOMAIN heap /\ heap'[n] = heap[n])
    BY <1>2, <1>5, <2>1, AppendIndexes
  <2> QED
    BY <2>2, <2>3, <2>4
<1>7. \A n \in DOMAIN heap' : Len(heap'[n]) > 0 /\ heap'[n][1] \in MayBeParent
  <2>1. \A n \in DOMAIN heap : Len(heap[n]) > 0 /\ heap[n][1] \in MayBeParent
    BY DEF CallingConvention, NothingCapturesStack
  <2> QED
    BY <1>3, <1>5, <1>6, <2>1, EnteringFacts
<1>8. /\ value_stack' \in [StackIndexes -> Value]
      /\ \A i \in StackIndexes : i < stack_pointer - 1 => value_stack'[i] = value_stack[i]
      /\ value_stack'[stack_pointer - 1] = uvalue(base_pointer)
  <2>1. uvalue(base_pointer) \in Value
    BY <1>3, EnteringFacts, ConstructorsAreValues DEF StackIndexes
  <2>2. stack_pointer - 1 \in StackIndexes /\ value_stack \in [StackIndexes -> Value]
    BY <1>3, EnteringFacts, StateFacts
  <2>3. \A i \in StackIndexes : i < stack_pointer - 1 => i # stack_pointer - 1
    BY StackMaxAssumption DEF StackIndexes
  <2> QED
    BY <1>2, <2>1, <2>2, <2>3
<1>9. context_object' \in HeapContexts' /\ context_object' \in Context
  BY <1>2, <1>6, HeapFacts DEF HeapContexts, Context
<1>10. Len(heap'[context_object'[2]]) = FrameSize(program, Frame.entry)
  BY <1>2, <1>5, <1>6
<1>11. stack_pointer' \in StackIndexes /\ stack_pointer' = stack_pointer + StackWords(program, Frame.entry)
  BY <1>2, <1>4, StateFacts
<1> QED
  BY <1>1, <1>2, <1>3, <1>4, <1>6, <1>7, <1>8, <1>9, <1>10, <1>11, EnteredContexts

(* FN_ENTER_STACK, whose context must not overlap the linkage below it. *)
LEMMA FnEnterStackSteps ==
  ASSUME CallingConvention, EnterStep, program.code[ip].op = "FN_ENTER_STACK"
  PROVE  CallingConvention'
<1> DEFINE size == program.code[ip].op1
<1>1. /\ status = "running"
      /\ stack_pointer + size <= STACK_MAX
      /\ UNCHANGED <<program, frames, status>>
      /\ ip' = ip + 1
  BY DEF EnterStep
<1>2. /\ value_stack' = [i \in StackIndexes |->
                          IF i = stack_pointer - 1 THEN uvalue(base_pointer)
                          ELSE IF i >= stack_pointer
                                 THEN InitCallContext(i - stack_pointer, Top, value_stack[i])
                          ELSE value_stack[i]]
      /\ context_object' = <<"stack", stack_pointer>>
      /\ base_pointer' = stack_pointer
      /\ stack_pointer' = stack_pointer + size
      /\ call_depth' = call_depth + 1
      /\ UNCHANGED <<heap, fn_refs, output>>
  BY DEF EnterStep, EnterStack
<1>3. Entering
  BY DEF Entering, FnEnters
<1>4. /\ IsStackFunction(program, Frame.entry)
      /\ StackWords(program, Frame.entry) = FrameSize(program, Frame.entry)
  <2>1. ip = Frame.entry
    BY <1>3, FrameFacts, EntryFacts
  <2> QED
    BY <2>1 DEF IsStackFunction, StackWords
<1>5. /\ size \in Nat
      /\ size = StackWords(program, Frame.entry)
      /\ stack_pointer \in Nat \ {0}
      /\ stack_pointer \in StackIndexes
      /\ Top \in Value
      /\ Top \in MayBeParent
      /\ stack_pointer = Frame.base
  BY <1>3, <1>4, EnteringFacts
<1>6. value_stack' \in [StackIndexes -> Value]
  <2>1. uvalue(base_pointer) \in Value
    BY <1>3, EnteringFacts, ConstructorsAreValues DEF StackIndexes
  <2>2. ASSUME NEW i \in StackIndexes
        PROVE  value_stack'[i] \in Value
    <3>1. value_stack[i] \in Value
      BY StateFacts
    <3>2. i >= stack_pointer => i - stack_pointer \in Nat
      BY <1>5, StackMaxAssumption DEF StackIndexes
    <3>3. i >= stack_pointer => InitCallContext(i - stack_pointer, Top, value_stack[i]) \in Value
      BY <1>5, <3>1, <3>2, InitializedWords
    <3> QED
      BY <1>2, <2>1, <3>1, <3>3
  <2> QED
    BY <1>2, <2>2
<1>7. /\ \A i \in StackIndexes : i < stack_pointer - 1 => value_stack'[i] = value_stack[i]
      /\ value_stack'[stack_pointer - 1] = uvalue(base_pointer)
  <2>1. \A i \in StackIndexes : i < stack_pointer - 1 => i # stack_pointer - 1 /\ ~(i >= stack_pointer)
    BY <1>5, StackMaxAssumption DEF StackIndexes
  <2>2. stack_pointer - 1 \in StackIndexes
    BY <1>3, EnteringFacts
  <2> QED
    BY <1>2, <2>1, <2>2
<1>8. value_stack'[Frame.base] \in MayBeParent
  <2>1. stack_pointer # stack_pointer - 1 /\ stack_pointer >= stack_pointer
        /\ stack_pointer - stack_pointer = 0
    BY <1>5
  <2>2. PICK word : word = value_stack[stack_pointer]
    OBVIOUS
  <2>3. value_stack'[stack_pointer] = InitCallContext(0, Top, word)
    BY <1>2, <1>5, <2>1, <2>2
  <2>4. InitCallContext(0, Top, word) = Top
    BY DEF InitCallContext
  <2>5. value_stack'[stack_pointer] \in MayBeParent
    BY <1>5, <2>3, <2>4
  <2> QED
    BY <1>5, <2>5
<1>9. stack_pointer' \in StackIndexes
  <2>1. PICK sp, n : sp = stack_pointer /\ n = size
    OBVIOUS
  <2>2. sp \in Nat /\ n \in Nat /\ sp + n <= STACK_MAX
    BY <1>1, <1>5, <2>1
  <2>3. sp + n \in StackIndexes
    BY <2>2, StackMaxAssumption DEF StackIndexes
  <2> QED
    BY <1>2, <2>1, <2>3
<1>10. context_object' \in Context /\ context_object' = <<"stack", Frame.base>>
  BY <1>2, <1>5 DEF Context
<1>11. /\ heap' \in Seq(Seq(Value))
       /\ DOMAIN heap \subseteq DOMAIN heap'
       /\ \A n \in DOMAIN heap : heap'[n] = heap[n]
       /\ \A n \in DOMAIN heap' : Len(heap'[n]) > 0 /\ heap'[n][1] \in MayBeParent
  BY <1>2, HeapFacts DEF CallingConvention, NothingCapturesStack
<1> QED
  BY <1>1, <1>2, <1>3, <1>4, <1>5, <1>6, <1>7, <1>8, <1>9, <1>10, <1>11, EnteredContexts

-----------------------------------------------------------------------------

(* FN_ENTER preserves the convention. *)
LEMMA EnterSteps ==
  ASSUME CallingConvention, EnterStep
  PROVE  CallingConvention'
BY FnEnterHeapSteps, FnEnterStackSteps DEF EnterStep

-----------------------------------------------------------------------------
(* Calls *)

(* A CALL pushes its linkage, whose last word is the parent of the callee, *)
(* and goes to the entry of the callee.                                    *)
CallStep(linkage) ==
  LET callee == Callee(Local(program.code[ip].op1))
      words == Len(linkage) IN
  /\ status = "running"
  /\ program.code[ip].op = "CALL"
  /\ IsFnRef(Local(program.code[ip].op1))
  /\ linkage \in Seq(Value)
  /\ words > 2
  /\ linkage[words] = callee.parent
  /\ stack_pointer + words - 1 <= STACK_MAX
  /\ value_stack' = Pushed(value_stack, stack_pointer, linkage)
  /\ stack_pointer' = stack_pointer + words
  /\ ip' = callee.entry
  /\ RecordCall(linkage)
  /\ UNCHANGED <<program, status, base_pointer, call_depth, context_object, heap,
                 fn_refs, output>>

(* A CALL that goes through calls a function of the program, with the      *)
(* arguments on top of its operands.                                       *)
LEMMA CallFacts ==
  ASSUME CallingConvention, program.code[ip].op = "CALL",
         IsFnRef(Local(program.code[ip].op1))
  PROVE  LET i == program.code[ip]
             callee == Callee(Local(i.op1)) IN
         /\ ~Entering
         /\ stack_pointer \in Nat
         /\ callee \in FnRef
         /\ callee.parent \in HeapContexts
         /\ callee.entry \in EntriesOf(program)
         /\ i.op2 \in Nat
         /\ i.op2 <= program.height[ip]
         /\ i.dest \in 1 .. FrameSize(program, Frame.entry) - 1
         /\ i.dest \in Nat
         /\ ip + 1 \in Addresses(program) \ EntriesOf(program)
         /\ ip + 1 \in Nat
         /\ program.entry[ip + 1] = Frame.entry
         /\ program.height[ip + 1] = program.height[ip] - i.op2
         /\ callee.parent \in Context
         /\ callee.parent \in Value
         /\ context_object \in Context
         /\ context_object \in Value
<1> DEFINE i == program.code[ip]
           callee == Callee(Local(i.op1))
<1>1. ~Entering
  BY InstructionFacts DEF FnEnters
<1>2. callee \in FnRef /\ callee.parent \in HeapContexts
  BY StateFacts DEF IsFnRef, Callee
<1>3. callee.entry \in EntriesOf(program) /\ callee.parent \in Context
  BY <1>2 DEF FnRef
<1>4. i.op2 \in Nat /\ i.op2 <= program.height[ip]
  BY InstructionFacts DEF WellFormedAt
<1>5. i.dest \in 1 .. FrameSize(program, Frame.entry) - 1 /\ i.dest \in Nat
  BY <1>1, SlotFacts, InstructionFacts DEF WritesDest
<1>6. /\ ip + 1 \in Addresses(program) \ EntriesOf(program)
      /\ program.entry[ip + 1] = Frame.entry
      /\ program.height[ip + 1] = program.height[ip] - i.op2
  BY FrameFacts, SuccessorFacts DEF HeightAfter
<1>7. ip + 1 \in Nat
  BY <1>6, FrameFacts, AddressFacts
<1>8. context_object \in Context
  BY DEF CallingConvention, FramesTypeOK, SharedTypeOK
<1>9. Context \subseteq Value
  BY ConstructorsAreValues DEF Context, Value, Tag
<1> HIDE DEF i, callee
<1>10. callee.parent \in Value /\ context_object \in Value
  BY <1>3, <1>8, <1>9
<1> QED
  BY <1>1, <1>2, <1>3, <1>4, <1>5, <1>6, <1>7, <1>8, <1>10, StateFacts DEF i, callee

(* Pushed words, and everything below them. *)
LEMMA PushedWords ==
  ASSUME NEW sp \in Nat, NEW stack \in [StackIndexes -> Value],
         NEW words \in Seq(Value), sp + Len(words) - 1 <= STACK_MAX
  PROVE  LET pushed == Pushed(stack, sp, words) IN
         /\ pushed \in [StackIndexes -> Value]
         /\ \A i \in StackIndexes : i < sp => pushed[i] = stack[i]
         /\ \A j \in 1 .. Len(words) : pushed[sp + j - 1] = words[j]
<1> DEFINE pushed == Pushed(stack, sp, words)
<1>1. PICK n \in Nat : n = Len(words)
  BY LenProperties
<1>2. pushed = [i \in StackIndexes |->
                  IF i \in sp .. sp + n - 1 THEN words[i - sp + 1] ELSE stack[i]]
  BY <1>1 DEF Pushed
<1> HIDE DEF pushed
<1>3. \A i \in StackIndexes : i \in sp .. sp + n - 1 => i - sp + 1 \in 1 .. n
  BY StackMaxAssumption DEF StackIndexes
<1>4. \A j \in 1 .. n : words[j] \in Value
  BY <1>1, ElementOfSeq
<1>5. \A i \in StackIndexes : pushed[i] \in Value
  BY <1>2, <1>3, <1>4
<1>6. pushed \in [StackIndexes -> Value]
  BY <1>2, <1>5
<1>7. \A i \in StackIndexes : i < sp => pushed[i] = stack[i]
  BY <1>2
<1>8. sp + n - 1 <= STACK_MAX
  BY <1>1
<1>9. ASSUME NEW j \in 1 .. n
      PROVE  pushed[sp + j - 1] = words[j]
  <2>1. PICK a : a = sp + j - 1
    OBVIOUS
  <2>2. a \in StackIndexes /\ a \in sp .. sp + n - 1 /\ a - sp + 1 = j
    BY <1>8, <2>1, StackMaxAssumption DEF StackIndexes
  <2>3. pushed[a] = words[a - sp + 1]
    BY <1>2, <2>2, Zenon
  <2> QED
    BY <2>1, <2>2, <2>3
<1> QED
  BY <1>1, <1>6, <1>7, <1>9 DEF pushed

(* CALL: the new linkage lies above everything that is in use. *)
LEMMA CallSteps ==
  ASSUME CallingConvention, NEW linkage, CallStep(linkage)
  PROVE  CallingConvention'
<1> DEFINE i == program.code[ip]
           callee == Callee(Local(i.op1))
           new == CalledFrame(linkage)
           args == [n \in 1 .. i.op2 |-> value_stack[stack_pointer - i.op2 + n - 1]]
<1>0. PICK d \in Nat : d = Depth
  BY FrameFacts
<1> USE <1>0
<1>6. PICK words \in Nat : words = Len(linkage)
  BY LenProperties DEF CallStep
<1>1. frames' = Append(frames, new)
  BY DEF CallStep, RecordCall
(* The registers *)
<1>2. /\ status = "running"
      /\ linkage \in Seq(Value)
      /\ words > 2
      /\ linkage[words] = callee.parent
      /\ stack_pointer + words - 1 <= STACK_MAX
      /\ stack_pointer' = stack_pointer + words
      /\ value_stack' = Pushed(value_stack, stack_pointer, linkage)
      /\ ip' = callee.entry
      /\ UNCHANGED <<program, status, base_pointer, call_depth, context_object,
                     heap, fn_refs, output>>
  BY <1>6 DEF CallStep
<1>3. /\ ~Entering
      /\ stack_pointer \in Nat
      /\ callee \in FnRef
      /\ callee.parent \in HeapContexts
      /\ callee.entry \in EntriesOf(program)
      /\ i.op2 \in Nat
      /\ i.op2 <= program.height[ip]
      /\ i.dest \in 1 .. FrameSize(program, Frame.entry) - 1
      /\ i.dest \in Nat
      /\ ip + 1 \in Addresses(program) \ EntriesOf(program)
      /\ ip + 1 \in Nat
      /\ program.entry[ip + 1] = Frame.entry
      /\ program.height[ip + 1] = program.height[ip] - i.op2
      /\ callee.parent \in Context
      /\ context_object \in Context
  BY CallFacts DEF CallStep
<1>4. new = [base |-> stack_pointer + words, entry |-> callee.entry, resume |-> ip + 1,
             ctx |-> context_object, dest |-> i.dest, args |-> args,
             linkage |-> linkage, parent |-> callee.parent]
  BY <1>6 DEF CalledFrame
<1>5. /\ program \in Programs
      /\ Depth \in Nat \ {0}
      /\ Depth \in 1 .. Depth
      /\ ContextEnd(Depth) \in Nat
      /\ Frame.base \in Nat
      /\ Frame.base <= ContextEnd(Depth)
      /\ program.height[ip] \in Nat
      /\ stack_pointer = ContextEnd(Depth) + program.height[ip]
  <2>1. ContextEnd(Depth) = Frame.base + StackWords(program, Frame.entry)
    BY DEF ContextEnd, Frame
  <2>2. /\ Depth \in 1 .. Depth
        /\ Frame.base \in Nat
        /\ StackWords(program, Frame.entry) \in Nat
    BY FrameFacts DEF Frame
  <2>3. Frame.base <= ContextEnd(Depth)
    BY <2>1, <2>2
  <2> QED
    BY <1>3, <2>2, <2>3, FrameFacts, StateFacts
<1>7. \A n \in 1 .. i.op2 : /\ stack_pointer - i.op2 + n - 1 \in StackIndexes
                            /\ stack_pointer - i.op2 + n - 1 < stack_pointer
  <2>1. PICK size, end, height : /\ size = i.op2
                                 /\ end = ContextEnd(Depth)
                                 /\ height = program.height[ip]
    OBVIOUS
  <2>2. /\ size \in Nat /\ end \in Nat /\ height \in Nat
        /\ size <= height
        /\ stack_pointer = end + height
        /\ stack_pointer \in StackIndexes
    BY <1>3, <1>5, <2>1, StateFacts
  <2>3. \A n \in 1 .. size : /\ stack_pointer - size + n - 1 \in StackIndexes
                             /\ stack_pointer - size + n - 1 < stack_pointer
    BY <2>2, StackMaxAssumption DEF StackIndexes
  <2> QED
    BY <2>1, <2>3
<1>8. args \in Seq(Value) /\ Len(args) = i.op2
  <2>2. \A n \in 1 .. i.op2 : value_stack[stack_pointer - i.op2 + n - 1] \in Value
    BY <1>7, StateFacts
  <2>3. args \in [1 .. i.op2 -> Value]
    BY <2>2
  <2> HIDE DEF args
  <2> QED
    BY <1>3, <2>3
<1>9. callee.entry \in Nat /\ stack_pointer + words \in Nat
  BY <1>3, <1>5, EntryFacts, AddressFacts
<1>10. new \in FrameRecord
  BY <1>2, <1>3, <1>4, <1>8, <1>9 DEF FrameRecord
<1> HIDE DEF new
(* The stack *)
<1>11. /\ value_stack' \in [StackIndexes -> Value]
       /\ \A a \in StackIndexes : a < stack_pointer => value_stack'[a] = value_stack[a]
       /\ \A j \in 1 .. words : value_stack'[stack_pointer + j - 1] = linkage[j]
  <2>1. value_stack \in [StackIndexes -> Value] /\ stack_pointer + Len(linkage) - 1 <= STACK_MAX
    BY <1>2, <1>6, StateFacts
  <2>2. PICK sp, stack : sp = stack_pointer /\ stack = value_stack
    OBVIOUS
  <2>3. LET pushed == Pushed(stack, sp, linkage) IN
        /\ pushed \in [StackIndexes -> Value]
        /\ \A a \in StackIndexes : a < sp => pushed[a] = stack[a]
        /\ \A j \in 1 .. Len(linkage) : pushed[sp + j - 1] = linkage[j]
    BY <1>2, <1>3, <2>1, <2>2, PushedWords
  <2> QED
    BY <1>2, <1>6, <2>2, <2>3
(* The history *)
<1>12. /\ Depth' = d + 1
       /\ frames'[d + 1] = new
       /\ \A k \in 1 .. Depth : frames'[k] = frames[k]
       /\ frames' \in Seq(FrameRecord)
  <2>1. frames \in Seq(FrameRecord)
    BY DEF CallingConvention, FramesTypeOK
  <2>2. /\ frames' \in Seq(FrameRecord)
        /\ Len(frames') = Len(frames) + 1
        /\ \A k \in 1 .. Len(frames) : frames'[k] = frames[k]
        /\ frames'[Len(frames) + 1] = new
    BY <1>1, <1>10, <2>1, AppendProperties
  <2>3. Len(frames) = d
    BY DEF Depth
  <2> QED
    BY <2>2, <2>3 DEF Depth
<1>13. Frame' = new
  BY <1>12 DEF Frame
<1>14. Entering'
  BY <1>2, <1>3, <1>5, EntryFacts DEF Entering
<1>15. /\ \A k \in 1 .. Depth : Entered(k) /\ Entered(k)'
       /\ ~Entered(d + 1)'
  BY <1>2, <1>3, <1>5, <1>12, <1>14 DEF Entered
<1>16. /\ \A k \in 1 .. Depth : ContextEnd(k)' = ContextEnd(k)
       /\ \A k \in 1 .. Depth : ArgumentsStart(k)' = ArgumentsStart(k)
  BY <1>2, <1>3, <1>12 DEF ContextEnd, ArgumentsStart
<1>17. \A k \in 1 .. Depth : OwnContext(k)' = OwnContext(k)
  <2>1. TAKE k \in 1 .. Depth
  <2>2. CASE k = Depth
    <3>1. OwnContext(k)' = frames'[d + 1].ctx
      BY <1>5, <1>12, <2>2 DEF OwnContext
    <3>2. OwnContext(k) = context_object
      BY <1>5, <2>2 DEF OwnContext
    <3> QED
      BY <1>4, <1>12, <3>1, <3>2
  <2>3. CASE k # Depth
    <3>1. k < Depth /\ k + 1 \in 1 .. Depth /\ k < d + 1
      BY <1>5, <2>3
    <3> QED
      BY <1>12, <3>1 DEF OwnContext
  <2> QED
    BY <2>2, <2>3
<1>18. ArgumentsStart(d + 1)' = stack_pointer - i.op2
  <2>1. ArgumentsStart(d + 1)' = frames'[d + 1].base - Len(frames'[d + 1].linkage) - Len(frames'[d + 1].args)
    BY DEF ArgumentsStart
  <2>2. frames'[d + 1].base = stack_pointer + words /\ frames'[d + 1].args = args
        /\ Len(frames'[d + 1].linkage) = words
    BY <1>4, <1>6, <1>12
  <2>3. Len(args) = i.op2
    BY <1>8
  <2> HIDE DEF args
  <2> QED
    BY <1>2, <1>3, <2>1, <2>2, <2>3
<1> HIDE DEF args
<1>19. HeapContexts' = HeapContexts /\ MayBeParent' = MayBeParent
  BY <1>2, <1>3 DEF HeapContexts, MayBeParent
<1>20. \A k \in 2 .. d + 1 : k \in 2 .. Depth \/ k = d + 1
  BY <1>5
<1>21. \A k \in 1 .. d + 1 : k \in 1 .. Depth \/ k = d + 1
  BY <1>5
(* The invariant *)
<1>22. FramesTypeOK'
  <2>1. stack_pointer' \in StackIndexes
    BY <1>2, <1>3, StackMaxAssumption DEF StackIndexes
  <2>2. ip' \in Addresses(program)
    BY <1>2, <1>3, <1>5, EntryFacts
  <2>3. SharedTypeOK'
    BY <1>2, <1>3, <1>11, <2>1, <2>2 DEF CallingConvention, FramesTypeOK, SharedTypeOK, FnRef
  <2> QED
    BY <1>5, <1>12, <2>3 DEF FramesTypeOK
<1>23. RootStays'
  BY <1>5, <1>12 DEF CallingConvention, RootStays, RootFrame
<1>24. RegistersMatchFrame'
  <2>1. program'.entry[ip'] = Frame'.entry
    BY <1>2, <1>3, <1>4, <1>5, <1>13, EntryFacts
  <2>2. stack_pointer' = Frame'.base /\ context_object' = Frame'.ctx
    BY <1>2, <1>3, <1>4, <1>13
  <2>3. base_pointer' = frames'[Depth' - 1].base /\ Depth' # 1
    <3>1. base_pointer = Frame.base
      BY <1>2, <1>3 DEF CallingConvention, RegistersMatchFrame
    <3>2. Depth' - 1 = Depth /\ Depth' # 1
      BY <1>5, <1>12
    <3> QED
      BY <1>2, <1>3, <1>5, <1>12, <3>1, <3>2 DEF Frame
  <2>4. call_depth' = Depth' - 1
    <3>1. call_depth = Depth
      BY <1>2, <1>3 DEF CallingConvention, RegistersMatchFrame
    <3> QED
      BY <1>2, <1>3, <1>5, <1>12, <3>1
  <2> QED
    BY <1>14, <2>1, <2>2, <2>3, <2>4 DEF RegistersMatchFrame
<1>25. LinkageKept'
  <2>1. value_stack'[0] = nullptr
    <3>1. 0 \in StackIndexes /\ 0 < stack_pointer
      <4>1. Frame.base \in Nat \ {0}
        BY <1>5, FrameFacts DEF Frame
      <4> QED
        BY <1>5, <4>1, StackMaxAssumption DEF StackIndexes
    <3> QED
      BY <1>11, <3>1 DEF CallingConvention, LinkageKept
  <2>2. ASSUME NEW k \in 2 .. Depth
        PROVE  \A a \in 0 .. frames[k].base - 1 : value_stack'[a] = value_stack[a]
    <3>1. k \in 1 .. Depth
      BY <1>5
    <3>2. frames[k].base \in Nat /\ frames[k].base <= stack_pointer
      <4>1. frames[k].base \in Nat /\ frames[k].base <= Frame.base /\ Frame.base <= stack_pointer
        BY <3>1, BelowBase, FrameFacts
      <4>2. PICK lower, upper : lower = frames[k].base /\ upper = Frame.base
        OBVIOUS
      <4>3. lower \in Nat /\ upper \in Nat /\ lower <= upper /\ upper <= stack_pointer
        BY <1>5, <4>1, <4>2
      <4> QED
        BY <1>3, <4>2, <4>3
    <3>3. \A a \in 0 .. frames[k].base - 1 : a < stack_pointer /\ a \in StackIndexes
      <4>1. PICK base : base = frames[k].base
        OBVIOUS
      <4>2. \A a \in 0 .. base - 1 : a < stack_pointer /\ a \in StackIndexes
        BY <1>2, <1>3, <3>2, <4>1, StackMaxAssumption DEF StackIndexes
      <4> QED
        BY <4>1, <4>2
    <3> QED
      BY <1>11, <3>3
  <2>3. ASSUME NEW k \in 2 .. Depth
        PROVE  LET f == frames'[k] IN
               /\ Len(f.linkage) > 2
               /\ \A j \in 2 .. Len(f.linkage) :
                    value_stack'[f.base - j] = f.linkage[Len(f.linkage) - j + 1]
               /\ value_stack'[f.base - 1] = uvalue(frames'[k - 1].base)
               /\ \A n \in 1 .. Len(f.args) :
                    value_stack'[ArgumentsStart(k)' + n - 1] = f.args[n]
    <3>1. k \in 1 .. Depth /\ k - 1 \in 1 .. Depth /\ Entered(k)
      BY <1>5, <1>15
    <3>2. frames'[k] = frames[k] /\ frames'[k - 1] = frames[k - 1]
          /\ ArgumentsStart(k)' = ArgumentsStart(k)
      BY <1>12, <1>16, <3>1
    <3>3. \A a \in 0 .. frames[k].base - 2 : value_stack'[a] = value_stack[a]
      <4>1. frames[k].base \in Nat
        BY <3>1, FrameFacts
      <4> QED
        BY <2>2, <4>1
    <3>4. value_stack'[frames[k].base - 1] = uvalue(frames[k - 1].base)
      <4>1. frames[k].base - 1 \in 0 .. frames[k].base - 1
        <5>1. PICK base \in Nat \ {0} : base = frames[k].base
          BY <3>1, FrameFacts
        <5>2. base - 1 \in 0 .. base - 1
          OBVIOUS
        <5> QED
          BY <5>1, <5>2
      <4> QED
        BY <2>2, <3>1, <4>1 DEF CallingConvention, LinkageKept
    <3> QED
      BY <3>2, <3>3, <3>4, LinkageBelow
  <2>4. /\ Len(new.linkage) > 2
        /\ \A j \in 2 .. Len(new.linkage) :
             value_stack'[new.base - j] = new.linkage[Len(new.linkage) - j + 1]
        /\ value_stack'[new.base - 1] = new.parent
    <3>1. /\ new.base = stack_pointer + words
          /\ new.linkage = linkage
          /\ new.parent = callee.parent
      BY <1>4
    <3>2. \A j \in 1 .. words : /\ words - j + 1 \in 1 .. words
                                /\ stack_pointer + (words - j + 1) - 1 = (stack_pointer + words) - j
      BY <1>3
    <3>3. \A j \in 1 .. words : value_stack'[(stack_pointer + words) - j] = linkage[words - j + 1]
      BY <1>11, <3>2
    <3>4. 1 \in 1 .. words /\ words - 1 + 1 = words /\ \A j \in 2 .. words : j \in 1 .. words
      BY <1>2, <1>3
    <3> QED
      BY <1>2, <1>3, <1>6, <3>1, <3>3, <3>4
  <2>5. \A n \in 1 .. Len(new.args) : value_stack'[stack_pointer - i.op2 + n - 1] = new.args[n]
    <3>1. Len(new.args) = i.op2 /\ new.args = args
      BY <1>4, <1>8
    <3>2. \A n \in 1 .. i.op2 : args[n] = value_stack[stack_pointer - i.op2 + n - 1]
      BY DEF args
    <3> QED
      BY <1>7, <1>11, <3>1, <3>2
  <2>6. ASSUME NEW k \in 2 .. d + 1
        PROVE  LET f == frames'[k] IN
               /\ Len(f.linkage) > 2
               /\ \A j \in 2 .. Len(f.linkage) :
                    value_stack'[f.base - j] = f.linkage[Len(f.linkage) - j + 1]
               /\ value_stack'[f.base - 1] =
                    IF Entered(k)' THEN uvalue(frames'[k - 1].base) ELSE f.parent
               /\ \A n \in 1 .. Len(f.args) :
                    value_stack'[ArgumentsStart(k)' + n - 1] = f.args[n]
    <3>1. CASE k \in 2 .. Depth
      <4>1. Entered(k)'
        BY <1>5, <1>15, <3>1
      <4> QED
        BY <2>3, <3>1, <4>1
    <3>2. CASE k = d + 1
      <4>1. frames'[k] = new /\ ~Entered(k)' /\ ArgumentsStart(k)' = stack_pointer - i.op2
        BY <1>12, <1>15, <1>18, <3>2
      <4> QED
        BY <2>4, <2>5, <4>1
    <3> QED
      BY <1>20, <3>1, <3>2
  <2> QED
    BY <1>12, <2>1, <2>6 DEF LinkageKept
<1>26. ResumesInCaller'
  <2>1. ASSUME NEW k \in 2 .. d + 1
        PROVE  /\ frames'[k].resume \in Addresses(program) \ EntriesOf(program)
               /\ program.code[frames'[k].resume - 1].op = "CALL"
               /\ program.entry[frames'[k].resume] = frames'[k - 1].entry
               /\ ArgumentsStart(k)' = ContextEnd(k - 1)' + program.height[frames'[k].resume]
               /\ frames'[k].dest \in 1 .. FrameSize(program, frames'[k - 1].entry) - 1
    <3>1. CASE k \in 2 .. Depth
      <4>1. k \in 1 .. Depth /\ k - 1 \in 1 .. Depth
        BY <1>5, <3>1
      <4>2. frames'[k] = frames[k] /\ frames'[k - 1] = frames[k - 1]
            /\ ArgumentsStart(k)' = ArgumentsStart(k) /\ ContextEnd(k - 1)' = ContextEnd(k - 1)
        BY <1>12, <1>16, <4>1
      <4> QED
        BY <3>1, <4>2 DEF CallingConvention, ResumesInCaller
    <3>2. CASE k = d + 1
      <4>1. k - 1 = Depth
        BY <1>5, <3>2
      <4>2. frames'[k] = new /\ frames'[k - 1] = Frame
        BY <1>5, <1>12, <3>2, <4>1 DEF Frame
      <4>3. new.resume = ip + 1 /\ new.dest = i.dest
        BY <1>4
      <4>4. ContextEnd(k - 1)' = ContextEnd(Depth) /\ ArgumentsStart(k)' = stack_pointer - i.op2
        BY <1>5, <1>16, <1>18, <3>2, <4>1
      <4>5. stack_pointer - i.op2 = ContextEnd(Depth) + (program.height[ip] - i.op2)
        BY <1>3, <1>5
      <4>6. program.code[(ip + 1) - 1].op = "CALL"
        <5>1. (ip + 1) - 1 = ip
          BY FrameFacts, AddressFacts
        <5> QED
          BY <5>1 DEF CallStep
      <4> QED
        BY <1>3, <4>2, <4>3, <4>4, <4>5, <4>6
    <3> QED
      BY <1>20, <3>1, <3>2
  <2> QED
    BY <1>2, <1>3, <1>12, <2>1 DEF ResumesInCaller
<1>27. FramesDisjoint'
  <2>1. ASSUME NEW j \in 1 .. d + 1, NEW k \in 1 .. d + 1, j < k
        PROVE  ContextEnd(j)' <= ArgumentsStart(k)'
    <3>1. j \in 1 .. Depth
      BY <1>5, <2>1
    <3>2. CASE k \in 1 .. Depth
      BY <1>16, <2>1, <3>1, <3>2 DEF CallingConvention, FramesDisjoint
    <3>3. CASE k = d + 1
      <4>1. ContextEnd(Depth) <= stack_pointer - i.op2
        BY <1>3, <1>5
      <4>2. ContextEnd(j) \in Nat /\ ContextEnd(j) <= ContextEnd(Depth)
        <5>1. CASE j = Depth
          BY <1>5, <5>1
        <5>2. CASE j # Depth
          <6>1. j < Depth
            BY <1>5, <3>1, <5>2
          <6>2. ContextEnd(j) < Frame.base /\ ContextEnd(j) \in Nat
            BY <3>1, <6>1, BelowBase, FrameFacts
          <6> QED
            BY <1>5, <6>2
        <5> QED
          BY <5>1, <5>2
      <4>3. ContextEnd(j) <= stack_pointer - i.op2
        <5>1. PICK lower, upper, size : /\ lower = ContextEnd(j)
                                        /\ upper = ContextEnd(Depth)
                                        /\ size = i.op2
          OBVIOUS
        <5>2. lower \in Nat /\ upper \in Nat /\ size \in Nat /\ lower <= upper
              /\ upper <= stack_pointer - size
          BY <1>3, <1>5, <4>1, <4>2, <5>1
        <5>3. lower <= stack_pointer - size
          BY <1>3, <5>2
        <5> QED
          BY <5>1, <5>3
      <4> QED
        BY <1>16, <1>18, <3>1, <3>3, <4>3
    <3> QED
      BY <1>21, <3>2, <3>3
  <2> QED
    BY <1>12, <2>1 DEF FramesDisjoint
<1>28. ContextsOwned'
  <2>1. ASSUME NEW k \in 1 .. Depth
        PROVE  IF IsStackFunction(program, frames'[k].entry)
                 THEN OwnContext(k)' = <<"stack", frames'[k].base>>
                 ELSE /\ OwnContext(k)' \in HeapContexts'
                      /\ Len(heap'[OwnContext(k)'[2]]) = FrameSize(program, frames'[k].entry)
    BY <1>2, <1>3, <1>12, <1>15, <1>17, <1>19 DEF CallingConvention, ContextsOwned
  <2> QED
    BY <1>2, <1>3, <1>12, <1>15, <1>21, <2>1 DEF ContextsOwned
<1>29. NothingCapturesStack'
  <2>1. /\ \A r \in DOMAIN fn_refs' : fn_refs'[r].parent \in HeapContexts'
        /\ \A n \in DOMAIN heap' : Len(heap'[n]) > 0 /\ heap'[n][1] \in MayBeParent'
    BY <1>2, <1>3, <1>19 DEF CallingConvention, NothingCapturesStack
  <2>2. ASSUME NEW k \in 1 .. Depth
        PROVE  /\ frames'[k].parent \in MayBeParent'
               /\ IsStackFunction(program, frames'[k].entry) =>
                    value_stack'[frames'[k].base] \in MayBeParent'
    <3>1. frames'[k] = frames[k]
      BY <1>12
    <3>2. ASSUME IsStackFunction(program, frames[k].entry)
          PROVE  frames[k].base \in StackIndexes /\ frames[k].base < stack_pointer
      <4>1. frames[k].base \in Nat /\ frames[k].base \in StackIndexes
        <5>1. Frame.base \in Nat /\ frames[k].base \in Nat /\ frames[k].base <= Frame.base
              /\ \A a \in 0 .. Frame.base : a \in StackIndexes
          BY FrameFacts, BelowBase
        <5> QED
          BY <5>1
      <4>2. CASE k = Depth
        <5>1. /\ StackWords(program, Frame.entry) = FrameSize(program, Frame.entry)
              /\ FrameSize(program, Frame.entry) \in Nat \ {0}
              /\ ContextEnd(Depth) = Frame.base + StackWords(program, Frame.entry)
          BY <1>5, <3>2, <4>2, FrameFacts DEF Frame, StackWords, ContextEnd
        <5>2. Frame.base < stack_pointer
          BY <1>5, <5>1
        <5> QED
          BY <4>1, <4>2, <5>2 DEF Frame
      <4>3. CASE k # Depth
        <5>1. k < Depth
          BY <1>5, <4>3
        <5>2. frames[k].base < Frame.base
          BY <5>1, BelowBase
        <5>3. PICK lower, base, end, height : /\ lower = frames[k].base
                                              /\ base = Frame.base
                                              /\ end = ContextEnd(Depth)
                                              /\ height = program.height[ip]
          OBVIOUS
        <5>4. /\ lower \in Nat /\ base \in Nat /\ end \in Nat /\ height \in Nat
              /\ lower < base /\ base <= end /\ stack_pointer = end + height
          BY <1>5, <4>1, <5>2, <5>3
        <5>5. lower < stack_pointer
          BY <5>4
        <5> QED
          BY <4>1, <5>3, <5>5
      <4> QED
        BY <4>2, <4>3
    <3>3. IsStackFunction(program, frames[k].entry) => value_stack'[frames[k].base] \in MayBeParent
      BY <1>11, <1>15, <3>2 DEF CallingConvention, NothingCapturesStack
    <3>4. frames[k].parent \in MayBeParent
      BY DEF CallingConvention, NothingCapturesStack
    <3> QED
      BY <1>19, <3>1, <3>3, <3>4
  <2>3. new.parent \in MayBeParent'
    BY <1>2, <1>3, <1>4, <1>19 DEF MayBeParent
  <2> QED
    BY <1>2, <1>3, <1>12, <1>15, <1>21, <2>1, <2>2, <2>3 DEF NothingCapturesStack
<1> QED
  BY <1>22, <1>23, <1>24, <1>25, <1>26, <1>27, <1>28, <1>29 DEF CallingConvention

-----------------------------------------------------------------------------
(* Returns *)

(* A RET goes back to the caller with what the caller's CALL recorded.     *)
ReturnStep ==
  LET result == program.code[ip].dest IN
  /\ status = "running"
  /\ program.code[ip].op = "RET"
  /\ Depth > 1
  /\ IF result # 0 THEN StoreSlot(Frame.ctx, Frame.dest, Local(result))
     ELSE UNCHANGED <<value_stack, heap>>
  /\ call_depth' = Depth - 1
  /\ stack_pointer' = ArgumentsStart(Depth)
  /\ base_pointer' = frames[Depth - 1].base
  /\ context_object' = Frame.ctx
  /\ ip' = Frame.resume
  /\ RecordReturn
  /\ UNCHANGED <<program, status, fn_refs, output>>

(* A RET is executed by an entered function and returns a word. *)
LEMMA ReturnFacts ==
  ASSUME CallingConvention, program.code[ip].op = "RET", Depth > 1
  PROVE  /\ ~Entering
         /\ Depth \in 2 .. Depth
         /\ Depth - 1 \in 1 .. Depth
         /\ Local(program.code[ip].dest) \in Value
<1>1. ~Entering
  BY InstructionFacts DEF FnEnters
<1>2. program.code[ip].dest \in SlotsRead(program.code[ip])
  BY DEF SlotsRead
<1> QED
  BY <1>1, <1>2, FrameFacts, SlotFacts

(* The result goes into the caller's context, not into its first slot. *)
LEMMA ResultStores ==
  ASSUME CallingConvention, ReturnStep
  PROVE  /\ value_stack' \in [StackIndexes -> Value]
         /\ \A a \in StackIndexes : a <= frames[Depth - 1].base => value_stack'[a] = value_stack[a]
         /\ heap' \in Seq(Seq(Value))
         /\ DOMAIN heap' = DOMAIN heap
         /\ \A n \in DOMAIN heap : Len(heap'[n]) = Len(heap[n]) /\ heap'[n][1] = heap[n][1]
<1> DEFINE caller == frames[Depth - 1]
           result == program.code[ip].dest
           v == Local(result)
<1>1. /\ Depth \in 2 .. Depth
      /\ Depth - 1 \in 1 .. Depth
      /\ v \in Value
      /\ Frame.ctx = OwnContext(Depth - 1)
      /\ Entered(Depth - 1)
  <2>1. Depth - 1 < Depth /\ Depth - 1 + 1 = Depth
    BY FrameFacts
  <2> QED
    BY <2>1, ReturnFacts DEF OwnContext, Entered, Frame, ReturnStep
<1>2. /\ value_stack \in [StackIndexes -> Value]
      /\ heap \in Seq(Seq(Value))
  BY StateFacts, HeapFacts
<1>3. /\ Frame.dest \in Nat \ {0}
      /\ Frame.dest \in 1 .. FrameSize(program, caller.entry) - 1
      /\ FrameSize(program, caller.entry) \in Nat
      /\ caller.base \in Nat
  <2>1. Frame.dest \in 1 .. FrameSize(program, caller.entry) - 1
    BY <1>1 DEF CallingConvention, ResumesInCaller, Frame
  <2>2. FrameSize(program, caller.entry) \in Nat /\ caller.base \in Nat
    BY <1>1, FrameFacts
  <2> QED
    BY <2>1, <2>2
<1>4. CASE result = 0
  BY <1>2, <1>4 DEF ReturnStep
<1>5. CASE result # 0 /\ IsStackFunction(program, caller.entry)
  <2>1. Frame.ctx = <<"stack", caller.base>>
    BY <1>1, <1>5 DEF CallingConvention, ContextsOwned
  <2>2. StoreSlot(Frame.ctx, Frame.dest, v)
    BY <1>5 DEF ReturnStep
  <2>3. /\ value_stack' = [value_stack EXCEPT ![caller.base + Frame.dest] = v]
        /\ heap' = heap
    BY <2>1, <2>2 DEF StoreSlot, OnStack
  <2> HIDE DEF v, caller
  <2>4. value_stack' \in [StackIndexes -> Value]
    BY <1>1, <1>2, <2>3
  <2>5. \A a \in StackIndexes : a <= caller.base => a # caller.base + Frame.dest
    BY <1>3, StackMaxAssumption DEF StackIndexes
  <2>6. \A a \in StackIndexes : a <= caller.base => value_stack'[a] = value_stack[a]
    BY <1>2, <2>3, <2>5
  <2> QED
    BY <1>2, <2>3, <2>4, <2>6 DEF caller
<1>6. CASE result # 0 /\ ~IsStackFunction(program, caller.entry)
  <2>1. /\ Frame.ctx \in HeapContexts
        /\ Len(heap[Frame.ctx[2]]) = FrameSize(program, caller.entry)
    BY <1>1, <1>6 DEF CallingConvention, ContextsOwned
  <2>2. StoreSlot(Frame.ctx, Frame.dest, v)
    BY <1>6 DEF ReturnStep
  <2>3. heap[Frame.ctx[2]] \in Seq(Value)
    BY <2>1, HeapContextFacts, HeapFacts
  <2>4. Frame.dest + 1 \in DOMAIN heap[Frame.ctx[2]]
    BY <1>3, <2>1, <2>3
  <2>5. LocalEffect
    BY <1>1, <1>3, <2>1, <2>2, <2>4, HeapStores
  <2>6. value_stack' = value_stack
    BY <2>1, <2>2, HeapContextFacts DEF StoreSlot
  <2> QED
    BY <2>5, <2>6 DEF LocalEffect
<1> QED
  BY <1>4, <1>5, <1>6

(* RET: what the linkage says is what the caller needs. *)
LEMMA ReturnSteps ==
  ASSUME CallingConvention, ReturnStep
  PROVE  CallingConvention'
<1>1. PICK d \in Nat : d = Depth - 1 /\ d > 0
  BY ReturnFacts, FrameFacts DEF ReturnStep
<1>2. /\ Depth = d + 1
      /\ Depth \in 2 .. Depth
      /\ d \in 1 .. Depth
      /\ d < Depth
      /\ \A k \in 1 .. d : k \in 1 .. Depth /\ k < Depth
      /\ \A k \in 2 .. d : k \in 2 .. Depth /\ k \in 1 .. d /\ k - 1 \in 1 .. d /\ k > 1
  <2>1. Depth \in Nat /\ d \in Nat /\ d > 0 /\ Depth = d + 1
    BY <1>1, FrameFacts
  <2>2. /\ Depth \in 2 .. Depth
        /\ d \in 1 .. Depth
        /\ d < Depth
        /\ \A k \in 1 .. d : k \in 1 .. Depth /\ k < Depth
    BY <2>1
  <2>3. \A k \in 2 .. d : k \in 2 .. Depth /\ k \in 1 .. d /\ k - 1 \in 1 .. d /\ k > 1
    BY <2>1
  <2> QED
    BY <2>1, <2>2, <2>3
<1>3. /\ ~Entering
      /\ status = "running"
      /\ call_depth' = d
      /\ stack_pointer' = ArgumentsStart(Depth)
      /\ base_pointer' = frames[d].base
      /\ context_object' = Frame.ctx
      /\ ip' = Frame.resume
      /\ frames' = SubSeq(frames, 1, d)
      /\ UNCHANGED <<program, status, fn_refs, output>>
  BY <1>1, ReturnFacts DEF ReturnStep, RecordReturn, Depth
<1>4. /\ value_stack' \in [StackIndexes -> Value]
      /\ \A a \in StackIndexes : a <= frames[d].base => value_stack'[a] = value_stack[a]
      /\ heap' \in Seq(Seq(Value))
      /\ DOMAIN heap' = DOMAIN heap
      /\ \A n \in DOMAIN heap : Len(heap'[n]) = Len(heap[n]) /\ heap'[n][1] = heap[n][1]
  BY <1>1, ResultStores
<1>5. /\ Depth' = d
      /\ frames' \in Seq(FrameRecord)
      /\ \A k \in 1 .. d : frames'[k] = frames[k]
  <2>1. frames \in Seq(FrameRecord) /\ Len(frames) = d + 1
    BY <1>2 DEF CallingConvention, FramesTypeOK, Depth
  <2>2. /\ frames' \in Seq(FrameRecord)
        /\ Len(frames') = d
        /\ \A k \in 1 .. d : frames'[k] = frames[k]
    BY <1>1, <1>3, <2>1
  <2> QED
    BY <2>2 DEF Depth
<1>6. /\ Frame' = frames[d]
      /\ d \in 1 .. d
  BY <1>1, <1>5 DEF Frame
<1>7. /\ Frame.resume \in Addresses(program) \ EntriesOf(program)
      /\ program.entry[Frame.resume] = frames[d].entry
      /\ ArgumentsStart(Depth) = ContextEnd(d) + program.height[Frame.resume]
  BY <1>1, <1>2 DEF CallingConvention, ResumesInCaller, Frame
<1>8. ~Entering'
  BY <1>3, <1>7, FrameFacts, AddressFacts DEF Entering
<1>9. \A k \in 1 .. d : Entered(k) /\ Entered(k)'
  BY <1>2, <1>8 DEF Entered
<1>10. /\ \A k \in 1 .. d : ContextEnd(k)' = ContextEnd(k)
       /\ \A k \in 1 .. d : ArgumentsStart(k)' = ArgumentsStart(k)
  BY <1>3, <1>5 DEF ContextEnd, ArgumentsStart
<1>11. \A k \in 1 .. d : OwnContext(k)' = OwnContext(k)
  <2>1. TAKE k \in 1 .. d
  <2>2. OwnContext(k) = frames[k + 1].ctx
    BY <1>2 DEF OwnContext
  <2>3. CASE k = d
    <3>1. OwnContext(k)' = context_object'
      BY <1>5, <2>3 DEF OwnContext
    <3>2. Frame = frames[k + 1]
      BY <1>2, <2>3 DEF Frame
    <3> QED
      BY <1>3, <2>2, <3>1, <3>2
  <2>4. CASE k # d
    <3>1. k < d /\ k + 1 \in 1 .. d
      BY <1>1, <2>4
    <3> QED
      BY <1>5, <2>2, <3>1 DEF OwnContext
  <2> QED
    BY <2>3, <2>4
<1>12. HeapContexts' = HeapContexts /\ MayBeParent' = MayBeParent
  BY <1>4 DEF HeapContexts, MayBeParent
<1>13. /\ frames[d].base \in Nat \ {0}
       /\ frames[d].base \in StackIndexes
       /\ \A a \in 0 .. frames[d].base : a \in StackIndexes /\ a <= frames[d].base
       /\ ArgumentsStart(Depth) \in StackIndexes
  <2>1. /\ frames[d].base \in Nat \ {0}
        /\ ArgumentsStart(Depth) \in Nat
        /\ ArgumentsStart(Depth) < Frame.base
        /\ frames[d].base < Frame.base
        /\ Frame.base \in Nat
    <3>1. /\ frames[d].base \in Nat \ {0}
          /\ Frame.base \in Nat
          /\ ArgumentsStart(Depth) \in Nat
          /\ Len(Frame.args) \in Nat
          /\ Len(Frame.linkage) \in Nat
          /\ Len(Frame.linkage) > 2
          /\ ArgumentsStart(Depth) + Len(Frame.args) = Frame.base - Len(Frame.linkage)
          /\ frames[d].base < Frame.base - 2
      BY <1>2, FrameOrder DEF Frame
    <3>2. PICK top, start, args, words, below \in Nat :
            /\ top = Frame.base
            /\ start = ArgumentsStart(Depth)
            /\ args = Len(Frame.args)
            /\ words = Len(Frame.linkage)
            /\ below = frames[d].base
      BY <3>1
    <3>3. start + args = top - words /\ words > 2 /\ below < top - 2
      BY <3>1, <3>2
    <3>4. start < top /\ below < top
      BY <3>3
    <3> QED
      BY <3>1, <3>2, <3>4
  <2>2. \A a \in 0 .. Frame.base : a \in StackIndexes
    BY <1>2, BelowBase
  <2> QED
    BY <2>1, <2>2
<1>14. \A k \in 1 .. d : value_stack'[frames[k].base] = value_stack[frames[k].base]
  <2>1. TAKE k \in 1 .. d
  <2>2. frames[k].base \in 0 .. frames[d].base
    <3>1. CASE k = d
      BY <1>13, <3>1
    <3>2. CASE k # d
      <4>1. k < d /\ k \in 1 .. Depth
        BY <1>1, <1>2, <3>2
      <4>2. frames[k].base \in Nat /\ frames[k].base < frames[d].base - 2
        BY <1>2, <4>1, FrameOrder
      <4> QED
        BY <1>13, <4>2
    <3> QED
      BY <3>1, <3>2
  <2> QED
    BY <1>4, <1>13, <2>2
<1>15. FramesTypeOK'
  <2>1. context_object' \in Context
    <3>1. Frame \in FrameRecord
      BY <1>2 DEF CallingConvention, FramesTypeOK, Frame, Depth
    <3> QED
      BY <1>3, <3>1 DEF FrameRecord
  <2>2. SharedTypeOK'
    BY <1>1, <1>3, <1>4, <1>7, <1>13, <2>1
       DEF CallingConvention, FramesTypeOK, SharedTypeOK, FnRef
  <2> QED
    BY <1>1, <1>5, <2>2 DEF FramesTypeOK
<1>16. RootStays'
  <2>1. 1 \in 1 .. d
    BY <1>1
  <2> QED
    BY <1>5, <2>1 DEF CallingConvention, RootStays, RootFrame
<1>17. RegistersMatchFrame'
  BY <1>3, <1>5, <1>6, <1>7, <1>8, <1>10 DEF RegistersMatchFrame
<1>18. LinkageKept'
  <2>1. value_stack'[0] = nullptr
    <3>1. 0 \in 0 .. frames[d].base
      BY <1>13
    <3> QED
      BY <1>4, <1>13, <3>1 DEF CallingConvention, LinkageKept
  <2>2. ASSUME NEW k \in 2 .. d
        PROVE  \A a \in 0 .. frames[k].base - 1 : value_stack'[a] = value_stack[a]
    <3> DEFINE base == frames[k].base
               last == frames[d].base
    <3>1. base \in Nat /\ last \in Nat
      BY <1>2, <1>13, FrameFacts
    <3>2. base <= last
      <4>1. CASE k = d
        BY <3>1, <4>1
      <4>2. CASE k # d
        <5>1. k < d /\ k \in 1 .. Depth
          BY <1>1, <1>2, <4>2
        <5>2. base < last - 2
          BY <1>2, <5>1, FrameOrder
        <5> HIDE DEF base, last
        <5> QED
          BY <3>1, <5>2
      <4> QED
        BY <4>1, <4>2
    <3>3. \A a \in 0 .. last : value_stack'[a] = value_stack[a]
      BY <1>4, <1>13
    <3> HIDE DEF base, last
    <3>4. \A a \in 0 .. base - 1 : a \in 0 .. last
      BY <3>1, <3>2
    <3> QED
      BY <3>3, <3>4 DEF base
  <2>3. ASSUME NEW k \in 2 .. d
        PROVE  LET f == frames'[k] IN
               /\ Len(f.linkage) > 2
               /\ \A j \in 2 .. Len(f.linkage) :
                    value_stack'[f.base - j] = f.linkage[Len(f.linkage) - j + 1]
               /\ value_stack'[f.base - 1] = uvalue(frames'[k - 1].base)
               /\ \A n \in 1 .. Len(f.args) :
                    value_stack'[ArgumentsStart(k)' + n - 1] = f.args[n]
    <3>1. frames'[k] = frames[k] /\ frames'[k - 1] = frames[k - 1]
          /\ ArgumentsStart(k)' = ArgumentsStart(k) /\ Entered(k) /\ k \in 2 .. Depth
      BY <1>2, <1>5, <1>9, <1>10
    <3>2. /\ \A a \in 0 .. frames[k].base - 2 : value_stack'[a] = value_stack[a]
          /\ value_stack'[frames[k].base - 1] = value_stack[frames[k].base - 1]
      <4>1. PICK base \in Nat \ {0} : base = frames[k].base
        BY <1>2, FrameFacts
      <4>2. base - 1 \in 0 .. base - 1 /\ \A a \in 0 .. base - 2 : a \in 0 .. base - 1
        OBVIOUS
      <4> QED
        BY <2>2, <4>1, <4>2
    <3>3. value_stack[frames[k].base - 1] = uvalue(frames[k - 1].base)
      BY <3>1 DEF CallingConvention, LinkageKept
    <3> QED
      BY <3>1, <3>2, <3>3, LinkageBelow
  <2>4. \A k \in 2 .. d : Entered(k)'
    BY <1>2, <1>9
  <2> QED
    BY <1>5, <2>1, <2>3, <2>4 DEF LinkageKept
<1>19. ResumesInCaller'
  <2>1. ASSUME NEW k \in 2 .. d
        PROVE  /\ frames'[k] = frames[k]
               /\ frames'[k - 1] = frames[k - 1]
               /\ ArgumentsStart(k)' = ArgumentsStart(k)
               /\ ContextEnd(k - 1)' = ContextEnd(k - 1)
    BY <1>2, <1>5, <1>10
  <2> QED
    BY <1>2, <1>3, <1>5, <2>1 DEF CallingConvention, ResumesInCaller
<1>20. FramesDisjoint'
  BY <1>2, <1>5, <1>10 DEF CallingConvention, FramesDisjoint
<1>21. ContextsOwned'
  <2>1. \A k \in 1 .. d : OwnContext(k) \in HeapContexts =>
          Len(heap'[OwnContext(k)[2]]) = Len(heap[OwnContext(k)[2]])
    BY <1>4, HeapContextFacts
  <2> QED
    BY <1>2, <1>3, <1>5, <1>9, <1>11, <1>12, <2>1 DEF CallingConvention, ContextsOwned
<1>22. NothingCapturesStack'
  <2>1. \A r \in DOMAIN fn_refs' : fn_refs'[r].parent \in HeapContexts'
    BY <1>3, <1>12 DEF CallingConvention, NothingCapturesStack
  <2>2. \A n \in DOMAIN heap' : Len(heap'[n]) > 0 /\ heap'[n][1] \in MayBeParent'
    BY <1>4, <1>12 DEF CallingConvention, NothingCapturesStack
  <2>3. ASSUME NEW k \in 1 .. d
        PROVE  /\ frames'[k].parent \in MayBeParent'
               /\ IsStackFunction(program', frames'[k].entry) =>
                    value_stack'[frames'[k].base] \in MayBeParent'
    BY <1>2, <1>3, <1>5, <1>9, <1>12, <1>14 DEF CallingConvention, NothingCapturesStack
  <2> QED
    BY <1>5, <2>1, <2>2, <2>3 DEF NothingCapturesStack
<1> QED
  BY <1>15, <1>16, <1>17, <1>18, <1>19, <1>20, <1>21, <1>22 DEF CallingConvention

-----------------------------------------------------------------------------
(* The invariant *)

(* What an instruction may do to the frames. *)
FrameStep ==
  \/ LocalStep
  \/ EnterStep
  \/ \E linkage \in Seq(Value) : CallStep(linkage)
  \/ ReturnStep
  \/ StopStep

(* An engine that does nothing else keeps the calling convention. *)
LEMMA FrameSteps ==
  ASSUME CallingConvention, FrameStep
  PROVE  CallingConvention'
BY LocalSteps, EnterSteps, CallSteps, ReturnSteps, StopSteps DEF FrameStep

(* The convention holds when an engine starts. *)
LEMMA StartCorrect ==
  ASSUME SharedInit, RecordStart
  PROVE  CallingConvention
<1>1. /\ program \in Programs
      /\ ip = 0
      /\ value_stack = [i \in StackIndexes |-> IF i = 0 THEN nullptr ELSE undef]
      /\ stack_pointer = 1
      /\ base_pointer = 0
      /\ call_depth = 0
      /\ context_object = nullptr
      /\ heap = << >>
      /\ fn_refs = << >>
      /\ output = << >>
      /\ status = "running"
      /\ frames = <<RootFrame>>
  BY DEF SharedInit, RecordStart
<1>2. /\ Depth = 1
      /\ Frame = RootFrame
      /\ frames[1] = RootFrame
  BY <1>1 DEF Depth, Frame
<1>3. 0 \in EntriesOf(program) /\ 0 \in Addresses(program) /\ program.entry[0] = 0
  BY <1>1, RootFacts, EntryFacts
<1>4. Entering
  BY <1>1, <1>3, EntryFacts DEF Entering
<1>5. ~Entered(1)
  BY <1>2, <1>4 DEF Entered
<1>6. FramesTypeOK
  <2>1. value_stack \in [StackIndexes -> Value]
    <3>1. nullptr \in Value /\ undef \in Value
      BY ConstructorsAreValues
    <3> QED
      BY <1>1, <3>1
  <2>2. 0 \in StackIndexes /\ 1 \in StackIndexes
    BY StackMaxAssumption DEF StackIndexes
  <2>3. nullptr \in Context
    BY DEF Context
  <2>4. SharedTypeOK
    BY <1>1, <1>3, <2>1, <2>2, <2>3 DEF SharedTypeOK
  <2>5. RootFrame \in FrameRecord
    BY <2>3 DEF RootFrame, FrameRecord
  <2>6. frames \in Seq(FrameRecord)
    BY <1>1, <2>5
  <2> QED
    BY <1>2, <2>4, <2>6 DEF FramesTypeOK
<1>7. RegistersMatchFrame
  BY <1>1, <1>2, <1>3, <1>4 DEF RegistersMatchFrame, RootFrame
<1>8. LinkageKept
  <2>1. value_stack[0] = nullptr
    BY <1>1, StackMaxAssumption DEF StackIndexes
  <2> QED
    BY <1>2, <2>1 DEF LinkageKept
<1>9. ResumesInCaller
  BY <1>2 DEF ResumesInCaller
<1>10. FramesDisjoint
  BY <1>2 DEF FramesDisjoint
<1>11. ContextsOwned
  BY <1>2, <1>5 DEF ContextsOwned
<1>12. NothingCapturesStack
  BY <1>1, <1>2, <1>5 DEF NothingCapturesStack, RootFrame, MayBeParent
<1> QED
  BY <1>2, <1>6, <1>7, <1>8, <1>9, <1>10, <1>11, <1>12 DEF CallingConvention, RootStays

-----------------------------------------------------------------------------
(* The history *)

(* A call adds the frame it promises to the history. *)
LEMMA CallHistory ==
  ASSUME CallingConvention, NEW linkage, CallStep(linkage)
  PROVE  /\ Depth' = Depth + 1
         /\ \A k \in 1 .. Depth : frames'[k] = frames[k]
         /\ frames'[Depth + 1] = CalledFrame(linkage)
         /\ Len(CalledFrame(linkage).args) = program.code[ip].op2
         /\ \A k \in 2 .. Depth' : k \in 2 .. Depth \/ k = Depth + 1
<1> DEFINE new == CalledFrame(linkage)
<1>1. frames' = Append(frames, new)
  BY DEF CallStep, RecordCall
<1>2. Depth \in Nat /\ Depth = Len(frames) /\ Depth' = Len(frames')
  BY FrameFacts DEF Depth
<1>3. program.code[ip].op2 \in Nat
  BY InstructionFacts
<1>4. Len(new.args) = program.code[ip].op2
  BY <1>3 DEF CalledFrame
<1> HIDE DEF new
<1>5. frames \in Seq(FrameRecord \cup {new})
  BY DEF CallingConvention, FramesTypeOK
<1>6. /\ Len(frames') = Len(frames) + 1
      /\ \A k \in 1 .. Len(frames) : frames'[k] = frames[k]
      /\ frames'[Len(frames) + 1] = new
  BY <1>1, <1>5, AppendProperties
<1> QED
  BY <1>2, <1>4, <1>6 DEF new

(* A return removes the last one. *)
LEMMA ReturnHistory ==
  ASSUME CallingConvention, ReturnStep
  PROVE  /\ Depth' = Depth - 1
         /\ \A k \in 1 .. Depth' : frames'[k] = frames[k]
         /\ \A k \in 2 .. Depth' : k \in 1 .. Depth' /\ k \in 2 .. Depth
<1>1. PICK d \in Nat : d = Depth - 1 /\ d > 0 /\ Depth = d + 1
  BY FrameFacts DEF ReturnStep
<1>2. frames \in Seq(FrameRecord) /\ Len(frames) = d + 1
  BY <1>1 DEF CallingConvention, FramesTypeOK, Depth
<1>3. frames' = SubSeq(frames, 1, d)
  BY <1>1 DEF ReturnStep, RecordReturn, Depth
<1>4. Len(frames') = d /\ \A k \in 1 .. d : frames'[k] = frames[k]
  BY <1>1, <1>2, <1>3
<1> QED
  BY <1>1, <1>4 DEF Depth

(* What is stored into a slot of an entered activation is found there. *)
LEMMA StoredSlots ==
  ASSUME CallingConvention, NEW k \in 1 .. Depth, Entered(k),
         NEW c, c = OwnContext(k),
         NEW n \in 0 .. FrameSize(program, frames[k].entry) - 1,
         NEW v, StoreSlot(c, n, v)
  PROVE  Slot(c, n)' = v
<1>1. /\ frames[k].base \in Nat
      /\ FrameSize(program, frames[k].entry) \in Nat
      /\ n \in Nat
  BY FrameFacts
<1>2. CASE IsStackFunction(program, frames[k].entry)
  <2>1. c = <<"stack", frames[k].base>>
    BY <1>2 DEF CallingConvention, ContextsOwned
  <2>2. value_stack' = [value_stack EXCEPT ![c[2] + n] = v]
    BY <2>1 DEF StoreSlot, OnStack
  <2>3. c[2] + n \in StackIndexes
    <3> DEFINE index == frames[k].base + n
    <3>1. index \in Nat /\ index < ContextEnd(k)
      BY <1>1, <1>2 DEF ContextEnd, StackWords
    <3>2. ContextEnd(k) <= stack_pointer /\ ContextEnd(k) \in Nat
      <4>1. CASE k = Depth
        <5>1. ~Entering
          BY <4>1, FrameFacts DEF Entered
        <5> QED
          BY <4>1, <5>1, FrameFacts, StateFacts
      <4>2. CASE k # Depth
        <5>1. k < Depth
          BY <4>2, FrameFacts
        <5>2. ContextEnd(k) < Frame.base /\ Frame.base <= stack_pointer /\ Frame.base \in Nat
          BY <5>1, BelowBase
        <5>3. ContextEnd(k) \in Nat
          BY FrameFacts
        <5> QED
          BY <5>2, <5>3, StateFacts
      <4> QED
        BY <4>1, <4>2
    <3>3. index \in StackIndexes
      <4> HIDE DEF index
      <4> QED
        BY <3>1, <3>2, StateFacts, StackMaxAssumption DEF StackIndexes
    <3> QED
      BY <2>1, <3>3
  <2>4. value_stack'[c[2] + n] = v
    BY <2>2, <2>3, StateFacts
  <2> QED
    BY <2>1, <2>4 DEF Slot, OnStack
<1>3. CASE ~IsStackFunction(program, frames[k].entry)
  <2>1. c \in HeapContexts /\ Len(heap[c[2]]) = FrameSize(program, frames[k].entry)
    BY <1>3 DEF CallingConvention, ContextsOwned
  <2>2. heap' = [heap EXCEPT ![c[2]][n + 1] = v] /\ ~OnStack(c)
    BY <2>1, HeapContextFacts DEF StoreSlot
  <2>3. c[2] \in DOMAIN heap /\ heap[c[2]] \in Seq(Value)
    BY <2>1, HeapContextFacts, HeapFacts
  <2>4. n + 1 \in DOMAIN heap[c[2]]
    BY <1>1, <2>1, <2>3
  <2>5. heap'[c[2]][n + 1] = v
    BY <2>2, <2>3, <2>4
  <2> QED
    BY <2>2, <2>5 DEF Slot
<1> QED
  BY <1>2, <1>3

=============================================================================
