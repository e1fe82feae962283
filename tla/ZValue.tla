------------------------------- MODULE ZValue -------------------------------
(***************************************************************************)
(* The machine word of the virtual machine and the data half of the        *)
(* opcodes (include/vm/vm.h, src/vm/vm_shared_inline.cpp).                 *)
(*                                                                         *)
(* The code stores every value in an eight byte union: a primitive keeps   *)
(* its type in the low half and its payload in the high half, a pointer    *)
(* fills both halves.  Here a word is a pair <<tag, payload>>; what the    *)
(* union lets the code confuse (reading the high half of a pointer, or of  *)
(* a float as an int) is kept by HighWords.                                *)
(*                                                                         *)
(*  - INT_MAX bounds the payload of an int; arithmetic wraps around it.    *)
(*  - A decimal (a float) is a whole number of 1/DecimalUnit: exact for    *)
(*    the sums, products and comparisons the checked programs make.  The   *)
(*    negative zero is a word of its own; all infinities and NaNs are the  *)
(*    one word NonFinite, and what depends on which of them it is may come *)
(*    out either way.                                                      *)
(*  - Half a pointer is an unspecified number, one of Unspecified.         *)
(***************************************************************************)
EXTENDS Integers, Sequences

CONSTANT INT_MAX
ASSUME IntMaxAssumption == INT_MAX \in Nat \ {0}

DecimalUnit == 4
Unspecified == {0, 1}

Tag == {"int", "dec", "bool", "null", "word", "fnref", "code", "stack", "heap",
        "negzero", "nonfinite", "undef"}
Value == (Tag \X Int) \cup ({"str"} \X Seq(STRING))

-----------------------------------------------------------------------------
(* Constructors *)

(* The int32_t truncation every int result goes through. *)
Wrap(n) == ((n + INT_MAX + 1) % (2 * (INT_MAX + 1))) - (INT_MAX + 1)

uvalue(n) == <<"word", n>>
ivalue(n) == <<"int", Wrap(n)>>
nvalue == <<"null", 0>>
bvalue(b) == <<"bool", IF b THEN 1 ELSE 0>>
dvalue(d) == <<"dec", d>>
svalue(s) == <<"str", s>>
NegativeZero == <<"negzero", 0>>
NonFinite == <<"nonfinite", 0>>
undef == <<"undef", 0>>          \* a word nobody has written yet
nullptr == uvalue(0)

(* object_manager_is_null looks at the three low bits only. *)
IsNull(v) == v[1] = "null"

-----------------------------------------------------------------------------
(* Reading a word as an int or as a float *)

(* The int with the bits of a float: it orders like the float while that   *)
(* is positive, and it exceeds every decimal the models use.               *)
MinNormalBits == 8388608
FloatBits(d) == IF d = 0 THEN 0
                ELSE IF d > 0 THEN MinNormalBits + d
                ELSE MinNormalBits - d - 2147483647 - 1
NegativeZeroBits == -2147483647 - 1
(* The infinities, and the quiet NaN with either sign. *)
NonFiniteBits == {2139095040, -8388608, 2143289344, -4194304}

(* arithmetic_int_value: the possible values of the high half of a word.   *)
(* The tag of null has a high half, too, which is 0 in nvalue.             *)
HighWords(v) ==
  CASE v[1] \in {"int", "bool", "null"} -> {v[2]}
    [] v[1] = "word" -> {0}
    [] v[1] = "dec" -> {FloatBits(v[2])}
    [] v[1] = "negzero" -> {NegativeZeroBits}
    [] v[1] = "nonfinite" -> NonFiniteBits
    [] OTHER -> Unspecified

AnyFloat == {dvalue(-1), NegativeZero, dvalue(0), dvalue(1), NonFinite}

(* The floats with the bits of an int: a small one is a denormal, below    *)
(* the unit of the model; a small negative one is an infinity or a NaN.    *)
FloatsOfBits(n) ==
  IF 0 <= n /\ n < MinNormalBits THEN {dvalue(0)}
  ELSE IF -MinNormalBits <= n /\ n < 0 THEN {NonFinite}
  ELSE AnyFloat

(* arithmetic_decimal_value: the floats the high half of a word may be.    *)
(* That of a pointer has the bits of a small int.                          *)
Decimals(v) ==
  CASE v[1] \in {"dec", "negzero", "nonfinite"} -> {v}
    [] v[1] \in {"int", "bool", "null"} -> FloatsOfBits(v[2])
    [] v[1] = "undef" -> AnyFloat
    [] OTHER -> {dvalue(0)}

-----------------------------------------------------------------------------
(* What the arithmetic and comparison opcodes compute.  An operator yields *)
(* the set of results the build can produce; the empty set is a trap.      *)

IntArithmetic == {"ADD_INT", "SUB_INT", "MUL_INT", "DIV_INT", "MOD_INT"}
DecimalArithmetic == {"ADD_DECIMAL", "SUB_DECIMAL", "MUL_DECIMAL",
                      "DIV_DECIMAL", "MOD_DECIMAL"}
IntComparisons == {"CMP_EQ", "CMP_NEQ", "CMP_GT_INT", "CMP_LT_INT",
                   "CMP_GTE_INT", "CMP_LTE_INT"}
DecimalComparisons == {"CMP_GT_DECIMAL", "CMP_LT_DECIMAL",
                       "CMP_GTE_DECIMAL", "CMP_LTE_DECIMAL"}
Comparisons == IntComparisons \cup DecimalComparisons
BinaryOpcodes == IntArithmetic \cup DecimalArithmetic \cup {"ADD_STRING"}
                   \cup Comparisons
UnaryOpcodes == {"NEG_INT", "NEG_DECIMAL", "CAST_DECIMAL"}

Magnitude(n) == IF n < 0 THEN -n ELSE n

(* Broken: a quotient that rounds down. *)
FloorQuotient(m, n) == IF n < 0 THEN (-m) \div (-n) ELSE m \div n

(* C division truncates towards zero, the remainder has the dividend's sign. *)
Quotient(m, n) == IF (m < 0) = (n < 0) THEN Magnitude(m) \div Magnitude(n)
                  ELSE -(Magnitude(m) \div Magnitude(n))
Remainder(m, n) == m - n * Quotient(m, n)

(* idiv traps on a zero divisor and when the quotient does not fit. *)
Traps(m, n) == n = 0 \/ (m = -INT_MAX - 1 /\ n = -1)

IntResults(op, m, n) ==
  CASE op = "ADD_INT" -> {m + n}
    [] op = "SUB_INT" -> {m - n}
    [] op = "MUL_INT" -> {m * n}
    [] op = "DIV_INT" -> IF Traps(m, n) THEN {} ELSE {Quotient(m, n)}
    [] op = "MOD_INT" -> IF Traps(m, n) THEN {} ELSE {Remainder(m, n)}

(* Finite floats, as words: the payload of either zero is 0. *)
Exact(op, x, y) ==
  CASE op = "ADD_DECIMAL" -> x + y
    [] op = "SUB_DECIMAL" -> x - y
    [] op = "MUL_DECIMAL" -> (x * y) \div DecimalUnit
    [] op = "DIV_DECIMAL" -> Quotient(x * DecimalUnit, y)
    [] op = "MOD_DECIMAL" -> Remainder(x, y)

(* The sign of a result that is zero. *)
IsNegative(a) == a = NegativeZero \/ a[2] < 0
ZeroIsNegative(op, a, b) ==
  \/ op = "ADD_DECIMAL" /\ IsNegative(a) /\ IsNegative(b)
  \/ op = "SUB_DECIMAL" /\ IsNegative(a) /\ ~IsNegative(b)
  \/ op \in {"MUL_DECIMAL", "DIV_DECIMAL"} /\ ~(IsNegative(a) <=> IsNegative(b))
  \/ op = "MOD_DECIMAL" /\ IsNegative(a)

DecimalResult(op, a, b) ==
  IF b[2] = 0 /\ op \in {"DIV_DECIMAL", "MOD_DECIMAL"} THEN NonFinite
  ELSE IF Exact(op, a[2], b[2]) = 0 /\ ZeroIsNegative(op, a, b) THEN NegativeZero
  ELSE dvalue(Exact(op, a[2], b[2]))

(* An infinite divisor leaves a zero, or the dividend. *)
NonFiniteResults(op, a) ==
  {NonFinite} \cup
  (IF a # NonFinite /\ op = "DIV_DECIMAL" THEN {dvalue(0), NegativeZero}
   ELSE IF a # NonFinite /\ op = "MOD_DECIMAL" THEN {a}
   ELSE {})

DecimalResults(op, a, b) ==
  IF NonFinite \in {a, b} THEN NonFiniteResults(op, a) ELSE {DecimalResult(op, a, b)}

Negation(a) ==
  IF a = NonFinite THEN NonFinite
  ELSE IF a = dvalue(0) THEN NegativeZero
  ELSE dvalue(-a[2])

IntCompare(op, m, n) ==
  CASE op = "CMP_EQ" -> m = n
    [] op = "CMP_NEQ" -> m # n
    [] op = "CMP_GT_INT" -> m > n
    [] op = "CMP_LT_INT" -> m < n
    [] op = "CMP_GTE_INT" -> m >= n
    [] op = "CMP_LTE_INT" -> m <= n

DecimalCompare(op, x, y) ==
  CASE op = "CMP_LT_DECIMAL" -> x < y
    [] op = "CMP_GTE_DECIMAL" -> x >= y
    [] op = "CMP_LTE_DECIMAL" -> x <= y

(* CMP_GT_DECIMAL compares the left float with the BITS of the right one:  *)
(* x / DecimalUnit > n, written without a product that could overflow.     *)
FloatExceedsInt(x, n) == (x - 1) \div DecimalUnit >= n

IntOutcomes(op, v1, v2) ==
  {ivalue(r) : r \in UNION {IntResults(op, m, n) :
                               m \in HighWords(v1), n \in HighWords(v2)}}
DecimalOutcomes(op, v1, v2) ==
  UNION {DecimalResults(op, a, b) : a \in Decimals(v1), b \in Decimals(v2)}
IntComparisonOutcomes(op, v1, v2) ==
  {bvalue(IntCompare(op, m, n)) : m \in HighWords(v1), n \in HighWords(v2)}
Either == {bvalue(TRUE), bvalue(FALSE)}
DecimalGreater(a, n) == IF a = NonFinite THEN Either ELSE {bvalue(FloatExceedsInt(a[2], n))}
DecimalComparison(op, a, b) ==
  IF NonFinite \in {a, b} THEN Either ELSE {bvalue(DecimalCompare(op, a[2], b[2]))}
DecimalGreaterOutcomes(v1, v2) ==
  UNION {DecimalGreater(a, n) : a \in Decimals(v1), n \in HighWords(v2)}
DecimalComparisonOutcomes(op, v1, v2) ==
  UNION {DecimalComparison(op, a, b) : a \in Decimals(v1), b \in Decimals(v2)}
Concatenation(v1, v2) ==
  IF v1[1] = "str" /\ v2[1] = "str" THEN {svalue(v1[2] \o v2[2])} ELSE {}

BinaryResults(op, v1, v2) ==
  CASE op \in IntArithmetic -> IntOutcomes(op, v1, v2)
    [] op \in DecimalArithmetic -> DecimalOutcomes(op, v1, v2)
    [] op = "ADD_STRING" -> Concatenation(v1, v2)
    [] op \in IntComparisons -> IntComparisonOutcomes(op, v1, v2)
    [] op = "CMP_GT_DECIMAL" -> DecimalGreaterOutcomes(v1, v2)
    [] OTHER -> DecimalComparisonOutcomes(op, v1, v2)

UnaryResults(op, v) ==
  CASE op = "NEG_INT" -> {ivalue(-m) : m \in HighWords(v)}
    [] op = "NEG_DECIMAL" -> {Negation(a) : a \in Decimals(v)}
    [] op = "CAST_DECIMAL" -> {dvalue(m * DecimalUnit) : m \in HighWords(v)}

=============================================================================
