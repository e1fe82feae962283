----------------------------- MODULE MCGenerator -----------------------------
(***************************************************************************)
(* Compiled programs, run by the interpreter, against the meaning of the   *)
(* sources they were compiled from.  The sources leave out shapes for      *)
(* which the compiler is known to differ; Defective has seven of those.    *)
(***************************************************************************)
EXTENDS TypeSoundness, Translation

Typed == INSTANCE TypedPrograms

RECURSIVE Parts(_)
Parts(e) ==
  {e} \cup (IF e.kind = "binary" THEN Parts(e.left) \cup Parts(e.right) ELSE {})
IsVariable(e) == e.kind = "identifier"

-----------------------------------------------------------------------------
(* Conditions.  same prints and returns its parameter, so that the output  *)
(* shows what was evaluated.                                               *)

A == Var("a")
B == Var("b")
SameB == CallOf("same", <<B>>)
Atoms == {A, B, SameB}
Logic == {"and", "or"}

Conditions ==
  {Operation(o1, Operation(o2, x, y), z) : o1, o2 \in Logic, x, y, z \in Atoms}
    \cup {Operation(o1, x, Operation(o2, y, z)) : o1, o2 \in Logic, x, y, z \in Atoms}

(* An && whose left operand is computed and whose right one is a variable. *)
IsLazyAnd(e) ==
  e.kind = "binary" /\ e.op = "and" /\ ~IsVariable(e.left) /\ IsVariable(e.right)

(* fun same(x: boolean): boolean { print(x) return x }                     *)
(* var a = .. var b = .. var r = e print(r)                                *)
(* if (e) { print(1) } else { print(2) } a = e print(a)                    *)
ConditionTree(e, a, b) ==
  LET same == Function(<<Argument("x", ABoolean)>>, ABoolean,
                       <<Show(Var("x")), Returning(Var("x"))>>)
      assignment == <<Do(Assigned("a", e)), Show(A)>>
  IN  <<Define("same", same), Declare("a", BooleanLiteral(a)), Declare("b", BooleanLiteral(b)),
        Declare("r", e), Show(Var("r")),
        Choose(e, <<Show(IntLiteral(1))>>, <<Show(IntLiteral(2))>>)>>
      \o IF A \in Parts(e) THEN << >> ELSE assignment

ConditionTrees ==
  {ConditionTree(e, a, b) :
     e \in {c \in Conditions : \A part \in Parts(c) : ~IsLazyAnd(part)}, a, b \in 0 .. 1}

-----------------------------------------------------------------------------
(* Arithmetic, with decimals among the ints and a call that changes n.     *)

N == Var("n")
D == Var("d")
Two == IntLiteral(2)
AddTwo == CallOf("add", <<Two>>)
Operands == {N, D, Two, AddTwo, Negated(N)}

Sums ==
  {Operation(o, Operation("sub", x, y), z) : o \in {"add", "mul"}, x, y, z \in Operands}
    \cup {Operation(o, x, Operation("sub", y, z)) : o \in {"add", "mul"}, x, y, z \in Operands}
Orders == {Operation(o, Operation("sub", x, y), z) :
             o \in {"lt", "gte", "eq"}, x \in {N, D}, y, z \in {N, D, AddTwo}}

(* n is read as an operand after the call in a later operand. *)
ReadsLate(e) ==
  \E part \in Parts(e) : part.kind = "binary" /\ part.left = N /\ AddTwo \in Parts(part.right)

(* var n = 3 var d = 1.5                                                   *)
(* fun add(k: int): int { n = n + k return n }                             *)
(* var r = e print(r) n = e print(n) var x: decimal = e print(x)           *)
ArithmeticTree(e) ==
  LET add == Function(<<IntArgument("k")>>, AnInt,
               <<Do(Assigned("n", Operation("add", N, Var("k")))), Returning(N)>>)
      asInt == <<Do(Assigned("n", e)), Show(N), DeclareAs("x", ADecimal, e), Show(Var("x"))>>
  IN  <<Declare("n", IntLiteral(3)), Declare("d", DecimalLiteral(6)), Define("add", add),
        Declare("r", e), Show(Var("r"))>>
      \o IF e \in Orders \/ D \in Parts(e) THEN << >> ELSE asInt

ArithmeticTrees == {ArithmeticTree(e) : e \in {s \in Sums \cup Orders : ~ReadsLate(s)}}

-----------------------------------------------------------------------------

ControlTrees ==
  TestFiles \cup
  {Counter, Closures, Shadowing, NestedLoops, Primes(6), Flag(0), Flag(1), StaleComparison,
   Loop(5), Callback(1), NestedArguments(5, 3), Recursive(0), Recursive(2)}

(* Programs that do not come to their end, and opcodes no construct of the *)
(* present language uses: they do nothing, or move a value over the stack. *)
DividingByZero == <<Show(Operation("div", IntLiteral(1), IntLiteral(0)))>>
Others ==
  LET moved == Loaded(Merge(<<
        Enter("FN_ENTER_HEAP", "root", 5),
        <<MovInt(3, 2), Instr("SET_IN_OBJECT", 0, 0, 0), Instr("GET_IN_OBJECT", 0, 0, 0),
          Instr("PUSH", 2, 0, 0), Instr("POP", 0, 0, 3)>>,
        PrintSlot(3, 4), Ending>>))
  IN  {Compiled(NullCallee), Compiled(DividingByZero), [meaning |-> <<ivalue(3)>>] @@ moved}

SamplePrograms ==
  LET trees == ConditionTrees \cup ArithmeticTrees \cup ControlTrees \cup Typed!Accepted
  IN  {Translated(t) : t \in trees} \cup Others

(* A name of its own, so that TLC keeps the set instead of compiling it    *)
(* for every state that looks into it.                                     *)
MCPrograms == LET programs == SamplePrograms IN programs

-----------------------------------------------------------------------------
(* One program of what the generator gets wrong, with one print for each.  *)

(* var n: int                                                              *)
(* var add = fun(a: int, b: int) { n = n + a print(b) }                    *)
(* var half = fun(p: decimal): decimal { return 0.5 * p }                  *)
(* var name = fun <T: Any> (p: T): String { return "b" }                   *)
(* var same = fun <T: Any> (p: T): T { return p }                          *)
(* var a = true  var b = false  a = a && b                                 *)
(* var d: decimal = 3                                                      *)
(* print(a) add(1, 5) print(d) print(half(3)) print(2.0 > 0.5)             *)
(* print(same<decimal>(3) + 0.5) print(name(3) + "b")                      *)
Defective ==
  LET T == Described("T")
      anyT == <<Argument("T", Anything)>>
      p == <<Argument("p", T)>>
      P == Var("p")
      three == IntLiteral(3)
      half == DecimalLiteral(2)
      text == StringLiteral("b")
      halving == Function(<<Argument("p", ADecimal)>>, ADecimal,
                          <<Returning(Operation("mul", half, P))>>)
      naming == GenericFunction(anyT, p, AString, <<Returning(text)>>)
      same == GenericFunction(anyT, p, T, <<Returning(P)>>)
      add == Procedure(<<IntArgument("a"), IntArgument("b")>>,
               <<Do(Assigned("n", Operation("add", N, A))), Show(B)>>)
      sameDecimal == CallingWith(<<ADecimal>>, Var("same"), <<three>>)
  IN  <<DeclareAs("n", AnInt, Nothing), Declare("add", Lambda(add)),
        Declare("half", Lambda(halving)), Declare("name", Lambda(naming)),
        Declare("same", Lambda(same)),
        Declare("a", BooleanLiteral(1)), Declare("b", BooleanLiteral(0)),
        Do(Assigned("a", Operation("and", A, B))),
        DeclareAs("d", ADecimal, three),
        Show(A), Do(CallOf("add", <<IntLiteral(1), IntLiteral(5)>>)), Show(D),
        Show(CallOf("half", <<three>>)),
        Show(Operation("gt", DecimalLiteral(8), half)),
        Show(Operation("add", sameDecimal, half)),
        Show(Operation("add", CallOf("name", <<three>>), text))>>
DefectivePrograms == LET translated == Translated(Defective) IN {translated}

=============================================================================
