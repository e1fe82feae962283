------------------------------- MODULE MCJit -------------------------------
(* The JIT: its native and value stacks on all programs, its agreement     *)
(* with ActivationMachine on those where JitAgrees, and a program that     *)
(* shows the difference on the others.                                     *)
EXTENDS JitFrames, LexicalScopes, IntegerArithmetic, JitRefinement, Translation

Ints == {-128, -1, 0, 3}
Decs == {-6, 0, 8}

(* var n: int = 0  var u1: int ... var u14: int                            *)
(* var inc = fun() { n = n + 1 }  inc()  print(n)                          *)
(* var flag = true  var r = 3 < 2  if (flag) { print(1) } else { print(2) } *)
Differing ==
  LET inc == Procedure(<< >>, Unused(14) \o <<Do(Increment("n"))>>)
  IN  <<DeclareAs("n", AnInt, IntLiteral(0))>> \o Unused(14)
        \o <<Declare("inc", Lambda(inc)), Do(CallOf("inc", << >>)), Show(Var("n")),
             Declare("flag", BooleanLiteral(1)),
             Declare("r", Operation("lt", IntLiteral(3), IntLiteral(2))),
             Choose(Var("flag"), <<Show(IntLiteral(1))>>, <<Show(IntLiteral(2))>>)>>

SamplePrograms ==
  LET trees ==
        TestFiles \cup
        {Counter, Differing, Closures, UnboundedHeap, Digging, NullCallee, NativeCallback,
         Loop(5), Flag(0), Flag(1), StaleComparison}
          \cup {Recursive(n) : n \in 0 .. 3}
          \cup {Callback(k) : k \in 1 .. 2}
          \cup {NestedArguments(x, y) : x \in {0, 5}, y \in {3, 4}}
          \cup {UnboundedLeaf(unused) : unused \in {0, 1, 2, 7}}
      calculations ==
        {Calculation(o, MovInt(m, 2), MovInt(n, 3)) :
           o \in IntArithmetic \cup IntComparisons, m \in Ints, n \in {-1, 0, 3}}
          \cup {Calculation(o, MovDec(x, 2), MovDec(8, 3)) :
                  o \in DecimalArithmetic \cup DecimalComparisons, x \in Decs}
          \cup {UnaryCalculation("NEG_INT", MovInt(3, 2))}
  IN  {Compiled(t) : t \in trees} \cup calculations \cup {Printing}

(* A name of its own, so that TLC keeps the set instead of compiling it    *)
(* for every state that looks into it.                                     *)
MCPrograms == LET programs == SamplePrograms IN programs

(* The difference *)
DifferingPrograms == LET translated == Translated(Differing) IN {translated}

=============================================================================
