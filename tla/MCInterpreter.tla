---------------------------- MODULE MCInterpreter ----------------------------
(* The interpreter: the calling convention, what it promises, and what it  *)
(* computes, on programs that call, recurse, capture, run out of stack,    *)
(* compute with every opcode and end abnormally.                           *)
EXTENDS CallFrames, LexicalScopes, IntegerArithmetic, InterpreterRefinement, SourcePrograms

Ints == {-128, -1, 0, 3}
Decs == {-6, 0, 8}
(* Applied to an int whose bits are those of no number. *)
Odd == {"DIV_DECIMAL", "MOD_DECIMAL", "CMP_GT_DECIMAL"}

SamplePrograms ==
  LET calculations ==
        {Calculation(o, MovInt(m, 2), MovInt(n, 3)) :
           o \in IntArithmetic \cup IntComparisons, m, n \in Ints}
          \cup {Calculation(o, MovDec(x, 2), MovDec(y, 3)) :
                  o \in DecimalArithmetic \cup DecimalComparisons, x, y \in Decs}
          \cup {Calculation(o, MovInt(-1, 2), MovDec(8, 3)) : o \in Odd}
          \cup {Calculation(o, MovDec(8, 2), MovInt(-1, 3)) : o \in Odd}
          \cup {UnaryCalculation(o, MovInt(n, 2)) :
                  o \in {"NEG_INT", "CAST_DECIMAL"}, n \in Ints}
          \cup {UnaryCalculation("NEG_DECIMAL", MovDec(x, 2)) : x \in Decs}
      trees ==
        TestFiles \cup {Counter, Closures, UnboundedHeap, Digging, Loop(5), Flag(0), Flag(1),
                        NullCallee, NativeCallback}
          \cup {Recursive(n) : n \in 0 .. 3}
          \cup {Callback(k) : k \in 1 .. 2}
          \cup {NestedArguments(x, y) : x \in {0, 5}, y \in {3, 4}}
          \cup {UnboundedLeaf(unused) : unused \in 0 .. 7}
  IN  calculations \cup {Printing} \cup {Compiled(t) : t \in trees}

(* A name of its own, so that TLC keeps the set instead of compiling it    *)
(* for every state that looks into it.                                     *)
MCPrograms == LET programs == SamplePrograms IN programs

(* A recursion whose linkage fills the stack beyond the last word. *)
Overflowing == LET tree == UnboundedLeaf(2) IN {Compiled(tree)}

=============================================================================
