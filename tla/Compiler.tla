------------------------------- MODULE Compiler -------------------------------
(***************************************************************************)
(* The driver (src/compiler/compiler.cpp and src/main.cpp): a syntax tree  *)
(* goes through the type extractor and the code generator, once and in     *)
(* this order, and an engine loads what they made of it.  Every phase may  *)
(* end the process.                                                        *)
(***************************************************************************)
EXTENDS SourcePrograms

(* What each phase makes of a source program, as far as the compiler gets. *)
CompilationOf(source) ==
  LET extracted == Extractor!ExtractAndRegister(source)
      generated == Generated(extracted.root)
      refused == [source |-> source, verdict |-> extracted.verdict, failed |-> FALSE,
                  code |-> << >>]
  IN  IF extracted.verdict # "accepted" THEN refused
      ELSE [refused EXCEPT !.failed = generated.failed, !.code = CodeOf(generated)]

CONSTANT Compilations     \* the CompilationOf some source programs

VARIABLES
  compilation,   \* the one at work
  phase,         \* which phase comes next, or how the compiler ended
  image          \* what an engine runs

compiler == <<compilation, phase, image>>

Init ==
  /\ compilation \in Compilations
  /\ phase = "extract"
  /\ image = Nothing

(* extractAndRegisterTypeMetadata *)
ExtractTypes ==
  /\ phase = "extract"
  /\ phase' = CASE compilation.verdict = "accepted" -> "generate"
                [] compilation.verdict = "refused" -> "refused by the extractor"
                [] compilation.verdict = "undefined" -> "undefined"
  /\ UNCHANGED <<compilation, image>>

(* generateByteCode, which may call errorExit *)
GenerateByteCode ==
  /\ phase = "generate"
  /\ phase' = IF compilation.failed THEN "refused by the generator" ELSE "load"
  /\ UNCHANGED <<compilation, image>>

(* vm_interpret or vm_run *)
Load ==
  /\ phase = "load"
  /\ image' = Loaded(compilation.code)
  /\ phase' = "run"
  /\ UNCHANGED compilation

Next == ExtractTypes \/ GenerateByteCode \/ Load

Spec == Init /\ [][Next]_compiler

-----------------------------------------------------------------------------

(* What an engine is given is well formed, the assumption everything about *)
(* the engines rests on: control stays in its function, slots are in the   *)
(* frame, operand stacks agree where control meets, and a function in      *)
(* which a closure is made is not a leaf (bytecode_generator.cpp).         *)
ImagesWellFormed == phase = "run" => WellFormed(image) /\ WellScoped(image)

(* A program is refused or compiled, whatever it is                        *)
(* (resolveGenericType, type.cpp:142).                                     *)
CompilerDefined == phase # "undefined"

(* Jumps that are in no loop of the text, functions in between or not.     *)
RECURSIVE Stray(_), StrayIn(_), StrayExpression(_)
StrayExpression(e) ==
  CASE e.kind = "function" -> Stray(e.function.block)
    [] e.kind \in {"binary", "assign", "dot"} -> StrayExpression(e.left) \/ StrayExpression(e.right)
    [] e.kind \in {"negate", "not"} -> StrayExpression(e.right)
    [] e.kind = "call" -> \/ StrayExpression(e.left)
                          \/ \E k \in DOMAIN e.params : StrayExpression(e.params[k])
    [] OTHER -> FALSE
StrayIn(st) ==
  CASE st.kind \in {"break", "continue"} -> TRUE
    [] st.kind = "if" -> StrayExpression(st.expression) \/ Stray(st.then) \/ Stray(st.else)
    [] st.kind = "function" -> Stray(st.function.block)
    [] st.kind \in {"variable", "expression", "return"} -> StrayExpression(st.expression)
    [] OTHER -> FALSE
Stray(block) == \E k \in DOMAIN block : StrayIn(block[k])

(* The generator, which keeps its loops on a stack, refuses the programs   *)
(* with a jump outside of every loop, and no other program that the        *)
(* extractor has let through (visitBreak, visitContinue).                  *)
StrayJumpsRefused ==
  /\ phase \in {"load", "run"} => ~Stray(compilation.source)
  /\ phase = "refused by the generator" => Stray(compilation.source)

=============================================================================
