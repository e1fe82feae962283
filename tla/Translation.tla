----------------------------- MODULE Translation -----------------------------
(***************************************************************************)
(* Source programs, compiled and run by an engine: what the compiler and   *)
(* the engine promise together.                                            *)
(***************************************************************************)
EXTENDS VMShared, SourceSemantics, SourcePrograms

(* A program that knows what it should print. *)
Translated(block) == [meaning |-> Meaning(block)] @@ Compiled(block)

(* A negative zero is the number zero. *)
Meant(v) == IF v = NegativeZero THEN dvalue(0) ELSE v

(* A program that comes to its end has printed what its tree means: scopes *)
(* and overloads, slots, temporaries, conversions, jumps and calls of the  *)
(* generated code, and the engine.                                         *)
PrintsMeaning ==
  status = "returned" => [k \in DOMAIN output |-> Meant(output[k])] = program.meaning

=============================================================================
