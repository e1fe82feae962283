----------------------- MODULE InterpreterRefinement -----------------------
(* The interpreter implements ActivationMachine. *)
EXTENDS DirectThreadedVM

Stack == INSTANCE DecodedStack WITH linkage <- LinkageWords, unit <- WORD

ResumeAddress(k) == IF k = Stack!Activations THEN ip ELSE value_stack[Stack!BaseOf(k + 1) - 4][2]
InterpreterActs == << >> \o [k \in 1 .. Stack!Activations |-> Stack!Activation(k, ResumeAddress(k))]

Abstract == INSTANCE ActivationMachine
              WITH acts <- InterpreterActs, Capacity <- STACK_MAX, CallWords <- LinkageWords,
                   KeepsTag <- {}

(* Every step of the interpreter is a step of the activations its memory   *)
(* stands for: a call passes exactly the pushed values, a return continues *)
(* the caller unharmed, closures see the variables of their creators.      *)
ImplementsActivations == Abstract!ASpec

=============================================================================
