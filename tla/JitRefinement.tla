--------------------------- MODULE JitRefinement ---------------------------
(* The JIT implements ActivationMachine, on programs without the           *)
(* constructs in which it differs from the interpreter (JitAgrees).        *)
EXTENDS ContextThreadedVM

Stack == INSTANCE DecodedStack WITH linkage <- JitLinkageWords, unit <- 1

ResumeAddress(k) == IF k = Stack!Activations THEN ip ELSE returns[k + 1]
JitActs == << >> \o [k \in 1 .. Stack!Activations |-> Stack!Activation(k, ResumeAddress(k))]

Abstract == INSTANCE ActivationMachine
              WITH acts <- JitActs, Capacity <- STACK_MAX, CallWords <- JitLinkageWords,
                   KeepsTag <- {"ADD_INT", "SUB_INT", "MOD_INT"}

(* Every step of the machine code is a step of the activations its memory  *)
(* stands for, in a program without the constructs in which it differs.    *)
(* For such a program this is Abstract!ASpec.                              *)
ImplementsActivations ==
  /\ JitAgrees(program) => Abstract!AInit
  /\ [][JitAgrees(program) => [Abstract!ANext]_(Abstract!avars)]_jvars

=============================================================================
