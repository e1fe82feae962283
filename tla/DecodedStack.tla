---------------------------- MODULE DecodedStack ----------------------------
(***************************************************************************)
(* The activations that the memory of an engine stands for, read back from *)
(* the value stack along the saved base pointers.  The two engines differ  *)
(* in the number of linkage words, in the unit of the result's offset and  *)
(* in where return addresses are (resume: where the suspended activations  *)
(* go on, root first).                                                     *)
(***************************************************************************)
EXTENDS VMShared

CONSTANTS linkage, unit

IsEntering == program.code[ip].op \in FnEnters
Activations == IF IsEntering THEN call_depth + 1 ELSE IF call_depth = 0 THEN 1 ELSE call_depth
IsEntered(k) == k < Activations \/ ~IsEntering

(* base_pointer of the k-th activation, the running one being the last. *)
BaseOf(k) ==
  LET base[j \in 1 .. Activations] ==
        IF j = Activations THEN IF IsEntering THEN stack_pointer ELSE base_pointer
        ELSE IF j = Activations - 1 /\ IsEntering THEN base_pointer
        ELSE value_stack[base[j + 1] - 1][2]
  IN  base[k]

Words(from, to) == << >> \o [n \in 1 .. to - from + 1 |-> value_stack[from + n - 1]]

NumberOfArguments(k) == IF k = 1 THEN 0 ELSE value_stack[BaseOf(k) - linkage][2]
FirstArgument(k) == BaseOf(k) - linkage - NumberOfArguments(k)
PointerOf(k) == IF k = Activations THEN context_object ELSE value_stack[BaseOf(k + 1) - 3]
KeepsStack(k) == IsEntered(k) /\ OnStack(PointerOf(k))

(* The context of an entered leaf, which starts at its base. *)
ContextEndOf(k, pc) ==
  BaseOf(k) + IF IsEntered(k) THEN StackWords(program, program.entry[pc]) ELSE 0
OperandsEndOf(k) == IF k = Activations THEN stack_pointer ELSE FirstArgument(k + 1)

Activation(k, pc) ==
  [pc |-> pc,
   args |-> IF k = 1 THEN << >> ELSE Words(FirstArgument(k), BaseOf(k) - linkage - 1),
   operands |-> Words(ContextEndOf(k, pc), OperandsEndOf(k) - 1),
   parent |-> IF IsEntered(k) THEN Slot(PointerOf(k), 0) ELSE Top,
   ctx |-> IF IsEntered(k) /\ ~KeepsStack(k) THEN PointerOf(k) ELSE nullptr,
   locals |-> IF KeepsStack(k) THEN Words(BaseOf(k), ContextEndOf(k, pc) - 1) ELSE << >>,
   dest |-> IF k = 1 THEN 0 ELSE value_stack[BaseOf(k) - 2][2] \div unit]

=============================================================================
