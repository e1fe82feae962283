------------------------------ MODULE VMShared ------------------------------
(***************************************************************************)
(* The state and the helpers both execution engines share                  *)
(* (src/vm/vm_shared.cpp, vm_shared_inline.cpp, object_manager.cpp).       *)
(*                                                                         *)
(* The value stack is one array that carries operands, arguments, call     *)
(* linkage and the contexts of leaf functions; the contexts of the other   *)
(* functions are separate heap blocks.  Two words past the end of the      *)
(* array are part of the model, because the checks of the code let the     *)
(* machine write there.                                                    *)
(***************************************************************************)
EXTENDS Bytecode

CONSTANTS
  Programs,    \* the byte code programs that may be run
  STACK_MAX    \* words of value_stack

ASSUME ProgramsAssumption == \A p \in Programs : WellFormed(p)
ASSUME StackMaxAssumption == STACK_MAX \in Nat \ {0}

VARIABLES
  program,         \* the program being run
  ip,              \* address of the next instruction
  value_stack,     \* the array and what lies behind it
  stack_pointer,   \* index of the first free word
  base_pointer,    \* value of stack_pointer when the function was entered
  call_depth,      \* activations entered and not yet returned
  context_object,  \* pointer to the context of the running activation
  heap,            \* contexts allocated so far, oldest first; never freed;
                   \* slot i is element i + 1
  fn_refs,         \* function references created so far; never freed
  output,          \* what native_print has written
  status           \* "running", or how the process ended:
                   \* "returned", "error" (exit(1)) or "undefined" (C++ UB)

machine == <<value_stack, stack_pointer, base_pointer, call_depth,
             context_object, heap, fn_refs, output>>

StackIndexes == 0 .. STACK_MAX + 1

-----------------------------------------------------------------------------
(* The value stack *)

(* Broken variants, here and in the modules above: each is the definition  *)
(* it precedes with a bug put in, and is used by nothing but the runs that *)
(* show the properties notice it.                                          *)
(* Broken: the words of a call are pushed after one check for all of them. *)
CheckedOnce(sp, n) == sp <= STACK_MAX

(* push() refuses only when the index is already past STACK_MAX. *)
CanPush(sp, n) == sp + n - 1 <= STACK_MAX
CanPop(sp, n) == sp - n >= 0

(* The stack with words written from index sp on. *)
Pushed(stack, sp, words) ==
  [i \in StackIndexes |->
     IF i \in sp .. sp + Len(words) - 1 THEN words[i - sp + 1] ELSE stack[i]]

Top == value_stack[stack_pointer - 1]

(* An index outside the modelled memory reads an unspecified word. *)
StackWord(i) == IF i \in StackIndexes THEN value_stack[i] ELSE undef

-----------------------------------------------------------------------------
(* Contexts: a pointer is <<"stack", index>> or <<"heap", number>>. *)

OnStack(c) == c[1] = "stack"
HeapContexts == {<<"heap", k>> : k \in DOMAIN heap}
Contexts == HeapContexts \cup {context_object}

HasSlot(c, i) == IF OnStack(c) THEN c[2] + i \in StackIndexes
                 ELSE i + 1 \in DOMAIN heap[c[2]]
Slot(c, i) == IF OnStack(c) THEN value_stack[c[2] + i] ELSE heap[c[2]][i + 1]
Local(i) == Slot(context_object, i)

StoreSlot(c, i, v) ==
  \/ /\ OnStack(c)
     /\ value_stack' = [value_stack EXCEPT ![c[2] + i] = v]
     /\ UNCHANGED heap
  \/ /\ ~OnStack(c)
     /\ heap' = [heap EXCEPT ![c[2]][i + 1] = v]
     /\ UNCHANGED value_stack

(* init_call_context: slot 0 points to the parent; a context without a     *)
(* parent, the root's, gets the natives right behind it; the other slots   *)
(* keep what the memory held.                                              *)
InitCallContext(i, parent, old) ==
  IF i = 0 THEN parent
  ELSE IF parent = nullptr /\ i <= NativeCount THEN uvalue(i - 1)
  ELSE old

NewHeapContext(size, parent) ==
  [i \in 1 .. size |-> InitCallContext(i - 1, parent, undef)]

(* The context depth levels up from the current one, following slot 0;     *)
(* anything that is not a context ends the walk.                           *)
ParentOf(c) == IF c \in Contexts THEN Slot(c, 0) ELSE c
(* Broken: one level too far. *)
AncestorTooFar(depth) ==
  LET up[n \in 0 .. depth] ==
        IF n = 0 THEN context_object ELSE ParentOf(up[n - 1])
  IN  ParentOf(up[depth])
Ancestor(depth) ==
  LET up[n \in 0 .. depth - 1] ==
        IF n = 0 THEN context_object ELSE ParentOf(up[n - 1])
  IN  ParentOf(up[depth - 1])

-----------------------------------------------------------------------------
(* Function references and natives *)

IsFnRef(v) == v[1] = "fnref" /\ v[2] \in DOMAIN fn_refs
(* Broken: dynamic scoping, the callee's parent is the caller's context. *)
CalleeOfCaller(v) == [fn_refs[v[2]] EXCEPT !.parent = context_object]
Callee(v) == fn_refs[v[2]]

(* native_print writes what it guesses from the tag of the word. *)
Printed(v) ==
  CASE v[1] \in {"int", "dec", "str", "negzero", "nonfinite"} -> v
    [] v[1] = "bool" -> <<"bool", IF v[2] = 0 THEN 0 ELSE 1>>
    [] v[1] = "null" -> nvalue
    [] v[1] = "fnref" -> <<"fnref", 0>>
    [] OTHER -> <<"word", 0>>

-----------------------------------------------------------------------------
(* Handlers that are the same in both engines, up to where control goes    *)

(* Broken: a heap function is not counted as an activation. *)
EnterHeapUncounted(size) ==
  /\ heap' = Append(heap, NewHeapContext(size, Top))
  /\ context_object' = <<"heap", Len(heap) + 1>>
  /\ value_stack' = [value_stack EXCEPT ![stack_pointer - 1] = uvalue(base_pointer)]
  /\ base_pointer' = stack_pointer
  /\ UNCHANGED <<stack_pointer, call_depth, fn_refs, output>>

(* FN_ENTER_HEAP: the parent's pointer on top of the stack makes room for  *)
(* the saved base pointer.                                                 *)
EnterHeap(size) ==
  /\ heap' = Append(heap, NewHeapContext(size, Top))
  /\ context_object' = <<"heap", Len(heap) + 1>>
  /\ value_stack' = [value_stack EXCEPT ![stack_pointer - 1] = uvalue(base_pointer)]
  /\ base_pointer' = stack_pointer
  /\ call_depth' = call_depth + 1
  /\ UNCHANGED <<stack_pointer, fn_refs, output>>

(* Broken: the context overlaps the word of the saved base pointer. *)
EnterStackOverlapping(size) ==
  /\ value_stack' = [i \in StackIndexes |->
       IF i >= stack_pointer - 1
         THEN InitCallContext(i - stack_pointer + 1, Top, value_stack[i])
       ELSE value_stack[i]]
  /\ context_object' = <<"stack", stack_pointer - 1>>
  /\ base_pointer' = stack_pointer
  /\ stack_pointer' = stack_pointer + size
  /\ call_depth' = call_depth + 1
  /\ UNCHANGED <<heap, fn_refs, output>>

(* Broken: no room for the slot of the parent. *)
EnterStackNarrow(size) ==
  /\ value_stack' = [i \in StackIndexes |->
       IF i = stack_pointer - 1 THEN uvalue(base_pointer)
       ELSE IF i >= stack_pointer
              THEN InitCallContext(i - stack_pointer, Top, value_stack[i])
       ELSE value_stack[i]]
  /\ context_object' = <<"stack", stack_pointer>>
  /\ base_pointer' = stack_pointer
  /\ stack_pointer' = stack_pointer + size - 1
  /\ call_depth' = call_depth + 1
  /\ UNCHANGED <<heap, fn_refs, output>>

(* FN_ENTER_STACK: the context is the next size words of the stack. *)
EnterStack(size) ==
  /\ value_stack' = [i \in StackIndexes |->
       IF i = stack_pointer - 1 THEN uvalue(base_pointer)
       ELSE IF i >= stack_pointer
              THEN InitCallContext(i - stack_pointer, Top, value_stack[i])
       ELSE value_stack[i]]
  /\ context_object' = <<"stack", stack_pointer>>
  /\ base_pointer' = stack_pointer
  /\ stack_pointer' = stack_pointer + size
  /\ call_depth' = call_depth + 1
  /\ UNCHANGED <<heap, fn_refs, output>>

(* The words init_call_context has written on the stack by the time        *)
(* FN_ENTER_STACK compares the end of the new context with STACK_MAX.      *)
HeaderWords ==
  {stack_pointer}
    \cup (IF Top = nullptr THEN stack_pointer + 1 .. stack_pointer + NativeCount ELSE {})

PushWord(v) ==
  /\ value_stack' = Pushed(value_stack, stack_pointer, <<v>>)
  /\ stack_pointer' = stack_pointer + 1
  /\ UNCHANGED <<base_pointer, call_depth, context_object, heap, fn_refs, output>>

ImmediateValue(opcode, operand) ==
  CASE opcode = "MOV_INT" -> ivalue(operand)
    [] opcode = "MOV_BOOLEAN" -> <<"bool", operand>>
    [] opcode = "MOV_DECIMAL" -> dvalue(operand)
    [] opcode = "MOV_STRING" -> svalue(operand)
    [] opcode = "MOV_NULL" -> nvalue

-----------------------------------------------------------------------------
(* Start of a run, common to vm_interpret and vm_run *)

SharedInit ==
  /\ program \in Programs
  /\ ip = 0
  /\ value_stack = [i \in StackIndexes |-> IF i = 0 THEN nullptr ELSE undef]
  /\ stack_pointer = 1
  /\ base_pointer = 0
  /\ call_depth = 0
  /\ context_object = nullptr
  /\ heap = << >>
  /\ fn_refs = << >>
  /\ output = << >>
  /\ status = "running"

-----------------------------------------------------------------------------
(* Types *)

Context == {nullptr} \cup ({"stack", "heap"} \X Nat)
FnRef == [parent : Context, entry : EntriesOf(program) \ {0}]

SharedTypeOK ==
  /\ program \in Programs
  /\ ip \in Addresses(program)
  /\ value_stack \in [StackIndexes -> Value]
  /\ stack_pointer \in StackIndexes
  /\ base_pointer \in StackIndexes
  /\ call_depth \in Nat
  /\ context_object \in Context
  /\ heap \in Seq(Seq(Value))
  /\ fn_refs \in Seq(FnRef)
  /\ output \in Seq(Value)
  /\ status \in {"running", "returned", "error", "undefined"}

=============================================================================
