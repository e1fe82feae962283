-------------------------- MODULE DirectThreadedVM --------------------------
(***************************************************************************)
(* The interpreter (src/vm/direct_threaded_vm.cpp): prepare_vm_instructions*)
(* turns slot indexes into byte offsets once, then the handlers of         *)
(* vm_interpret run one instruction after the other.                       *)
(*                                                                         *)
(* Calling convention, low to high addresses:                              *)
(*    arguments, nparams, return ip, caller's context, return offset,      *)
(*    caller's base pointer | context of a leaf function | operands        *)
(* base_pointer is the index after the saved base pointer.                 *)
(***************************************************************************)
EXTENDS VMShared

vars == <<program, ip, machine, status>>

LinkageWords == 5
(* Broken: the offset that fits the four linkage words of the JIT. *)
ArgumentOffsetOfJit == 5
ArgumentOffset == 6

-----------------------------------------------------------------------------
(* prepare_vm_instructions *)

IsImmediate(op) ==
  op \in {"MOV_STRING", "MOV_BOOLEAN", "MOV_INT", "MOV_DECIMAL", "MOV_FNC",
          "CALL", "ARG_READ", "RET", "GET_IN_PARENT", "SET_IN_PARENT"}
           \cup FnEnters \cup ObjectOpcodes

UsingDestinationOffset(op) ==
  op \notin FnEnters \cup Jumps \cup {"SET_IN_PARENT", "SET_IN_OBJECT", "RET"}

Prepare(i) ==
  [op |-> i.op,
   op1 |-> IF IsImmediate(i.op) THEN i.op1 ELSE WORD * i.op1,
   op2 |-> IF IsImmediate(i.op) THEN i.op2 ELSE WORD * i.op2,
   dest |-> IF UsingDestinationOffset(i.op) THEN WORD * i.dest ELSE i.dest]

instruction == Prepare(program.code[ip])
op == instruction.op
op1 == instruction.op1
op2 == instruction.op2
destination == instruction.dest

(* OP1_PTR and OP2_PTR: the word at a byte offset into the context. *)
AtOffset(offset) == Local(offset \div WORD)
Destination(v) == StoreSlot(context_object, destination \div WORD, v)

GotoNext == ip' = ip + 1

-----------------------------------------------------------------------------
(* The ways a handler does not finish *)

(* exit(1): the checks in push, pop, FN_ENTER_STACK and CALL.  The process *)
(* ends, and the registers and the memory kept are those the handler that  *)
(* gives up started from.  By then FN_ENTER_STACK has saved the base       *)
(* pointer and written HeaderWords, and a CALL has pushed the words that   *)
(* fit: nobody reads them, but they may lie behind the array.              *)
ExitsWithError ==
  CASE op = "FN_ENTER_HEAP" -> ~CanPop(stack_pointer, 1)
    [] op = "FN_ENTER_STACK" -> \/ ~CanPop(stack_pointer, 1)
                                \/ stack_pointer + op1 > STACK_MAX
    [] op = "PUSH" -> ~CanPush(stack_pointer, 1)
    [] op \in {"POP", "CALL_NATIVE"} -> ~CanPop(stack_pointer, 1)
    [] op = "CALL" -> \/ IsNull(Local(op1))
                      \/ ~CanPush(stack_pointer, LinkageWords)
    [] op = "RET" -> call_depth # 1 /\ ~CanPop(base_pointer, LinkageWords)
    [] OTHER -> FALSE

(* Undefined behaviour of the C++ handler: a wild pointer or a trap. *)
IsUndefined ==
  CASE op = "CALL" -> ~IsNull(Local(op1)) /\ ~IsFnRef(Local(op1))
    [] op = "CALL_NATIVE" ->
         AtOffset(op1) \notin {uvalue(n) : n \in 0 .. NativeCount - 1}
    [] op \in BinaryOpcodes -> BinaryResults(op, AtOffset(op1), AtOffset(op2)) = {}
    [] op = "GET_IN_PARENT" ->
         Ancestor(op1) \notin Contexts \/ ~HasSlot(Ancestor(op1), op2)
    [] op = "SET_IN_PARENT" ->
         Ancestor(op1) \notin Contexts \/ ~HasSlot(Ancestor(op1), destination)
    [] OTHER -> FALSE

ErrorExit ==
  /\ status = "running"
  /\ ~IsUndefined
  /\ ExitsWithError
  /\ status' = "error"
  /\ UNCHANGED <<program, ip, machine>>

UndefinedBehaviour ==
  /\ status = "running"
  /\ IsUndefined
  /\ status' = "undefined"
  /\ UNCHANGED <<program, ip, machine>>

Executes(opcodes) ==
  /\ status = "running"
  /\ op \in opcodes
  /\ ~IsUndefined
  /\ ~ExitsWithError
  /\ UNCHANGED <<program, status>>

-----------------------------------------------------------------------------
(* Function entry, call and return *)

FnEnterHeap == Executes({"FN_ENTER_HEAP"}) /\ EnterHeap(op1) /\ GotoNext

FnEnterStack == Executes({"FN_ENTER_STACK"}) /\ EnterStack(op1) /\ GotoNext

Linkage == <<uvalue(op2), <<"code", ip + 1>>, context_object, uvalue(destination),
             Callee(Local(op1)).parent>>

Call ==
  /\ Executes({"CALL"})
  /\ value_stack' = Pushed(value_stack, stack_pointer, Linkage)
  /\ stack_pointer' = stack_pointer + LinkageWords
  /\ ip' = Callee(Local(op1)).entry
  /\ UNCHANGED <<base_pointer, call_depth, context_object, heap, fn_refs, output>>

(* The linkage the running activation will return through. *)
SavedBase == value_stack[base_pointer - 1][2]
ReturnOffset == value_stack[base_pointer - 2][2]
(* Broken: the defining context taken for the calling one. *)
DefiningContext == Local(0)
CallerContext == value_stack[base_pointer - 3]
ReturnAddress == value_stack[base_pointer - 4][2]
(* Broken: the arguments are left on the stack. *)
ParametersForgotten == 0
ParameterCount == value_stack[base_pointer - 5][2]

ReturnFromRoot ==
  /\ status = "running"
  /\ op = "RET"
  /\ call_depth = 1
  /\ status' = "returned"
  /\ call_depth' = 0
  /\ UNCHANGED <<program, ip, value_stack, stack_pointer, base_pointer,
                 context_object, heap, fn_refs, output>>

(* Broken: the result is stored before the caller's context is restored. *)
ReturnIntoCallee ==
  /\ Executes({"RET"})
  /\ call_depth # 1
  /\ call_depth' = call_depth - 1
  /\ IF destination # 0
       THEN StoreSlot(context_object, ReturnOffset \div WORD, Local(destination))
       ELSE UNCHANGED <<value_stack, heap>>
  /\ stack_pointer' = base_pointer - LinkageWords - ParameterCount
  /\ base_pointer' = SavedBase
  /\ context_object' = CallerContext
  /\ ip' = ReturnAddress
  /\ UNCHANGED <<fn_refs, output>>

Return ==
  /\ Executes({"RET"})
  /\ call_depth # 1
  /\ call_depth' = call_depth - 1
  /\ IF destination # 0
       THEN StoreSlot(CallerContext, ReturnOffset \div WORD, Local(destination))
       ELSE UNCHANGED <<value_stack, heap>>
  /\ stack_pointer' = base_pointer - LinkageWords - ParameterCount
  /\ base_pointer' = SavedBase
  /\ context_object' = CallerContext
  /\ ip' = ReturnAddress
  /\ UNCHANGED <<fn_refs, output>>

-----------------------------------------------------------------------------
(* Jumps *)

Jump ==
  /\ Executes({"JMP"})
  /\ ip' = destination
  /\ UNCHANGED machine

(* Broken: a branch that is not taken does not go on. *)
BranchWaits ==
  /\ Executes(Branches)
  /\ \E n \in HighWords(AtOffset(op1)) :
       ip' = IF (n # 0) = (op = "JMP_TRUE") THEN destination ELSE ip
  /\ UNCHANGED machine

(* JMP_TRUE and JMP_FALSE test the high half of the word. *)
Branch ==
  /\ Executes(Branches)
  /\ \E n \in HighWords(AtOffset(op1)) :
       ip' = IF (n # 0) = (op = "JMP_TRUE") THEN destination ELSE ip + 1
  /\ UNCHANGED machine

-----------------------------------------------------------------------------
(* Handlers that compute one word into the current context *)

Computes(v) ==
  /\ Destination(v)
  /\ GotoNext
  /\ UNCHANGED <<base_pointer, call_depth, context_object>>

MoveImmediate ==
  /\ Executes(Immediates)
  /\ Computes(ImmediateValue(op, op1))
  /\ UNCHANGED <<stack_pointer, fn_refs, output>>

Move ==
  /\ Executes({"MOV"})
  /\ Computes(AtOffset(op1))
  /\ UNCHANGED <<stack_pointer, fn_refs, output>>

(* Broken: the reference remembers the context around the creating one. *)
MoveFunctionOuter ==
  /\ Executes({"MOV_FNC"})
  /\ fn_refs' = Append(fn_refs, [parent |-> ParentOf(context_object), entry |-> op1])
  /\ Computes(<<"fnref", Len(fn_refs) + 1>>)
  /\ UNCHANGED <<stack_pointer, output>>

(* The function reference remembers the context that creates it. *)
MoveFunction ==
  /\ Executes({"MOV_FNC"})
  /\ fn_refs' = Append(fn_refs, [parent |-> context_object, entry |-> op1])
  /\ Computes(<<"fnref", Len(fn_refs) + 1>>)
  /\ UNCHANGED <<stack_pointer, output>>

Binary ==
  /\ Executes(BinaryOpcodes)
  /\ \E v \in BinaryResults(op, AtOffset(op1), AtOffset(op2)) : Computes(v)
  /\ UNCHANGED <<stack_pointer, fn_refs, output>>

Unary ==
  /\ Executes(UnaryOpcodes)
  /\ \E v \in UnaryResults(op, AtOffset(op1)) : Computes(v)
  /\ UNCHANGED <<stack_pointer, fn_refs, output>>

ArgRead ==
  /\ Executes({"ARG_READ"})
  /\ Computes(StackWord(base_pointer - ArgumentOffset - op1))
  /\ UNCHANGED <<stack_pointer, fn_refs, output>>

GetInParent ==
  /\ Executes({"GET_IN_PARENT"})
  /\ Computes(Slot(Ancestor(op1), op2))
  /\ UNCHANGED <<stack_pointer, fn_refs, output>>

(* Broken: nobody pops the argument. *)
CallNativeKeeps ==
  /\ Executes({"CALL_NATIVE"})
  /\ output' = Append(output, Printed(Top))
  /\ Computes(ivalue(0))
  /\ UNCHANGED <<stack_pointer, fn_refs>>

(* native_print pops its argument itself and answers the int 0. *)
CallNative ==
  /\ Executes({"CALL_NATIVE"})
  /\ output' = Append(output, Printed(Top))
  /\ stack_pointer' = stack_pointer - 1
  /\ Computes(ivalue(0))
  /\ UNCHANGED fn_refs

Pop ==
  /\ Executes({"POP"})
  /\ stack_pointer' = stack_pointer - 1
  /\ Computes(Top)
  /\ UNCHANGED <<fn_refs, output>>

-----------------------------------------------------------------------------
(* Handlers that write elsewhere, or nothing *)

Push == Executes({"PUSH"}) /\ PushWord(AtOffset(op1)) /\ GotoNext

(* op2 and the destination are slot indexes here, not offsets. *)
SetInParent ==
  /\ Executes({"SET_IN_PARENT"})
  /\ StoreSlot(Ancestor(op1), destination, Local(op2))
  /\ GotoNext
  /\ UNCHANGED <<stack_pointer, base_pointer, call_depth, context_object,
                 fn_refs, output>>

ObjectAccess ==
  /\ Executes(ObjectOpcodes)
  /\ GotoNext
  /\ UNCHANGED machine

-----------------------------------------------------------------------------

(* Everything a running activation does without leaving it. *)
WithinActivation ==
  \/ FnEnterHeap \/ FnEnterStack
  \/ Jump \/ Branch
  \/ MoveImmediate \/ Move \/ MoveFunction \/ Binary \/ Unary
  \/ ArgRead \/ GetInParent \/ CallNative \/ Pop
  \/ Push \/ SetInParent \/ ObjectAccess
  \/ ReturnFromRoot \/ ErrorExit \/ UndefinedBehaviour

Step == Call \/ Return \/ WithinActivation

(* The process is gone. *)
Halted == status # "running" /\ UNCHANGED vars

Init == SharedInit
Next == Step \/ Halted
Spec == Init /\ [][Next]_vars

(* The interpreter loop never waits for anything. *)
FairSpec == Spec /\ WF_vars(Step)

TypeOK == SharedTypeOK

(* Undefined behaviour has one of two causes: an integer division that     *)
(* traps, or a CALL of a native that was passed as a callback.  In         *)
(* particular a walk along the parents always ends in a context that has   *)
(* the slot asked for.                                                     *)
UndefinedCauses ==
  status = "undefined" =>
    \/ /\ op \in {"DIV_INT", "MOD_INT"}
       /\ \A m \in HighWords(AtOffset(op1)), n \in HighWords(AtOffset(op2)) : Traps(m, n)
    \/ op = "CALL" /\ Local(op1)[1] = "word"

(* Every run comes to an end. *)
Terminates == <>(status # "running")

(* A program that runs out of stack is stopped before it writes behind     *)
(* value_stack, whose words are 0 .. STACK_MAX - 1: by push, and by        *)
(* FN_ENTER_STACK before it writes the header of a context that it then    *)
(* says it could not allocate.                                             *)
StackWritesInArray ==
  /\ stack_pointer <= STACK_MAX
  /\ status = "running" /\ op = "FN_ENTER_STACK" => HeaderWords \subseteq 0 .. STACK_MAX - 1

=============================================================================
