------------------------- MODULE ContextThreadedVM -------------------------
(***************************************************************************)
(* The JIT (src/vm/jit/x64): compile_dispatch_function turns every         *)
(* instruction into native code that calls a handler of                    *)
(* context_threaded_vm.cpp, or does its work in line; CALL and RET are     *)
(* native calls and returns.                                               *)
(*                                                                         *)
(* Calling convention, low to high addresses:                              *)
(*    arguments, nparams, caller's context, return index, caller's base    *)
(*    pointer | context of a leaf function | operands                      *)
(* with the return address on the native stack, where the rest of a frame  *)
(* (rbp and its padding) is popped as pushed and left out here.            *)
(***************************************************************************)
EXTENDS VMShared

VARIABLES
  returns,   \* return addresses on the native stack, oldest first
  rax        \* whether the register is not zero

jvars == <<program, ip, machine, status, returns, rax>>

JitLinkageWords == 4
(* Broken: the offset that fits the five linkage words of the interpreter. *)
JitArgumentOffsetOfInterpreter == 6
JitArgumentOffset == 5
Host == -1           \* the return address into vm_run

-----------------------------------------------------------------------------
(* compile_dispatch_function *)

Scaled(i) ==
  [op |-> i.op,
   op1 |-> IF Op1IsIndex(i.op) THEN WORD * i.op1 ELSE i.op1,
   op2 |-> IF Op2IsIndex(i.op) THEN WORD * i.op2 ELSE i.op2,
   dest |-> IF DestIsIndex(i.op) THEN WORD * i.dest ELSE i.dest]

instruction == Scaled(program.code[ip])
op == instruction.op
op1 == instruction.op1
op2 == instruction.op2
dest == instruction.dest

(* A branch right behind a comparison, in the order of the code, tests the *)
(* register that comparison left.                                          *)
Fused == /\ op \in Branches
         /\ ip - 1 \in Addresses(program)
         /\ program.code[ip - 1].op \in Comparisons

AtOffset(offset) == Local(offset \div WORD)
Destination(v) == StoreSlot(context_object, dest \div WORD, v)

FallThrough == ip' = ip + 1

(* The in-line arithmetic leaves the tag alone if the destination is one   *)
(* of the operands: v is an int, and the word becomes a primitive of the   *)
(* type it had.  With half of it replaced, a pointer leads nowhere.        *)
Retagged(tag, v) ==
  CASE tag \in {"int", "bool", "null"} -> {<<tag, v[2]>>}
    [] tag \in {"dec", "negzero", "nonfinite"} -> Decimals(v)
    [] OTHER -> {undef}
Inlined(v) == IF dest \in {op1, op2} THEN Retagged(AtOffset(dest)[1], v) ELSE {v}

-----------------------------------------------------------------------------
(* The ways a handler does not finish, with the same effects on memory as  *)
(* in the interpreter.                                                     *)

ExitsWithError ==
  CASE op = "FN_ENTER_HEAP" -> ~CanPop(stack_pointer, 1)
    [] op = "FN_ENTER_STACK" -> \/ ~CanPop(stack_pointer, 1)
                                \/ stack_pointer + op1 > STACK_MAX
    [] op = "PUSH" -> ~CanPush(stack_pointer, 1)
    [] op = "CALL_NATIVE" -> ~CanPop(stack_pointer, 1)
    [] op = "CALL" -> \/ IsNull(Local(op1))
                      \/ ~CanPush(stack_pointer, JitLinkageWords)
    [] op = "RET" -> call_depth # 1 /\ ~CanPop(base_pointer, JitLinkageWords)
    [] OTHER -> FALSE

(* No destination is passed to the handler of POP: it writes anywhere.     *)
IsUndefined ==
  CASE op = "CALL" -> ~IsNull(Local(op1)) /\ ~IsFnRef(Local(op1))
    [] op = "CALL_NATIVE" ->
         AtOffset(op1) \notin {uvalue(n) : n \in 0 .. NativeCount - 1}
    [] op \in BinaryOpcodes -> BinaryResults(op, AtOffset(op1), AtOffset(op2)) = {}
    [] op = "GET_IN_PARENT" ->
         Ancestor(op1) \notin Contexts \/ ~HasSlot(Ancestor(op1), op2)
    [] op = "SET_IN_PARENT" ->
         \/ Ancestor(op1) \notin Contexts
         \/ ~HasSlot(Ancestor(op1), dest)
         \/ ~HasSlot(context_object, op2)
    [] op = "POP" -> TRUE
    [] OTHER -> FALSE

ErrorExit ==
  /\ status = "running"
  /\ ~IsUndefined
  /\ ExitsWithError
  /\ status' = "error"
  /\ UNCHANGED <<program, ip, machine, returns, rax>>

UndefinedBehaviour ==
  /\ status = "running"
  /\ IsUndefined
  /\ status' = "undefined"
  /\ UNCHANGED <<program, ip, machine, returns, rax>>

Executes(opcodes) ==
  /\ status = "running"
  /\ op \in opcodes
  /\ ~IsUndefined
  /\ ~ExitsWithError
  /\ UNCHANGED program

-----------------------------------------------------------------------------
(* Function entry, call and return *)

FnEnter ==
  /\ Executes(FnEnters)
  /\ \/ op = "FN_ENTER_HEAP" /\ EnterHeap(op1)
     \/ op = "FN_ENTER_STACK" /\ EnterStack(op1)
  /\ rax' = FALSE
  /\ FallThrough
  /\ UNCHANGED <<status, returns>>

JitLinkage == <<uvalue(op2), context_object, uvalue(dest), Callee(Local(op1)).parent>>

(* The handler pushes the linkage and answers the address to call. *)
Call ==
  /\ Executes({"CALL"})
  /\ value_stack' = Pushed(value_stack, stack_pointer, JitLinkage)
  /\ stack_pointer' = stack_pointer + JitLinkageWords
  /\ rax' = TRUE
  /\ returns' = Append(returns, ip + 1)
  /\ ip' = Callee(Local(op1)).entry
  /\ UNCHANGED <<status, base_pointer, call_depth, context_object, heap, fn_refs, output>>

SavedBase == value_stack[base_pointer - 1][2]
(* Broken: the offset in bytes the interpreter keeps in this word. *)
ReturnIndexOfInterpreter == value_stack[base_pointer - 2][2] \div WORD
ReturnIndex == value_stack[base_pointer - 2][2]
CallerContext == value_stack[base_pointer - 3]
(* Broken: the arguments are left on the stack. *)
ParametersLeft == 0
ParameterCount == value_stack[base_pointer - 4][2]

(* What the handler does, unless the root returns. *)
Unwind ==
  /\ IF dest # 0 THEN StoreSlot(CallerContext, ReturnIndex, Local(dest))
     ELSE UNCHANGED <<value_stack, heap>>
  /\ stack_pointer' = base_pointer - JitLinkageWords - ParameterCount
  /\ base_pointer' = SavedBase
  /\ context_object' = CallerContext

NativeReturn ==
  LET address == returns[Len(returns)] IN
  /\ returns' = SubSeq(returns, 1, Len(returns) - 1)
  /\ IF address = Host THEN status' = "returned" /\ UNCHANGED ip
     ELSE ip' = address /\ UNCHANGED status

Return ==
  /\ Executes({"RET"})
  /\ call_depth' = call_depth - 1
  /\ IF call_depth = 1
       THEN UNCHANGED <<value_stack, heap, stack_pointer, base_pointer, context_object>>
       ELSE Unwind
  /\ rax' = FALSE
  /\ NativeReturn
  /\ UNCHANGED <<fn_refs, output>>

-----------------------------------------------------------------------------
(* Jumps *)

Jump ==
  /\ Executes({"JMP"})
  /\ ip' = dest
  /\ UNCHANGED <<machine, status, returns, rax>>

(* The handler of a branch answers whether it is taken. *)
Branch ==
  /\ Executes(Branches)
  /\ ~Fused
  /\ \E n \in HighWords(AtOffset(op1)) :
       LET taken == (n # 0) = (op = "JMP_TRUE") IN
       ip' = (IF taken THEN dest ELSE ip + 1) /\ rax' = taken
  /\ UNCHANGED <<machine, status, returns>>

FusedBranch ==
  /\ Executes(Branches)
  /\ Fused
  /\ ip' = IF rax = (op = "JMP_TRUE") THEN dest ELSE ip + 1
  /\ UNCHANGED <<machine, status, returns, rax>>

-----------------------------------------------------------------------------
(* Instructions that compute one word into the current context *)

Computes(v) ==
  /\ Destination(v)
  /\ FallThrough
  /\ UNCHANGED <<status, base_pointer, call_depth, context_object, returns>>

MoveImmediate ==
  /\ Executes(Immediates)
  /\ Computes(ImmediateValue(op, op1))
  /\ rax' = CASE op \in {"MOV_INT", "MOV_BOOLEAN"} -> rax
              [] op = "MOV_DECIMAL" -> op1 # 0
              [] OTHER -> FALSE
  /\ UNCHANGED <<stack_pointer, fn_refs, output>>

Move ==
  /\ Executes({"MOV"})
  /\ Computes(AtOffset(op1))
  /\ UNCHANGED <<stack_pointer, fn_refs, output, rax>>

MoveFunction ==
  /\ Executes({"MOV_FNC"})
  /\ fn_refs' = Append(fn_refs, [parent |-> context_object, entry |-> op1])
  /\ Computes(<<"fnref", Len(fn_refs) + 1>>)
  /\ rax' = FALSE
  /\ UNCHANGED <<stack_pointer, output>>

InlineArithmetic ==
  /\ Executes({"ADD_INT", "SUB_INT"})
  /\ \E v \in BinaryResults(op, AtOffset(op1), AtOffset(op2)) :
       \E w \in Inlined(v) : Computes(w)
  /\ UNCHANGED <<stack_pointer, fn_refs, output, rax>>

(* Broken: what idiv leaves in the register is taken for the remainder. *)
InlineModuloOfRegister ==
  /\ Executes({"MOD_INT"})
  /\ \E m \in HighWords(AtOffset(op1)), n \in HighWords(AtOffset(op2)) :
       /\ ~Traps(m, n)
       /\ \E w \in Inlined(ivalue(Quotient(m, n))) : Computes(w)
       /\ rax' = (Quotient(m, n) # 0)
  /\ UNCHANGED <<stack_pointer, fn_refs, output>>

(* idiv leaves the quotient in the register. *)
InlineModulo ==
  /\ Executes({"MOD_INT"})
  /\ \E m \in HighWords(AtOffset(op1)), n \in HighWords(AtOffset(op2)) :
       /\ ~Traps(m, n)
       /\ \E w \in Inlined(ivalue(Remainder(m, n))) : Computes(w)
       /\ rax' = (Quotient(m, n) # 0)
  /\ UNCHANGED <<stack_pointer, fn_refs, output>>

(* Broken: the comparison stores its result, and only that. *)
CompareKeepsRegister ==
  /\ Executes(Comparisons)
  /\ \E v \in BinaryResults(op, AtOffset(op1), AtOffset(op2)) : Computes(v)
  /\ UNCHANGED <<stack_pointer, fn_refs, output, rax>>

(* In line or by a handler, a comparison leaves its result in the register. *)
Compare ==
  /\ Executes(Comparisons)
  /\ \E v \in BinaryResults(op, AtOffset(op1), AtOffset(op2)) :
       Computes(v) /\ rax' = (v = bvalue(TRUE))
  /\ UNCHANGED <<stack_pointer, fn_refs, output>>

Arithmetic ==
  /\ \/ /\ Executes(BinaryOpcodes \ (Comparisons \cup {"ADD_INT", "SUB_INT", "MOD_INT"}))
        /\ \E v \in BinaryResults(op, AtOffset(op1), AtOffset(op2)) : Computes(v)
     \/ /\ Executes(UnaryOpcodes)
        /\ \E v \in UnaryResults(op, AtOffset(op1)) : Computes(v)
  /\ rax' = FALSE
  /\ UNCHANGED <<stack_pointer, fn_refs, output>>

ArgRead ==
  /\ Executes({"ARG_READ"})
  /\ Computes(StackWord(base_pointer - JitArgumentOffset - op1))
  /\ rax' = FALSE
  /\ UNCHANGED <<stack_pointer, fn_refs, output>>

GetInParent ==
  /\ Executes({"GET_IN_PARENT"})
  /\ Computes(Slot(Ancestor(op1), op2))
  /\ rax' = FALSE
  /\ UNCHANGED <<stack_pointer, fn_refs, output>>

CallNative ==
  /\ Executes({"CALL_NATIVE"})
  /\ output' = Append(output, Printed(Top))
  /\ stack_pointer' = stack_pointer - 1
  /\ Computes(ivalue(0))
  /\ rax' = FALSE
  /\ UNCHANGED fn_refs

-----------------------------------------------------------------------------
(* Instructions that write elsewhere, or nothing *)

Push ==
  /\ Executes({"PUSH"})
  /\ PushWord(AtOffset(op1))
  /\ rax' = FALSE
  /\ FallThrough
  /\ UNCHANGED <<status, returns>>

(* The handler indexes both contexts with operands that are scaled already. *)
SetInParent ==
  /\ Executes({"SET_IN_PARENT"})
  /\ StoreSlot(Ancestor(op1), dest, Local(op2))
  /\ rax' = FALSE
  /\ FallThrough
  /\ UNCHANGED <<status, stack_pointer, base_pointer, call_depth, context_object,
                 fn_refs, output, returns>>

ObjectAccess ==
  /\ Executes(ObjectOpcodes)
  /\ rax' = FALSE
  /\ FallThrough
  /\ UNCHANGED <<machine, status, returns>>

-----------------------------------------------------------------------------

(* What does not start or end an activation that another one waits for. *)
WithinActivation ==
  \/ FnEnter
  \/ Jump \/ Branch \/ FusedBranch
  \/ MoveImmediate \/ Move \/ MoveFunction
  \/ InlineArithmetic \/ InlineModulo \/ Compare \/ Arithmetic
  \/ ArgRead \/ GetInParent \/ CallNative
  \/ Push \/ SetInParent \/ ObjectAccess
  \/ ErrorExit \/ UndefinedBehaviour

Step == Call \/ Return \/ WithinActivation

Halted == status # "running" /\ UNCHANGED jvars

Init == SharedInit /\ returns = <<Host>> /\ rax \in BOOLEAN
Next == Step \/ Halted
Spec == Init /\ [][Next]_jvars

-----------------------------------------------------------------------------

TypeOK ==
  /\ SharedTypeOK
  /\ returns \in Seq(Addresses(program) \cup {Host})
  /\ rax \in BOOLEAN

(* The two stacks agree: the native one has one return address for each    *)
(* activation the value stack holds, and reaches the host exactly when the *)
(* root returns.                                                           *)
NativeStackAgrees ==
  /\ status = "running" =>
       Len(returns) = call_depth + IF op \in FnEnters THEN 1 ELSE 0
  /\ status = "returned" <=> returns = << >>
  /\ \A k \in DOMAIN returns : returns[k] = Host <=> k = 1

(* Whether p is without the constructs in which the JIT differs from the   *)
(* interpreter: p assigns no captured variable, and every branch behind a  *)
(* comparison tests what was compared and cannot be jumped to.             *)
JitAgrees(p) ==
  \A a \in Addresses(p) :
    /\ p.code[a].op \notin {"SET_IN_PARENT", "POP"}
    /\ a > 0 /\ p.code[a].op \in Branches /\ p.code[a - 1].op \in Comparisons =>
         /\ p.code[a].op1 = p.code[a - 1].dest
         /\ \A b \in Addresses(p) : p.code[b].op \in Jumps => p.code[b].dest # a

(* In such a program a fused branch, which tests a register, goes where    *)
(* the handler of the branch, which tests a slot, would have sent it.      *)
FusedBranchAgrees ==
  status = "running" /\ Fused /\ JitAgrees(program) =>
    \A n \in HighWords(AtOffset(op1)) : rax = (n # 0)

(* The machine code of such a program never reads or writes outside its    *)
(* contexts.  What is undefined is a division that traps, or a call of a   *)
(* native that was passed as a callback.                                   *)
DefinedBehaviour ==
  status = "undefined" /\ JitAgrees(program) =>
    op \in {"DIV_INT", "MOD_INT"} \/ (op = "CALL" /\ Local(op1)[1] = "word")

=============================================================================
