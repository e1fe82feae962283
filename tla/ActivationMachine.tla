------------------------- MODULE ActivationMachine -------------------------
(***************************************************************************)
(* What an execution engine promises, without the value stack: a list of   *)
(* activations, each with its own arguments, operands and context.  There  *)
(* is no linkage to overwrite, no offset to get wrong and no base pointer; *)
(* both engines are checked to implement this specification.               *)
(*                                                                         *)
(* An activation                                                           *)
(*   pc        next instruction                                            *)
(*   args      the values its caller passed, first to last                 *)
(*   operands  values pushed and not yet passed on                         *)
(*   parent    context its function reference captured                     *)
(*   ctx       its context in the heap, or nullptr for a leaf              *)
(*   locals    the context of a leaf, slot i being element i + 1           *)
(*   dest      the caller's slot that gets the result                      *)
(***************************************************************************)
EXTENDS Bytecode

CONSTANTS
  Programs,
  Capacity,    \* words of memory for activations
  CallWords,   \* words a call takes beside its arguments
  KeepsTag     \* int opcodes that keep the tag of an operand they replace

VARIABLES program, acts, heap, fn_refs, output, status

avars == <<program, acts, heap, fn_refs, output, status>>

ATop == Len(acts)
Running == acts[ATop]
Instr == program.code[Running.pc]

-----------------------------------------------------------------------------
(* Contexts *)

IsLeaf == Running.ctx = nullptr
GetSlot(i) == IF IsLeaf THEN Running.locals[i + 1] ELSE heap[Running.ctx[2]][i + 1]

ContextNumber(v) == IF v[1] = "heap" /\ v[2] \in DOMAIN heap THEN v[2] ELSE 0
Enclosing(depth) ==
  LET up[n \in 1 .. depth] ==
        IF n = 1 THEN ContextNumber(GetSlot(0))
        ELSE IF up[n - 1] = 0 THEN 0 ELSE ContextNumber(heap[up[n - 1]][1])
  IN  up[depth]
EnclosingHas(depth, i) == Enclosing(depth) # 0 /\ i + 1 \in DOMAIN heap[Enclosing(depth)]

NewSlot(i, parent) ==
  IF i = 0 THEN parent ELSE IF parent = nullptr /\ i <= NativeCount THEN uvalue(i - 1)
  ELSE undef

Advance(a) == [a EXCEPT !.pc = @ + 1]

(* The running activation becomes a, with v in slot i of its context. *)
Becomes(a) == acts' = [acts EXCEPT ![ATop] = a]
Assigns(a, i, v) ==
  IF IsLeaf THEN Becomes([a EXCEPT !.locals[i + 1] = v]) /\ UNCHANGED heap
  ELSE Becomes(a) /\ heap' = [heap EXCEPT ![Running.ctx[2]][i + 1] = v]

LastOperand == Running.operands[Len(Running.operands)]
DropOperands(a, n) ==
  [a EXCEPT !.operands = SubSeq(@, 1, Len(@) - n)]

-----------------------------------------------------------------------------
(* Calls *)

Runs(opcodes) == status = "running" /\ Instr.op \in opcodes /\ UNCHANGED <<program, status>>

(* A new leaf context holds whatever the memory held, but for its header. *)
AEnter ==
  /\ Runs(FnEnters)
  /\ IF Instr.op = "FN_ENTER_HEAP"
       THEN /\ heap' = Append(heap, [i \in 1 .. Instr.op1 |-> NewSlot(i - 1, Running.parent)])
            /\ Becomes([Advance(Running) EXCEPT !.ctx = <<"heap", Len(heap) + 1>>])
       ELSE LET locals == acts'[ATop].locals IN
            /\ Becomes([Advance(Running) EXCEPT !.locals = locals])
            /\ locals \in Seq(Value)
            /\ Len(locals) = Instr.op1
            /\ locals[1] = Running.parent
            /\ UNCHANGED heap
  /\ UNCHANGED <<fn_refs, output>>

(* The last op2 operands become the arguments. *)
ACall ==
  LET f == fn_refs[GetSlot(Instr.op1)[2]]
      n == Len(Running.operands) - Instr.op2
  IN
  /\ Runs({"CALL"})
  /\ GetSlot(Instr.op1)[1] = "fnref"
  /\ acts' = Append([acts EXCEPT ![ATop] = DropOperands(Advance(Running), Instr.op2)],
                    [pc |-> f.entry,
                     args |-> SubSeq(Running.operands, n + 1, Len(Running.operands)),
                     operands |-> << >>, parent |-> f.parent,
                     ctx |-> nullptr, locals |-> << >>, dest |-> Instr.dest])
  /\ UNCHANGED <<heap, fn_refs, output>>

(* The caller goes on where it was; a result goes to the slot it named. *)
AReturn ==
  /\ Runs({"RET"})
  /\ ATop > 1
  /\ LET caller == acts[ATop - 1]
         rest == SubSeq(acts, 1, ATop - 1)
         result == GetSlot(Instr.dest)
         slot == Running.dest + 1
     IN  IF Instr.dest = 0 THEN acts' = rest /\ UNCHANGED heap
         ELSE IF caller.ctx = nullptr
           THEN acts' = [rest EXCEPT ![ATop - 1].locals[slot] = result] /\ UNCHANGED heap
         ELSE acts' = rest /\ heap' = [heap EXCEPT ![caller.ctx[2]][slot] = result]
  /\ UNCHANGED <<fn_refs, output>>

AFinish ==
  /\ status = "running"
  /\ Instr.op = "RET"
  /\ ATop = 1
  /\ status' = "returned"
  /\ UNCHANGED <<program, acts, heap, fn_refs, output>>

-----------------------------------------------------------------------------
(* Everything else *)

AJump ==
  /\ Runs(Jumps)
  /\ \/ Instr.op = "JMP" /\ Becomes([Running EXCEPT !.pc = Instr.dest])
     \/ /\ Instr.op # "JMP"
        /\ \E n \in HighWords(GetSlot(Instr.op1)) :
             Becomes(IF (n # 0) = (Instr.op = "JMP_TRUE")
                       THEN [Running EXCEPT !.pc = Instr.dest] ELSE Advance(Running))
  /\ UNCHANGED <<heap, fn_refs, output>>

ImmediateOf(i) ==
  CASE i.op = "MOV_INT" -> ivalue(i.op1)
    [] i.op = "MOV_BOOLEAN" -> <<"bool", i.op1>>
    [] i.op = "MOV_DECIMAL" -> dvalue(i.op1)
    [] i.op = "MOV_STRING" -> svalue(i.op1)
    [] i.op = "MOV_NULL" -> nvalue

(* Int arithmetic whose result keeps the tag of an operand that is no int. *)
ReplacesOther ==
  /\ Instr.op \in KeepsTag
  /\ Instr.dest \in {Instr.op1, Instr.op2}
  /\ GetSlot(Instr.dest)[1] # "int"

BinaryOutcomes ==
  LET results == BinaryResults(Instr.op, GetSlot(Instr.op1), GetSlot(Instr.op2))
  IN  IF ReplacesOther /\ results # {} THEN Value ELSE results

(* The words an instruction may compute; nothing is promised about an      *)
(* argument that was not passed, nor about the result of ReplacesOther.    *)
Outcomes ==
  CASE Instr.op = "MOV" -> {GetSlot(Instr.op1)}
    [] Instr.op \in Immediates -> {ImmediateOf(Instr)}
    [] Instr.op = "MOV_FNC" -> {<<"fnref", Len(fn_refs) + 1>>}
    [] Instr.op \in BinaryOpcodes -> BinaryOutcomes
    [] Instr.op \in UnaryOpcodes -> UnaryResults(Instr.op, GetSlot(Instr.op1))
    [] Instr.op = "ARG_READ" ->
         IF Instr.op1 < Len(Running.args) THEN {Running.args[Len(Running.args) - Instr.op1]}
         ELSE Value
    [] Instr.op = "GET_IN_PARENT" ->
         IF EnclosingHas(Instr.op1, Instr.op2)
           THEN {heap[Enclosing(Instr.op1)][Instr.op2 + 1]} ELSE {}
    [] Instr.op = "POP" -> {LastOperand}
    [] Instr.op = "CALL_NATIVE" ->
         IF GetSlot(Instr.op1) = uvalue(0) THEN {ivalue(0)} ELSE {}

Computing == {"MOV", "MOV_FNC", "ARG_READ", "GET_IN_PARENT", "POP", "CALL_NATIVE"}
               \cup Immediates \cup BinaryOpcodes \cup UnaryOpcodes

Written(v) ==
  CASE v[1] \in {"int", "dec", "str", "negzero", "nonfinite"} -> v
    [] v[1] = "bool" -> <<"bool", IF v[2] = 0 THEN 0 ELSE 1>>
    [] v[1] = "null" -> nvalue
    [] v[1] = "fnref" -> <<"fnref", 0>>
    [] OTHER -> <<"word", 0>>

ACompute ==
  /\ Runs(Computing)
  /\ \E v \in Outcomes :
       Assigns(DropOperands(Advance(Running),
                            IF Instr.op \in {"POP", "CALL_NATIVE"} THEN 1 ELSE 0),
               Instr.dest, v)
  /\ fn_refs' = IF Instr.op # "MOV_FNC" THEN fn_refs
                ELSE Append(fn_refs, [parent |-> Running.ctx, entry |-> Instr.op1])
  /\ output' = IF Instr.op # "CALL_NATIVE" THEN output
               ELSE Append(output, Written(LastOperand))

APush ==
  /\ Runs({"PUSH"})
  /\ Becomes([Advance(Running) EXCEPT !.operands = Append(@, GetSlot(Instr.op1))])
  /\ UNCHANGED <<heap, fn_refs, output>>

ASetInParent ==
  /\ Runs({"SET_IN_PARENT"})
  /\ EnclosingHas(Instr.op1, Instr.dest)
  /\ heap' = [heap EXCEPT ![Enclosing(Instr.op1)][Instr.dest + 1] = GetSlot(Instr.op2)]
  /\ Becomes(Advance(Running))
  /\ UNCHANGED <<fn_refs, output>>

ASkip ==
  /\ Runs(ObjectOpcodes)
  /\ Becomes(Advance(Running))
  /\ UNCHANGED <<heap, fn_refs, output>>

-----------------------------------------------------------------------------
(* Ends *)

(* Words in use, counting what a call needs beside its arguments. *)
InUse ==
  LET upTo[k \in 0 .. ATop] ==
        IF k = 0 THEN 1
        ELSE upTo[k - 1] + Len(acts[k].args) + Len(acts[k].locals) + Len(acts[k].operands)
               + IF k = 1 THEN 0 ELSE CallWords
  IN  upTo[ATop]
Needed == CASE Instr.op = "PUSH" -> 1
            [] Instr.op = "CALL" -> CallWords
            [] Instr.op = "FN_ENTER_STACK" -> Instr.op1
            [] OTHER -> 0

(* The only reasons to give up: memory is full, or the callee is null. *)
AError ==
  /\ status = "running"
  /\ \/ InUse + Needed > Capacity
     \/ Instr.op = "CALL" /\ IsNull(GetSlot(Instr.op1))
  /\ status' = "error"
  /\ UNCHANGED <<program, acts, heap, fn_refs, output>>

(* No promise is made about a program that traps or calls a non-function. *)
AUndefined ==
  /\ status = "running"
  /\ \/ Instr.op \in Computing /\ Outcomes = {}
     \/ Instr.op = "SET_IN_PARENT" /\ ~EnclosingHas(Instr.op1, Instr.dest)
     \/ Instr.op = "CALL" /\ GetSlot(Instr.op1)[1] \notin {"fnref", "null"}
  /\ status' = "undefined"
  /\ UNCHANGED <<program, acts, heap, fn_refs, output>>

AInit ==
  /\ program \in Programs
  /\ acts = <<[pc |-> 0, args |-> << >>, operands |-> << >>, parent |-> nullptr,
               ctx |-> nullptr, locals |-> << >>, dest |-> 0]>>
  /\ heap = << >>
  /\ fn_refs = << >>
  /\ output = << >>
  /\ status = "running"

ANext == \/ AEnter \/ ACall \/ AReturn \/ AFinish \/ AJump \/ ACompute \/ APush
         \/ ASetInParent \/ ASkip \/ AError \/ AUndefined

ASpec == AInit /\ [][ANext]_avars

=============================================================================
