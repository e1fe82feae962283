-------------------------- MODULE CallFrames_proof --------------------------
(***************************************************************************)
(* The interpreter keeps the calling convention: each of its handlers is   *)
(* one of the steps of Frames_proof, which preserve it.                    *)
(***************************************************************************)
EXTENDS CallFrames, Frames_proof

(* The linkage of the interpreter: the words of prepare_call, and thus     *)
(* what the handler of RET reads.                                          *)
LinkageRecorded ==
  \A k \in 2 .. Depth :
    LET f == frames[k] IN
    f.linkage = <<uvalue(Len(f.args)), <<"code", f.resume>>, f.ctx,
                  uvalue(WORD * f.dest), f.parent>>

InterpreterConvention ==
  /\ CallingConvention
  /\ LinkageRecorded

(* There are five of them. *)
LEMMA LinkageLength ==
  ASSUME InterpreterConvention, Depth \in 2 .. Depth
  PROVE  Len(Frame.linkage) = 5
<1>1. PICK words : words = Frame.linkage
  OBVIOUS
<1>2. words = <<uvalue(Len(Frame.args)), <<"code", Frame.resume>>, Frame.ctx,
                uvalue(WORD * Frame.dest), Frame.parent>>
  BY <1>1 DEF InterpreterConvention, LinkageRecorded, Frame
<1>3. Len(words) = 5
  BY <1>2
<1> QED
  BY <1>1, <1>3

(* The linkage words are where the handlers look for them. *)
LEMMA LinkageFound ==
  ASSUME InterpreterConvention
  PROVE  LinkageIntact
<1>1. value_stack[0] = nullptr
  BY DEF InterpreterConvention, CallingConvention, LinkageKept
<1>2. ASSUME NEW k \in 2 .. Depth
      PROVE  LET f == frames[k] IN
             /\ value_stack[f.base - 5] = uvalue(Len(f.args))
             /\ value_stack[f.base - 4] = <<"code", f.resume>>
             /\ value_stack[f.base - 3] = f.ctx
             /\ value_stack[f.base - 2] = uvalue(WORD * f.dest)
             /\ value_stack[f.base - 1] = IF Entered(k) THEN uvalue(frames[k - 1].base)
                                          ELSE f.parent
             /\ \A n \in 1 .. Len(f.args) : value_stack[ArgumentsStart(k) + n - 1] = f.args[n]
  <2> DEFINE f == frames[k]
  <2>1. f.linkage = <<uvalue(Len(f.args)), <<"code", f.resume>>, f.ctx,
                      uvalue(WORD * f.dest), f.parent>>
    BY DEF InterpreterConvention, LinkageRecorded
  <2>2. /\ \A j \in 2 .. Len(f.linkage) :
             value_stack[f.base - j] = f.linkage[Len(f.linkage) - j + 1]
        /\ value_stack[f.base - 1] = IF Entered(k) THEN uvalue(frames[k - 1].base)
                                     ELSE f.parent
        /\ \A n \in 1 .. Len(f.args) : value_stack[ArgumentsStart(k) + n - 1] = f.args[n]
    BY DEF InterpreterConvention, CallingConvention, LinkageKept
  <2>3. PICK words : words = f.linkage
    OBVIOUS
  <2>4. /\ Len(words) = 5
        /\ words[1] = uvalue(Len(f.args))
        /\ words[2] = <<"code", f.resume>>
        /\ words[3] = f.ctx
        /\ words[4] = uvalue(WORD * f.dest)
    BY <2>1, <2>3
  <2>5. \A j \in 2 .. 5 : value_stack[f.base - j] = words[5 - j + 1]
    BY <2>2, <2>3, <2>4
  <2>6. /\ value_stack[f.base - 5] = words[1]
        /\ value_stack[f.base - 4] = words[2]
        /\ value_stack[f.base - 3] = words[3]
        /\ value_stack[f.base - 2] = words[4]
    BY <2>5
  <2> QED
    BY <2>2, <2>4, <2>6
<1> QED
  BY <1>1, <1>2 DEF LinkageIntact

-----------------------------------------------------------------------------
(* Instructions as prepare_vm_instructions leaves them *)

(* What a handler sees of its instruction. *)
LEMMA Decoding ==
  LET i == program.code[ip] IN
  /\ op = i.op
  /\ IsImmediate(op) => op1 = i.op1 /\ op2 = i.op2
  /\ ~IsImmediate(op) => op1 = WORD * i.op1 /\ op2 = WORD * i.op2
  /\ UsingDestinationOffset(op) => destination = WORD * i.dest
  /\ ~UsingDestinationOffset(op) => destination = i.dest
BY DEF op, op1, op2, destination, instruction, Prepare

(* A handler that computes a word stores it into the slot the instruction  *)
(* names.                                                                  *)
LEMMA DestinationSlot ==
  ASSUME CallingConvention, WritesDest(op), NEW v, Computes(v)
  PROVE  /\ StoreSlot(context_object, program.code[ip].dest, v)
         /\ ip' = ip + 1
         /\ UNCHANGED <<base_pointer, call_depth, context_object>>
<1>1. UsingDestinationOffset(op)
  BY DEF UsingDestinationOffset, WritesDest, FnEnters, Jumps, Branches, Immediates,
         BinaryOpcodes, UnaryOpcodes, IntArithmetic, DecimalArithmetic, Comparisons,
         IntComparisons, DecimalComparisons
<1>2. program.code[ip].dest \in Nat
  BY InstructionFacts
<1>3. destination \div WORD = program.code[ip].dest
  BY <1>1, <1>2, Decoding, Unscaled
<1> QED
  BY <1>3 DEF Computes, Destination, GotoNext

(* The operands of a handler that takes them from slots are words. *)
LEMMA OperandsAreValues ==
  ASSUME CallingConvention, ~Entering
  PROVE  /\ op \in {"MOV", "CALL_NATIVE", "PUSH"} \cup Branches \cup BinaryOpcodes \cup UnaryOpcodes
              => AtOffset(op1) \in Value
         /\ op \in BinaryOpcodes => AtOffset(op2) \in Value
<1> DEFINE i == program.code[ip]
           reading == {"MOV", "CALL_NATIVE", "PUSH"} \cup Branches \cup BinaryOpcodes
                         \cup UnaryOpcodes
<1>1. ASSUME op \in reading
      PROVE  AtOffset(op1) \in Value
  <2>1. i.op1 \in SlotsRead(i)
    BY <1>1, Decoding DEF SlotsRead
  <2>2. ~IsImmediate(op)
    BY <1>1 DEF IsImmediate, FnEnters, ObjectOpcodes, Branches, BinaryOpcodes, UnaryOpcodes,
       IntArithmetic, DecimalArithmetic, Comparisons, IntComparisons, DecimalComparisons
  <2> QED
    BY <2>1, <2>2, Decoding, SlotFacts, Unscaled DEF AtOffset
<1>2. ASSUME op \in BinaryOpcodes
      PROVE  AtOffset(op2) \in Value
  <2>1. i.op2 \in SlotsRead(i)
    BY <1>2, Decoding DEF SlotsRead
  <2>2. ~IsImmediate(op)
    BY <1>2 DEF IsImmediate, FnEnters, ObjectOpcodes, BinaryOpcodes,
       IntArithmetic, DecimalArithmetic, Comparisons, IntComparisons, DecimalComparisons
  <2> QED
    BY <2>1, <2>2, Decoding, SlotFacts, Unscaled DEF AtOffset
<1> QED
  BY <1>1, <1>2

-----------------------------------------------------------------------------
(* The handlers *)

(* MOV_INT, MOV_NULL, MOV_BOOLEAN, MOV_DECIMAL and MOV_STRING. *)
LEMMA MoveImmediateLocal ==
  ASSUME CallingConvention, MoveImmediate, UNCHANGED frames
  PROVE  LocalStep
<1> DEFINE i == program.code[ip]
           v == ImmediateValue(op, op1)
<1>1. /\ op \in Immediates
      /\ Computes(v)
      /\ UNCHANGED <<program, status, stack_pointer, fn_refs, output>>
  BY DEF MoveImmediate, Executes
<1>2. v \in Value
  <2>1. op # "MOV_NULL" => op1 = i.op1
    BY <1>1, Decoding DEF Immediates, IsImmediate
  <2>2. op = "MOV_NULL" => v \in Value
    BY ConstructorsAreValues DEF ImmediateValue
  <2>3. op # "MOV_NULL" => v \in Value
    BY <1>1, <2>1, Decoding, InstructionFacts, ImmediatesAreValues
  <2> QED
    BY <2>2, <2>3
<1> HIDE DEF v
<1>3. /\ ~Entering
      /\ i.op \notin {"JMP", "RET", "CALL", "CALL_NATIVE", "POP", "PUSH"}
      /\ i.op = op
      /\ WritesDest(op)
  BY <1>1, Decoding, InstructionFacts DEF Immediates, FnEnters, WritesDest
<1> QED
  BY <1>1, <1>2, <1>3, DestinationSlot, PlainComputingSteps

(* MOV. *)
LEMMA MoveLocal ==
  ASSUME CallingConvention, Move, UNCHANGED frames
  PROVE  LocalStep
<1>1. /\ op = "MOV"
      /\ Computes(AtOffset(op1))
      /\ UNCHANGED <<program, status, stack_pointer, fn_refs, output>>
  BY DEF Move, Executes
<1>2. ~Entering /\ WritesDest(op) /\ program.code[ip].op = "MOV"
  BY <1>1, Decoding, InstructionFacts DEF FnEnters, WritesDest
<1>3. AtOffset(op1) \in Value
  BY <1>1, <1>2, OperandsAreValues
<1> QED
  BY <1>1, <1>2, <1>3, DestinationSlot, PlainComputingSteps

(* Arithmetic, concatenation, comparison and conversion. *)
LEMMA OperatorLocal ==
  ASSUME CallingConvention, Binary \/ Unary, UNCHANGED frames
  PROVE  LocalStep
<1>1. /\ op \in BinaryOpcodes \cup UnaryOpcodes
      /\ UNCHANGED <<program, status, stack_pointer, fn_refs, output>>
  BY DEF Binary, Unary, Executes
<1>2. /\ ~Entering
      /\ WritesDest(op)
      /\ program.code[ip].op = op
      /\ op \notin {"JMP", "RET", "CALL", "CALL_NATIVE", "POP", "PUSH"}
  BY <1>1, Decoding, InstructionFacts DEF BinaryOpcodes, UnaryOpcodes, IntArithmetic,
     DecimalArithmetic, Comparisons, IntComparisons, DecimalComparisons, FnEnters, WritesDest
<1>3. PICK v : v \in Value /\ Computes(v)
  <2>1. CASE Binary
    <3>1. op \in BinaryOpcodes
      BY <2>1 DEF Binary, Executes
    <3>2. PICK v \in BinaryResults(op, AtOffset(op1), AtOffset(op2)) : Computes(v)
      BY <2>1 DEF Binary
    <3>3. v \in Value
      BY <1>2, <3>1, <3>2, OperandsAreValues, BinaryResultsAreValues
    <3> QED
      BY <3>2, <3>3
  <2>2. CASE Unary
    <3>1. op \in UnaryOpcodes
      BY <2>2 DEF Unary, Executes
    <3>2. PICK v \in UnaryResults(op, AtOffset(op1)) : Computes(v)
      BY <2>2 DEF Unary
    <3>3. v \in Value
      BY <1>2, <3>1, <3>2, OperandsAreValues, UnaryResultsAreValues
    <3> QED
      BY <3>2, <3>3
  <2> QED
    BY <2>1, <2>2
<1> QED
  BY <1>1, <1>2, <1>3, DestinationSlot, PlainComputingSteps

(* ARG_READ, which may read any word but writes only its slot. *)
LEMMA ArgReadLocal ==
  ASSUME CallingConvention, ArgRead, UNCHANGED frames
  PROVE  LocalStep
<1> DEFINE v == StackWord(base_pointer - ArgumentOffset - op1)
<1>1. /\ op = "ARG_READ"
      /\ Computes(v)
      /\ UNCHANGED <<program, status, stack_pointer, fn_refs, output>>
  BY DEF ArgRead, Executes
<1>2. ~Entering /\ WritesDest(op) /\ program.code[ip].op = "ARG_READ"
  BY <1>1, Decoding, InstructionFacts DEF FnEnters, WritesDest
<1>3. v \in Value
  BY StateFacts, ConstructorsAreValues DEF StackWord
<1> HIDE DEF v
<1> QED
  BY <1>1, <1>2, <1>3, DestinationSlot, PlainComputingSteps

(* MOV_FNC. *)
LEMMA MoveFunctionLocal ==
  ASSUME CallingConvention, MoveFunction, UNCHANGED frames
  PROVE  LocalStep
<1> DEFINE v == <<"fnref", Len(fn_refs) + 1>>
<1>1. /\ op = "MOV_FNC"
      /\ fn_refs' = Append(fn_refs, [parent |-> context_object, entry |-> op1])
      /\ Computes(v)
      /\ UNCHANGED <<program, status, stack_pointer, output>>
  BY DEF MoveFunction, Executes
<1>2. WritesDest(op) /\ program.code[ip].op = "MOV_FNC" /\ op1 = program.code[ip].op1
  BY <1>1, Decoding DEF WritesDest, IsImmediate
<1>3. StoreSlot(context_object, program.code[ip].dest, v)
  <2> HIDE DEF v
  <2> QED
    BY <1>1, <1>2, DestinationSlot
<1>4. ip' = ip + 1 /\ UNCHANGED <<base_pointer, call_depth, context_object>>
  BY <1>1 DEF Computes, GotoNext
<1> QED
  BY <1>1, <1>2, <1>3, <1>4, MoveFunctionSteps

(* POP and CALL_NATIVE. *)
LEMMA TopLocal ==
  ASSUME CallingConvention, Pop \/ CallNative, UNCHANGED frames
  PROVE  LocalStep
<1>1. CASE Pop
  <2>1. /\ op = "POP"
        /\ Computes(Top)
        /\ stack_pointer' = stack_pointer - 1
        /\ UNCHANGED <<program, status, fn_refs, output>>
    BY <1>1 DEF Pop, Executes
  <2>2. WritesDest(op) /\ program.code[ip].op = "POP"
    BY <2>1, Decoding DEF WritesDest
  <2> QED
    BY <2>1, <2>2, DestinationSlot, PopSteps
<1>2. CASE CallNative
  <2>1. /\ op = "CALL_NATIVE"
        /\ Computes(ivalue(0))
        /\ output' = Append(output, Printed(Top))
        /\ stack_pointer' = stack_pointer - 1
        /\ UNCHANGED <<program, status, fn_refs>>
    BY <1>2 DEF CallNative, Executes
  <2>2. WritesDest(op) /\ program.code[ip].op = "CALL_NATIVE"
    BY <2>1, Decoding DEF WritesDest
  <2> QED
    BY <2>1, <2>2, DestinationSlot, CallNativeSteps
<1> QED
  BY <1>1, <1>2

(* PUSH. *)
LEMMA PushLocal ==
  ASSUME CallingConvention, Push, UNCHANGED frames
  PROVE  LocalStep
<1> DEFINE v == AtOffset(op1)
<1>1. /\ op = "PUSH"
      /\ ~ExitsWithError
      /\ PushWord(v)
      /\ ip' = ip + 1
      /\ UNCHANGED <<program, status>>
  BY DEF Push, Executes, GotoNext
<1>2. ~Entering /\ program.code[ip].op = "PUSH"
  BY <1>1, Decoding, InstructionFacts DEF FnEnters
<1>3. v \in Value
  BY <1>1, <1>2, OperandsAreValues
<1>4. stack_pointer <= STACK_MAX
  BY <1>1, StateFacts, StackMaxAssumption DEF ExitsWithError, CanPush
<1> HIDE DEF v
<1> QED
  BY <1>1, <1>2, <1>3, <1>4, PushSteps

(* JMP, JMP_TRUE, JMP_FALSE and the object instructions. *)
LEMMA ControlLocal ==
  ASSUME CallingConvention, Jump \/ Branch \/ ObjectAccess, UNCHANGED frames
  PROVE  LocalStep
<1> DEFINE i == program.code[ip]
<1>1. UNCHANGED <<program, status, machine>>
  BY DEF Jump, Branch, ObjectAccess, Executes
<1>2. \/ i.op \in Jumps /\ ip' = i.dest
      \/ i.op \in Branches \cup ObjectOpcodes /\ ip' = ip + 1
  <2>1. CASE Jump
    BY <2>1, Decoding DEF Jump, Executes, UsingDestinationOffset, Jumps
  <2>2. CASE Branch
    <3>1. op \in Branches /\ (ip' = destination \/ ip' = ip + 1)
      BY <2>2 DEF Branch, Executes
    <3>2. destination = i.dest
      BY <3>1, Decoding DEF UsingDestinationOffset, Jumps
    <3> QED
      BY <3>1, <3>2, Decoding DEF Jumps
  <2>3. CASE ObjectAccess
    BY <2>3, Decoding DEF ObjectAccess, Executes, GotoNext
  <2> QED
    BY <2>1, <2>2, <2>3
<1> QED
  BY <1>1, <1>2, ControlSteps

(* GET_IN_PARENT. *)
LEMMA GetInParentLocal ==
  ASSUME CallingConvention, GetInParent, UNCHANGED frames
  PROVE  LocalStep
<1> DEFINE v == Slot(Ancestor(op1), op2)
<1>1. /\ op = "GET_IN_PARENT"
      /\ ~IsUndefined
      /\ Computes(v)
      /\ UNCHANGED <<program, status, stack_pointer, fn_refs, output>>
  BY DEF GetInParent, Executes
<1>2. ~Entering /\ WritesDest(op) /\ program.code[ip].op = "GET_IN_PARENT"
  BY <1>1, Decoding, InstructionFacts DEF FnEnters, WritesDest
<1>3. Ancestor(op1) \in Contexts /\ HasSlot(Ancestor(op1), op2)
  BY <1>1 DEF IsUndefined, BinaryOpcodes, IntArithmetic, DecimalArithmetic, Comparisons,
     IntComparisons, DecimalComparisons
<1>4. v \in Value
  BY <1>2, <1>3, AncestorSlots
<1> HIDE DEF v
<1> QED
  BY <1>1, <1>2, <1>4, DestinationSlot, PlainComputingSteps

(* SET_IN_PARENT. *)
LEMMA SetInParentLocal ==
  ASSUME CallingConvention, SetInParent, UNCHANGED frames
  PROVE  LocalStep
<1> DEFINE i == program.code[ip]
<1>1. /\ op = "SET_IN_PARENT"
      /\ ~IsUndefined
      /\ StoreSlot(Ancestor(op1), destination, Local(op2))
      /\ ip' = ip + 1
      /\ UNCHANGED <<program, status, stack_pointer, base_pointer, call_depth,
                     context_object, fn_refs, output>>
  BY DEF SetInParent, Executes, GotoNext
<1>2. ~Entering /\ i.op = "SET_IN_PARENT"
  BY <1>1, Decoding, InstructionFacts DEF FnEnters
<1>3. Ancestor(op1) \in Contexts /\ HasSlot(Ancestor(op1), destination)
  BY <1>1 DEF IsUndefined, BinaryOpcodes, IntArithmetic, DecimalArithmetic, Comparisons,
     IntComparisons, DecimalComparisons
<1>4. destination \in Nat \ {0}
  <2>1. destination = i.dest
    BY <1>1, Decoding DEF UsingDestinationOffset
  <2> QED
    BY <1>2, <2>1, InstructionFacts DEF WellFormedAt
<1>5. Local(op2) \in Value
  <2>1. i.op2 \in SlotsRead(i) /\ op2 = i.op2
    BY <1>1, Decoding DEF SlotsRead, IsImmediate
  <2> QED
    BY <1>2, <2>1, SlotFacts
<1> QED
  BY <1>1, <1>2, <1>3, <1>4, <1>5, SetInParentSteps

(* FN_ENTER_HEAP and FN_ENTER_STACK. *)
LEMMA FnEnterEnters ==
  ASSUME CallingConvention, FnEnterHeap \/ FnEnterStack, UNCHANGED frames
  PROVE  EnterStep
<1>1. op \in FnEnters
  BY DEF FnEnterHeap, FnEnterStack, Executes, FnEnters
<1>2. op1 = program.code[ip].op1 /\ op = program.code[ip].op
  BY <1>1, Decoding DEF IsImmediate
<1>3. CASE FnEnterHeap
  BY <1>2, <1>3 DEF FnEnterHeap, Executes, GotoNext, EnterStep
<1>4. CASE FnEnterStack
  <2>1. op = "FN_ENTER_STACK" /\ ~ExitsWithError /\ EnterStack(op1) /\ ip' = ip + 1
        /\ status = "running" /\ UNCHANGED <<program, status>>
    BY <1>4 DEF FnEnterStack, Executes, GotoNext
  <2>2. ~(stack_pointer + op1 > STACK_MAX)
    BY <2>1 DEF ExitsWithError
  <2>3. op1 \in Nat
    BY <1>2, <2>1, EnteringFacts, InstructionFacts DEF FnEnters
  <2>4. stack_pointer + op1 <= STACK_MAX
    BY <2>2, <2>3, StateFacts, StackMaxAssumption
  <2> QED
    BY <1>2, <2>1, <2>4 DEF EnterStep
<1> QED
  BY <1>3, <1>4

(* CALL. *)
LEMMA CallCalls ==
  ASSUME CallingConvention, HCall
  PROVE  /\ CallStep(Linkage)
         /\ Linkage = <<uvalue(program.code[ip].op2), <<"code", ip + 1>>, context_object,
                        uvalue(WORD * program.code[ip].dest),
                        Callee(Local(program.code[ip].op1)).parent>>
<1> DEFINE i == program.code[ip]
           callee == Callee(Local(i.op1))
<1>1. /\ op = "CALL"
      /\ status = "running"
      /\ ~IsUndefined
      /\ ~ExitsWithError
      /\ UNCHANGED <<program, status>>
  BY DEF HCall, Call, Executes
<1>2. op1 = i.op1 /\ op2 = i.op2 /\ destination = WORD * i.dest /\ i.op = "CALL"
  BY <1>1, Decoding DEF IsImmediate, UsingDestinationOffset, FnEnters, Jumps, Branches
<1>3. IsFnRef(Local(op1)) /\ CanPush(stack_pointer, LinkageWords)
  <2>1. ~(~IsNull(Local(op1)) /\ ~IsFnRef(Local(op1)))
    BY <1>1 DEF IsUndefined, BinaryOpcodes, IntArithmetic, DecimalArithmetic, Comparisons,
       IntComparisons, DecimalComparisons
  <2>2. ~IsNull(Local(op1)) /\ CanPush(stack_pointer, LinkageWords)
    BY <1>1 DEF ExitsWithError
  <2> QED
    BY <2>1, <2>2
<1>4. /\ i.op2 \in Nat /\ i.dest \in Nat /\ ip + 1 \in Nat
      /\ callee.parent \in Value /\ context_object \in Value
      /\ stack_pointer \in Nat
  BY <1>2, <1>3, CallFacts
<1>5. Linkage = <<uvalue(i.op2), <<"code", ip + 1>>, context_object,
                  uvalue(WORD * i.dest), callee.parent>>
  BY <1>2 DEF Linkage
<1>6. PICK linkage : linkage = Linkage
  OBVIOUS
<1>7. linkage \in Seq(Value) /\ Len(linkage) = 5 /\ linkage[5] = callee.parent
  <2>1. uvalue(i.op2) \in Value /\ uvalue(WORD * i.dest) \in Value
    BY <1>4, ConstructorsAreValues DEF WORD
  <2>2. <<"code", ip + 1>> \in Value
    BY <1>4 DEF Value, Tag
  <2> HIDE DEF i, callee
  <2> QED
    BY <1>4, <1>5, <1>6, <2>1, <2>2
<1>8. stack_pointer + 5 - 1 <= STACK_MAX
  BY <1>3, <1>4 DEF CanPush, LinkageWords
<1>9. /\ value_stack' = Pushed(value_stack, stack_pointer, linkage)
      /\ stack_pointer' = stack_pointer + 5
      /\ ip' = callee.entry
      /\ RecordCall(linkage)
      /\ UNCHANGED <<base_pointer, call_depth, context_object, heap, fn_refs, output>>
  BY <1>2, <1>6 DEF HCall, Call, LinkageWords
<1>10. CallStep(linkage)
  BY <1>1, <1>2, <1>3, <1>7, <1>8, <1>9 DEF CallStep
<1> QED
  BY <1>5, <1>6, <1>10

(* RET, which reads the linkage. *)
LEMMA ReturnReturns ==
  ASSUME InterpreterConvention, Return
  PROVE  /\ RecordReturn => ReturnStep
         /\ Depth \in 2 .. Depth
         /\ base_pointer' = frames[Depth - 1].base
         /\ stack_pointer' = ArgumentsStart(Depth)
         /\ context_object' = Frame.ctx
         /\ ip' = Frame.resume
         /\ destination # 0 => StoreSlot(Frame.ctx, Frame.dest, Local(destination))
<1> DEFINE i == program.code[ip]
<1>0. CallingConvention /\ LinkageIntact
  BY LinkageFound DEF InterpreterConvention
<1>1. /\ op = "RET"
      /\ status = "running"
      /\ call_depth # 1
      /\ UNCHANGED <<program, status, fn_refs, output>>
  BY DEF Return, Executes
<1>2. i.op = "RET" /\ destination = i.dest
  BY <1>1, Decoding DEF UsingDestinationOffset
<1>3. ~Entering
  BY <1>0, <1>2, InstructionFacts DEF FnEnters
<1>4. base_pointer = Frame.base /\ call_depth = Depth
  BY <1>0, <1>1, <1>3 DEF CallingConvention, RegistersMatchFrame
<1>5. Depth > 1 /\ Depth \in 2 .. Depth
  BY <1>0, <1>1, <1>4, FrameFacts
<1>6. /\ value_stack[Frame.base - 5] = uvalue(Len(Frame.args))
      /\ value_stack[Frame.base - 4] = <<"code", Frame.resume>>
      /\ value_stack[Frame.base - 3] = Frame.ctx
      /\ value_stack[Frame.base - 2] = uvalue(WORD * Frame.dest)
      /\ value_stack[Frame.base - 1] = uvalue(frames[Depth - 1].base)
  <2>1. Entered(Depth)
    BY <1>3 DEF Entered
  <2> QED
    BY <1>0, <1>5, <2>1 DEF LinkageIntact, Frame
<1>7. /\ SavedBase = frames[Depth - 1].base
      /\ ReturnOffset = WORD * Frame.dest
      /\ CallerContext = Frame.ctx
      /\ ReturnAddress = Frame.resume
      /\ ParameterCount = Len(Frame.args)
  BY <1>4, <1>6 DEF SavedBase, ReturnOffset, CallerContext, ReturnAddress, ParameterCount, uvalue
<1>8. ReturnOffset \div WORD = Frame.dest
  <2>1. Frame \in FrameRecord
    BY <1>0, <1>5 DEF CallingConvention, FramesTypeOK, Frame, Depth
  <2>2. Frame.dest \in Nat
    BY <2>1 DEF FrameRecord
  <2> QED
    BY <1>7, <2>2, Unscaled
<1>9. base_pointer - LinkageWords - ParameterCount = ArgumentsStart(Depth)
  <2>1. Len(Frame.linkage) = 5
    BY <1>5, LinkageLength
  <2> QED
    BY <1>4, <1>7, <2>1 DEF ArgumentsStart, Frame, LinkageWords
<1>10. /\ call_depth' = call_depth - 1
       /\ stack_pointer' = base_pointer - LinkageWords - ParameterCount
       /\ base_pointer' = SavedBase
       /\ context_object' = CallerContext
       /\ ip' = ReturnAddress
       /\ IF destination # 0
            THEN StoreSlot(CallerContext, ReturnOffset \div WORD, Local(destination))
            ELSE UNCHANGED <<value_stack, heap>>
  BY DEF Return
<1>11. RecordReturn => ReturnStep
  BY <1>1, <1>2, <1>4, <1>5, <1>7, <1>8, <1>9, <1>10 DEF ReturnStep
<1> QED
  BY <1>5, <1>7, <1>8, <1>9, <1>10, <1>11

-----------------------------------------------------------------------------
(* The invariant *)

(* Every step of the interpreter is a step of the convention. *)
LEMMA InterpreterSteps ==
  ASSUME InterpreterConvention, [HNext]_hvars
  PROVE  \/ CallStep(Linkage) /\ HCall
         \/ ReturnStep
         \/ (LocalStep \/ EnterStep \/ StopStep) /\ UNCHANGED frames
<1>0. CallingConvention
  BY DEF InterpreterConvention
<1>1. CASE HCall
  BY <1>0, <1>1, CallCalls
<1>2. CASE HReturn
  BY <1>2, ReturnReturns DEF HReturn
<1>3. CASE HWithin
  <2>1. UNCHANGED frames /\ WithinActivation
    BY <1>3 DEF HWithin
  <2>2. CASE FnEnterHeap \/ FnEnterStack
    BY <1>0, <2>1, <2>2, FnEnterEnters
  <2>3. CASE Jump \/ Branch \/ ObjectAccess
    BY <1>0, <2>1, <2>3, ControlLocal
  <2>4. CASE MoveImmediate \/ Move \/ MoveFunction
    BY <1>0, <2>1, <2>4, MoveImmediateLocal, MoveLocal, MoveFunctionLocal
  <2>5. CASE Binary \/ Unary
    BY <1>0, <2>1, <2>5, OperatorLocal
  <2>6. CASE ArgRead \/ GetInParent \/ SetInParent
    BY <1>0, <2>1, <2>6, ArgReadLocal, GetInParentLocal, SetInParentLocal
  <2>7. CASE CallNative \/ Pop \/ Push
    BY <1>0, <2>1, <2>7, TopLocal, PushLocal
  <2>8. CASE ReturnFromRoot
    BY <2>1, <2>8 DEF ReturnFromRoot, StopStep
  <2>9. CASE ErrorExit \/ UndefinedBehaviour
    <3>1. /\ UNCHANGED <<program, ip, machine>>
          /\ status' \in {"error", "undefined"}
      BY <2>9 DEF ErrorExit, UndefinedBehaviour
    <3>2. call_depth \in Nat
      BY <1>0 DEF CallingConvention, FramesTypeOK, SharedTypeOK
    <3> QED
      BY <2>1, <3>1, <3>2 DEF machine, StopStep
  <2> QED
    BY <2>1, <2>2, <2>3, <2>4, <2>5, <2>6, <2>7, <2>8, <2>9 DEF WithinActivation
<1>4. CASE HHalted \/ UNCHANGED hvars
  <2>1. UNCHANGED <<program, ip, machine, status, frames>>
    BY <1>4 DEF HHalted, Halted, hvars, vars
  <2>2. call_depth \in Nat /\ status \in {"running", "returned", "error", "undefined"}
    BY <1>0 DEF CallingConvention, FramesTypeOK, SharedTypeOK
  <2> QED
    BY <2>1, <2>2 DEF machine, StopStep
<1> QED
  BY <1>1, <1>2, <1>3, <1>4 DEF HNext

(* Every instruction preserves the convention. *)
LEMMA NextCorrect ==
  ASSUME InterpreterConvention, [HNext]_hvars
  PROVE  InterpreterConvention'
<1>0. CallingConvention
  BY DEF InterpreterConvention
<1>1. CASE CallStep(Linkage) /\ HCall
  <2>1. CallingConvention'
    BY <1>0, <1>1, CallSteps
  <2>2. LinkageRecorded'
    <3> DEFINE new == CalledFrame(Linkage)
    <3>1. /\ \A k \in 1 .. Depth : frames'[k] = frames[k]
          /\ frames'[Depth + 1] = new
          /\ Len(new.args) = program.code[ip].op2
          /\ \A k \in 2 .. Depth' : k \in 2 .. Depth \/ k = Depth + 1
      BY <1>0, <1>1, CallHistory
    <3>2. new.linkage = <<uvalue(Len(new.args)), <<"code", new.resume>>, new.ctx,
                          uvalue(WORD * new.dest), new.parent>>
      <4>1. Linkage = <<uvalue(program.code[ip].op2), <<"code", ip + 1>>, context_object,
                        uvalue(WORD * program.code[ip].dest),
                        Callee(Local(program.code[ip].op1)).parent>>
        BY <1>0, <1>1, CallCalls
      <4>2. /\ new.linkage = Linkage
            /\ new.resume = ip + 1
            /\ new.ctx = context_object
            /\ new.dest = program.code[ip].dest
            /\ new.parent = Callee(Local(program.code[ip].op1)).parent
        BY DEF CalledFrame
      <4> HIDE DEF new
      <4> QED
        BY <3>1, <4>1, <4>2
    <3> HIDE DEF new
    <3>3. \A k \in 2 .. Depth : k \in 1 .. Depth
      BY <1>0, FrameFacts
    <3> QED
      BY <3>1, <3>2, <3>3 DEF InterpreterConvention, LinkageRecorded
  <2> QED
    BY <2>1, <2>2 DEF InterpreterConvention
<1>2. CASE ReturnStep
  <2>1. CallingConvention'
    BY <1>0, <1>2, ReturnSteps
  <2>2. LinkageRecorded'
    BY <1>0, <1>2, ReturnHistory DEF InterpreterConvention, LinkageRecorded
  <2> QED
    BY <2>1, <2>2 DEF InterpreterConvention
<1>3. CASE (LocalStep \/ EnterStep \/ StopStep) /\ UNCHANGED frames
  <2>1. CallingConvention'
    BY <1>0, <1>3, LocalSteps, EnterSteps, StopSteps
  <2>2. LinkageRecorded'
    BY <1>3 DEF InterpreterConvention, LinkageRecorded, Depth
  <2> QED
    BY <2>1, <2>2 DEF InterpreterConvention
<1> QED
  BY <1>1, <1>2, <1>3, InterpreterSteps

(* The convention holds when vm_interpret starts. *)
LEMMA InitCorrect ==
  ASSUME HInit
  PROVE  InterpreterConvention
<1>1. CallingConvention
  BY StartCorrect DEF HInit, Init
<1>2. Depth = 1
  BY DEF HInit, RecordStart, Depth
<1> QED
  BY <1>1, <1>2 DEF InterpreterConvention, LinkageRecorded

(* The calling convention holds whenever an instruction starts: see        *)
(* CallingConvention above.                                                *)
THEOREM ConventionHolds == HSpec => []InterpreterConvention
<1>1. HInit => InterpreterConvention
  BY InitCorrect
<1>2. InterpreterConvention /\ [HNext]_hvars => InterpreterConvention'
  BY NextCorrect
<1> QED
  BY <1>1, <1>2, PTL DEF HSpec

(* Every variable keeps its type; in particular ip never leaves the code   *)
(* and the stack pointer never passes the two words behind the array.      *)
THEOREM TypeCorrect == HSpec => []FramesTypeOK
<1>1. InterpreterConvention => FramesTypeOK
  BY DEF InterpreterConvention, CallingConvention
<1> QED
  BY <1>1, ConventionHolds, PTL

(* Between instructions the registers are those of the running activation  *)
(* and its operands are balanced.                                          *)
THEOREM RegistersCorrect == HSpec => []RegistersMatchFrame
<1>1. InterpreterConvention => RegistersMatchFrame
  BY DEF InterpreterConvention, CallingConvention
<1> QED
  BY <1>1, ConventionHolds, PTL

(* Nothing a program does overwrites the linkage or the arguments of an    *)
(* activation that has not returned.                                       *)
THEOREM LinkageSurvives == HSpec => []LinkageIntact
<1>1. InterpreterConvention => LinkageIntact
  BY LinkageFound
<1> QED
  BY <1>1, ConventionHolds, PTL

(* A suspended activation resumes in its own function with its own         *)
(* operands.                                                               *)
THEOREM ResumptionCorrect == HSpec => []ResumesInCaller
<1>1. InterpreterConvention => ResumesInCaller
  BY DEF InterpreterConvention, CallingConvention
<1> QED
  BY <1>1, ConventionHolds, PTL

(* Activations never share a word of the stack. *)
THEOREM StackPartitioned == HSpec => []FramesDisjoint
<1>1. InterpreterConvention => FramesDisjoint
  BY DEF InterpreterConvention, CallingConvention
<1> QED
  BY <1>1, ConventionHolds, PTL

(* Every activation keeps the context it was entered with. *)
THEOREM ContextsSurvive == HSpec => []ContextsOwned
<1>1. InterpreterConvention => ContextsOwned
  BY DEF InterpreterConvention, CallingConvention
<1> QED
  BY <1>1, ConventionHolds, PTL

(* No closure and no context points to a context on the stack. *)
THEOREM NoStackCapture == HSpec => []NothingCapturesStack
<1>1. InterpreterConvention => NothingCapturesStack
  BY DEF InterpreterConvention, CallingConvention
<1> QED
  BY <1>1, ConventionHolds, PTL

-----------------------------------------------------------------------------
(* Action properties *)

(* Every return gives the caller its registers back, removes the arguments *)
(* and delivers the result.                                                *)
THEOREM ReturnsRestore == HSpec => ReturnRestoresCaller
<1> DEFINE Restores(f) ==
             /\ ip' = f.resume
             /\ context_object' = f.ctx
             /\ base_pointer' = frames[Depth - 1].base
             /\ stack_pointer' = ArgumentsStart(Depth)
             /\ destination # 0 => Slot(f.ctx, f.dest)' = Local(destination)
<1>1. ASSUME InterpreterConvention, Return, NEW f, f = Frame
      PROVE  Restores(f)
  <2>0. CallingConvention
    BY <1>1 DEF InterpreterConvention
  <2>1. /\ ip' = f.resume
        /\ context_object' = f.ctx
        /\ base_pointer' = frames[Depth - 1].base
        /\ stack_pointer' = ArgumentsStart(Depth)
    BY <1>1, ReturnReturns
  <2>2. ASSUME destination # 0
        PROVE  Slot(f.ctx, f.dest)' = Local(destination)
    <3>1. PICK k, v : k = Depth - 1 /\ v = Local(destination)
      OBVIOUS
    <3>2. /\ k \in 1 .. Depth
          /\ k < Depth
          /\ k + 1 = Depth
          /\ StoreSlot(f.ctx, f.dest, v)
      <4>1. Depth - 1 \in 1 .. Depth /\ Depth \in Nat
        BY <1>1, <2>0, ReturnReturns, FrameFacts
      <4>2. StoreSlot(Frame.ctx, Frame.dest, Local(destination))
        BY <1>1, <2>2, ReturnReturns
      <4> QED
        BY <1>1, <3>1, <4>1, <4>2
    <3>3. Entered(k) /\ OwnContext(k) = f.ctx
      BY <1>1, <3>2 DEF Entered, OwnContext, Frame
    <3>4. f.dest \in 0 .. FrameSize(program, frames[k].entry) - 1
      <4>1. Depth \in 2 .. Depth
        BY <1>1, ReturnReturns
      <4>2. f.dest \in 1 .. FrameSize(program, frames[k].entry) - 1
        BY <1>1, <2>0, <3>1, <4>1 DEF CallingConvention, ResumesInCaller, Frame
      <4>3. FrameSize(program, frames[k].entry) \in Nat
        BY <2>0, <3>2, FrameFacts
      <4> QED
        BY <4>2, <4>3
    <3>5. Slot(f.ctx, f.dest)' = v
      BY <2>0, <3>2, <3>3, <3>4, StoredSlots
    <3> QED
      BY <3>1, <3>5
  <2> QED
    BY <2>1, <2>2
<1>2. InterpreterConvention /\ [HNext]_hvars => [Return => \A f \in {Frame} : Restores(f)]_hvars
  BY <1>1
<1> QED
  BY <1>2, ConventionHolds, PTL DEF HSpec, ReturnRestoresCaller

(* The word ARG_READ reads is the argument the caller pushed. *)
LEMMA ArgumentRead ==
  ASSUME InterpreterConvention, op = "ARG_READ", op1 < Len(Frame.args)
  PROVE  StackWord(base_pointer - ArgumentOffset - op1) = Frame.args[Len(Frame.args) - op1]
<1> DEFINE size == Len(Frame.args)
<1>1. CallingConvention
  BY DEF InterpreterConvention
<1>2. ~Entering
  BY <1>1, Decoding, InstructionFacts DEF FnEnters
<1>3. op1 \in Nat
  BY <1>1, Decoding, InstructionFacts DEF WellFormedAt, IsImmediate
<1>4. base_pointer = Frame.base
  BY <1>1, <1>2 DEF CallingConvention, RegistersMatchFrame
<1>5. Depth \in 2 .. Depth /\ Depth \in 1 .. Depth
  <2>1. Depth \in Nat \ {0}
    BY <1>1, FrameFacts
  <2>2. Depth = 1 => Len(Frame.args) = 0
    BY <1>1 DEF CallingConvention, RootStays, RootFrame, Frame
  <2> QED
    BY <1>3, <2>1, <2>2
<1>6. /\ size - op1 \in 1 .. size
      /\ ArgumentsStart(Depth) + (size - op1) - 1 = base_pointer - ArgumentOffset - op1
  <2>1. Frame.base \in Nat /\ size \in Nat
    BY <1>1, <1>5, FrameFacts DEF Frame
  <2>2. ArgumentsStart(Depth) = Frame.base - 5 - size
    BY <1>5, LinkageLength DEF ArgumentsStart, Frame
  <2>3. op1 < size
    OBVIOUS
  <2> HIDE DEF size
  <2> QED
    BY <1>3, <1>4, <2>1, <2>2, <2>3 DEF ArgumentOffset
<1>7. value_stack[ArgumentsStart(Depth) + (size - op1) - 1] = Frame.args[size - op1]
  BY <1>5, <1>6, LinkageFound DEF LinkageIntact, Frame
<1>8. base_pointer - ArgumentOffset - op1 \in StackIndexes
  <2>1. /\ \A n \in 1 .. size : ArgumentsStart(Depth) + n - 1 \in 0 .. Frame.base - 1
        /\ \A i \in 0 .. Frame.base : i \in StackIndexes
        /\ Frame.base \in Nat
    <3>1. Depth > 1
      BY <1>5
    <3> QED
      BY <1>1, <1>5, <3>1, BelowBase DEF Frame
  <2> HIDE DEF size
  <2>2. ArgumentsStart(Depth) + (size - op1) - 1 \in 0 .. Frame.base - 1
    BY <1>6, <2>1
  <2> QED
    BY <1>6, <2>1, <2>2
<1> QED
  BY <1>6, <1>7, <1>8 DEF StackWord

(* ARG_READ reads what the caller pushed. *)
THEOREM ArgumentsDelivered == HSpec => ArgumentsArrive
<1> DEFINE Delivers(slot) == Local(slot)' = Frame.args[Len(Frame.args) - op1]
<1>1. ASSUME InterpreterConvention, ArgRead, op1 < Len(Frame.args),
             NEW slot, slot = program.code[ip].dest
      PROVE  Delivers(slot)
  <2> DEFINE v == StackWord(base_pointer - ArgumentOffset - op1)
  <2>1. CallingConvention
    BY <1>1 DEF InterpreterConvention
  <2>2. op = "ARG_READ" /\ op = program.code[ip].op /\ Computes(v)
    BY <1>1, Decoding DEF ArgRead, Executes
  <2>3. ~Entering /\ WritesDest(op)
    BY <2>1, <2>2, InstructionFacts DEF FnEnters, WritesDest, Jumps, Branches, Immediates,
       BinaryOpcodes, UnaryOpcodes
  <2>4. slot \in 0 .. FrameSize(program, frames[Depth].entry) - 1
    <3>1. /\ slot \in 1 .. FrameSize(program, Frame.entry) - 1
          /\ FrameSize(program, Frame.entry) \in Nat
      BY <1>1, <2>1, <2>2, <2>3, SlotFacts, FrameFacts DEF Frame
    <3> QED
      BY <3>1 DEF Frame
  <2>5. v = Frame.args[Len(Frame.args) - op1]
    BY <1>1, <2>2, ArgumentRead
  <2>6. PICK c, w : c = context_object /\ w = v
    OBVIOUS
  <2> HIDE DEF v
  <2>7. StoreSlot(c, slot, w) /\ context_object' = c
    BY <1>1, <2>1, <2>2, <2>3, <2>6, DestinationSlot
  <2>8. Entered(Depth) /\ OwnContext(Depth) = c /\ Depth \in 1 .. Depth
    BY <2>1, <2>3, <2>6, FrameFacts DEF Entered, OwnContext
  <2>9. Slot(c, slot)' = w
    BY <2>1, <2>4, <2>7, <2>8, StoredSlots
  <2>10. Local(slot)' = Slot(c, slot)'
    BY <2>7 DEF Local
  <2> QED
    BY <2>5, <2>6, <2>9, <2>10
<1>2. InterpreterConvention /\ [HNext]_hvars =>
        [ArgRead /\ op1 < Len(Frame.args) =>
           \A slot \in {program.code[ip].dest} : Delivers(slot)]_hvars
  BY <1>1
<1> QED
  BY <1>2, ConventionHolds, PTL DEF HSpec, ArgumentsArrive

=============================================================================
