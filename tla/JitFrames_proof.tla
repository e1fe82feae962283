-------------------------- MODULE JitFrames_proof --------------------------
(***************************************************************************)
(* The JIT keeps the calling convention: each of its handlers is one of    *)
(* the steps of Frames_proof.  What it has beside the value stack, the     *)
(* native stack and the register, agrees with it.                          *)
(***************************************************************************)
EXTENDS JitFrames, Frames_proof

(* The linkage of the JIT: the words its CALL pushes. *)
LinkageRecorded ==
  \A k \in 2 .. Depth :
    LET f == frames[k] IN
    f.linkage = <<uvalue(Len(f.args)), f.ctx, uvalue(f.dest), f.parent>>

(* The native stack holds the addresses to resume at, above the host's. *)
ReturnsRecorded ==
  /\ returns \in Seq(Addresses(program) \cup {Host})
  /\ status = "returned" => returns = << >>
  /\ status # "returned" =>
       /\ Len(returns) = Depth
       /\ returns[1] = Host
       /\ \A k \in 2 .. Depth : returns[k] = frames[k].resume

(* A fused branch finds in the register what the comparison stored. *)
RegisterHoldsComparison ==
  status = "running" /\ Fused /\ JitAgrees(program) =>
    Local(program.code[ip - 1].dest) = bvalue(rax)

JitConvention ==
  /\ CallingConvention
  /\ LinkageRecorded
  /\ ReturnsRecorded
  /\ rax \in BOOLEAN
  /\ RegisterHoldsComparison

(* There are four words of linkage. *)
LEMMA LinkageLength ==
  ASSUME JitConvention, Depth \in 2 .. Depth
  PROVE  Len(Frame.linkage) = 4
<1>1. PICK words : words = Frame.linkage
  OBVIOUS
<1>2. words = <<uvalue(Len(Frame.args)), Frame.ctx, uvalue(Frame.dest), Frame.parent>>
  BY <1>1 DEF JitConvention, LinkageRecorded, Frame
<1>3. Len(words) = 4
  BY <1>2
<1> QED
  BY <1>1, <1>3

(* The linkage words are where the handlers look for them. *)
LEMMA LinkageFound ==
  ASSUME JitConvention
  PROVE  LinkageIntact
<1>1. value_stack[0] = nullptr
  BY DEF JitConvention, CallingConvention, LinkageKept
<1>2. ASSUME NEW k \in 2 .. Depth
      PROVE  LET f == frames[k] IN
             /\ value_stack[f.base - 4] = uvalue(Len(f.args))
             /\ value_stack[f.base - 3] = f.ctx
             /\ value_stack[f.base - 2] = uvalue(f.dest)
             /\ value_stack[f.base - 1] = IF Entered(k) THEN uvalue(frames[k - 1].base)
                                          ELSE f.parent
             /\ \A n \in 1 .. Len(f.args) : value_stack[ArgumentsStart(k) + n - 1] = f.args[n]
  <2> DEFINE f == frames[k]
  <2>1. f.linkage = <<uvalue(Len(f.args)), f.ctx, uvalue(f.dest), f.parent>>
    BY DEF JitConvention, LinkageRecorded
  <2>2. /\ \A j \in 2 .. Len(f.linkage) :
             value_stack[f.base - j] = f.linkage[Len(f.linkage) - j + 1]
        /\ value_stack[f.base - 1] = IF Entered(k) THEN uvalue(frames[k - 1].base)
                                     ELSE f.parent
        /\ \A n \in 1 .. Len(f.args) : value_stack[ArgumentsStart(k) + n - 1] = f.args[n]
    BY DEF JitConvention, CallingConvention, LinkageKept
  <2>3. PICK words : words = f.linkage
    OBVIOUS
  <2>4. /\ Len(words) = 4
        /\ words[1] = uvalue(Len(f.args))
        /\ words[2] = f.ctx
        /\ words[3] = uvalue(f.dest)
    BY <2>1, <2>3
  <2>5. \A j \in 2 .. 4 : value_stack[f.base - j] = words[4 - j + 1]
    BY <2>2, <2>3, <2>4
  <2>6. /\ value_stack[f.base - 4] = words[1]
        /\ value_stack[f.base - 3] = words[2]
        /\ value_stack[f.base - 2] = words[3]
    BY <2>5
  <2> QED
    BY <2>2, <2>4, <2>6
<1>3. status # "returned" =>
        Len(returns) = Depth /\ \A k \in 2 .. Depth : returns[k] = frames[k].resume
  BY DEF JitConvention, ReturnsRecorded
<1> QED
  BY <1>1, <1>2, <1>3 DEF LinkageIntact

-----------------------------------------------------------------------------
(* Instructions as compile_dispatch_function scales them *)

(* What a handler sees of its instruction. *)
LEMMA Decoding ==
  LET i == program.code[ip] IN
  /\ op = i.op
  /\ op1 = IF Op1IsIndex(op) THEN WORD * i.op1 ELSE i.op1
  /\ op2 = IF Op2IsIndex(op) THEN WORD * i.op2 ELSE i.op2
  /\ dest = IF DestIsIndex(op) THEN WORD * i.dest ELSE i.dest
BY DEF op, op1, op2, dest, instruction, Scaled

(* Control that cannot reach a fused branch, unless it was there. *)
Straight ==
  \/ ip' = ip + 1 /\ op \notin Comparisons
  \/ op \in Jumps /\ ip' = program.code[ip].dest

(* A step inside an activation of the JIT. *)
JitLocalStep ==
  /\ LocalStep
  /\ rax' \in BOOLEAN
  /\ UNCHANGED <<frames, returns>>
  /\ \/ Straight
     \/ /\ op \in Comparisons
        /\ ip' = ip + 1
        /\ StoreSlot(context_object, program.code[ip].dest, bvalue(rax'))

(* A handler that computes a word stores it into the slot the instruction  *)
(* names.                                                                  *)
LEMMA DestinationSlot ==
  ASSUME CallingConvention, WritesDest(op), op \notin {"CALL", "POP"}, NEW v, Computes(v)
  PROVE  /\ StoreSlot(context_object, program.code[ip].dest, v)
         /\ ip' = ip + 1
         /\ UNCHANGED <<status, base_pointer, call_depth, context_object, returns>>
<1>1. DestIsIndex(op)
  BY DEF DestIsIndex, WritesDest
<1>2. program.code[ip].dest \in Nat
  BY InstructionFacts
<1>3. dest \div WORD = program.code[ip].dest
  BY <1>1, <1>2, Decoding, Unscaled
<1> QED
  BY <1>3 DEF Computes, Destination, FallThrough

(* The operands of a handler that takes them from slots are words. *)
LEMMA OperandsAreValues ==
  ASSUME CallingConvention, ~Entering
  PROVE  /\ op \in {"MOV", "CALL_NATIVE", "PUSH"} \cup Branches \cup BinaryOpcodes \cup UnaryOpcodes
              => AtOffset(op1) \in Value
         /\ op \in BinaryOpcodes => AtOffset(op2) \in Value
<1> DEFINE i == program.code[ip]
           reading == {"MOV", "CALL_NATIVE", "PUSH"} \cup Branches \cup BinaryOpcodes
                         \cup UnaryOpcodes
<1>1. ASSUME op \in reading
      PROVE  AtOffset(op1) \in Value
  <2>1. i.op1 \in SlotsRead(i)
    BY <1>1, Decoding DEF SlotsRead
  <2>2. op1 = WORD * i.op1
    BY <1>1, Decoding DEF Op1IsIndex
  <2> QED
    BY <2>1, <2>2, SlotFacts, Unscaled DEF AtOffset
<1>2. ASSUME op \in BinaryOpcodes
      PROVE  AtOffset(op2) \in Value
  <2>1. i.op2 \in SlotsRead(i)
    BY <1>2, Decoding DEF SlotsRead
  <2>2. op2 = WORD * i.op2
    BY <1>2, Decoding DEF Op2IsIndex
  <2> QED
    BY <2>1, <2>2, SlotFacts, Unscaled DEF AtOffset
<1> QED
  BY <1>1, <1>2

(* Handlers that compute a word, by what is left to show of them. *)
LEMMA ComputingLocal ==
  ASSUME CallingConvention, status = "running",
         op \notin {"JMP", "RET", "CALL", "CALL_NATIVE", "POP", "PUSH"} \cup Comparisons,
         ~Entering, WritesDest(op),
         NEW v \in Value, Computes(v), rax' \in BOOLEAN,
         UNCHANGED <<program, frames, stack_pointer, fn_refs, output>>
  PROVE  JitLocalStep
<1>1. program.code[ip].op = op
  BY Decoding
<1>2. LocalStep /\ UNCHANGED returns /\ ip' = ip + 1
  BY <1>1, DestinationSlot, PlainComputingSteps
<1> QED
  BY <1>2 DEF JitLocalStep, Straight

-----------------------------------------------------------------------------
(* The handlers *)

(* MOV_INT, MOV_NULL, MOV_BOOLEAN, MOV_DECIMAL and MOV_STRING. *)
LEMMA MoveImmediateLocal ==
  ASSUME CallingConvention, rax \in BOOLEAN, MoveImmediate, UNCHANGED frames
  PROVE  JitLocalStep
<1> DEFINE i == program.code[ip]
           v == ImmediateValue(op, op1)
<1>1. /\ op \in Immediates
      /\ status = "running"
      /\ Computes(v)
      /\ UNCHANGED <<program, stack_pointer, fn_refs, output>>
  BY DEF MoveImmediate, Executes
<1>2. v \in Value
  <2>1. op1 = i.op1
    BY <1>1, Decoding DEF Immediates, Op1IsIndex, Branches, BinaryOpcodes, UnaryOpcodes,
       IntArithmetic, DecimalArithmetic, Comparisons, IntComparisons, DecimalComparisons
  <2> QED
    BY <1>1, <2>1, Decoding, InstructionFacts, ImmediatesAreValues
<1> HIDE DEF v
<1>3. /\ ~Entering
      /\ op \notin {"JMP", "RET", "CALL", "CALL_NATIVE", "POP", "PUSH"} \cup Comparisons
      /\ WritesDest(op)
  BY <1>1, Decoding, InstructionFacts DEF Immediates, FnEnters, WritesDest,
     Comparisons, IntComparisons, DecimalComparisons
<1>4. rax' \in BOOLEAN
  BY DEF MoveImmediate
<1> QED
  BY <1>1, <1>2, <1>3, <1>4, ComputingLocal

(* MOV. *)
LEMMA MoveLocal ==
  ASSUME CallingConvention, rax \in BOOLEAN, Move, UNCHANGED frames
  PROVE  JitLocalStep
<1>1. /\ op = "MOV"
      /\ status = "running"
      /\ Computes(AtOffset(op1))
      /\ UNCHANGED <<program, stack_pointer, fn_refs, output, rax>>
  BY DEF Move, Executes
<1>2. ~Entering /\ WritesDest(op) /\ op \notin Comparisons
  BY <1>1, Decoding, InstructionFacts DEF FnEnters, WritesDest,
     Comparisons, IntComparisons, DecimalComparisons
<1>3. AtOffset(op1) \in Value
  BY <1>1, <1>2, OperandsAreValues
<1> QED
  BY <1>1, <1>2, <1>3, ComputingLocal

(* Int arithmetic in line, which may keep the old tag of its destination. *)
LEMMA InlinedAreValues ==
  ASSUME CallingConvention, ~Entering, op \in IntArithmetic, NEW n \in Int
  PROVE  Inlined(ivalue(n)) \subseteq Value
<1>1. PICK v : v = ivalue(n)
  OBVIOUS
<1>2. v \in Value /\ v[2] \in Int
  BY <1>1, ConstructorsAreValues, WrapIsInt DEF ivalue
<1>3. ASSUME NEW tag \in {"int", "bool", "null"}
      PROVE  <<tag, v[2]>> \in Value
  BY <1>2 DEF Value, Tag
<1>4. Decimals(v) \subseteq Value
  BY <1>2, DecimalsAreFloats DEF FloatWord
<1>5. \A tag : Retagged(tag, v) \subseteq Value
  BY <1>3, <1>4, ConstructorsAreValues DEF Retagged
<1>6. Inlined(v) \subseteq Value
  BY <1>2, <1>5 DEF Inlined
<1> QED
  BY <1>1, <1>6

(* ADD_INT, SUB_INT and MOD_INT compute one of their results, but for the  *)
(* tag if the result replaces an operand.                                  *)
LEMMA InlineResults ==
  ASSUME CallingConvention, ~Entering, InlineArithmetic \/ InlineModulo
  PROVE  /\ op \in IntArithmetic
         /\ UNCHANGED <<stack_pointer, fn_refs, output>>
         /\ \E v, n : /\ v = ivalue(n) /\ n \in Int
                      /\ v \in BinaryResults(op, AtOffset(op1), AtOffset(op2))
                      /\ \E w \in Inlined(v) : Computes(w)
<1>1. /\ op \in {"ADD_INT", "SUB_INT", "MOD_INT"}
      /\ op \in IntArithmetic /\ op \in BinaryOpcodes
      /\ UNCHANGED <<stack_pointer, fn_refs, output>>
  BY DEF InlineArithmetic, InlineModulo, Executes, BinaryOpcodes, IntArithmetic
<1>2. /\ HighWords(AtOffset(op1)) \subseteq Int
      /\ HighWords(AtOffset(op2)) \subseteq Int
  BY <1>1, OperandsAreValues, HighWordsAreInts
<1>3. BinaryResults(op, AtOffset(op1), AtOffset(op2)) = IntOutcomes(op, AtOffset(op1), AtOffset(op2))
  BY <1>1 DEF BinaryResults, IntArithmetic, DecimalArithmetic, IntComparisons
<1>4. CASE InlineArithmetic
  <2>1. PICK v \in IntOutcomes(op, AtOffset(op1), AtOffset(op2)) :
                \E w \in Inlined(v) : Computes(w)
    BY <1>3, <1>4 DEF InlineArithmetic
  <2>2. PICK m \in HighWords(AtOffset(op1)), n \in HighWords(AtOffset(op2)) :
          \E r \in IntResults(op, m, n) : v = ivalue(r)
    BY <2>1 DEF IntOutcomes
  <2>3. IntResults(op, m, n) \subseteq Int
    BY <1>1, <1>2, <2>2, IntResultsAreInts
  <2> QED
    BY <1>1, <1>3, <2>1, <2>2, <2>3
<1>5. CASE InlineModulo
  <2>1. PICK m \in HighWords(AtOffset(op1)), n \in HighWords(AtOffset(op2)) :
          ~Traps(m, n) /\ \E w \in Inlined(ivalue(Remainder(m, n))) : Computes(w)
    BY <1>5 DEF InlineModulo
  <2>2. op = "MOD_INT"
    BY <1>5 DEF InlineModulo, Executes
  <2>3. m \in Int /\ n \in Int /\ n # 0
    BY <1>2, <2>1 DEF Traps
  <2>4. PICK r : r = Remainder(m, n)
    OBVIOUS
  <2>5. r \in Int
    BY <2>3, <2>4, DivisionIsInt
  <2>6. r \in IntResults(op, m, n)
    BY <2>1, <2>2, <2>4 DEF IntResults
  <2>7. ivalue(r) \in IntOutcomes(op, AtOffset(op1), AtOffset(op2))
    BY <2>1, <2>6 DEF IntOutcomes
  <2> QED
    BY <1>1, <1>3, <2>1, <2>4, <2>5, <2>7
<1> QED
  BY <1>1, <1>4, <1>5

(* ADD_INT, SUB_INT and MOD_INT. *)
LEMMA InlineLocal ==
  ASSUME CallingConvention, rax \in BOOLEAN, InlineArithmetic \/ InlineModulo, UNCHANGED frames
  PROVE  JitLocalStep
<1>1. /\ op \in {"ADD_INT", "SUB_INT", "MOD_INT"}
      /\ status = "running"
      /\ UNCHANGED <<program, stack_pointer, fn_refs, output>>
  BY DEF InlineArithmetic, InlineModulo, Executes
<1>2. /\ ~Entering /\ WritesDest(op) /\ op \in IntArithmetic /\ op \in BinaryOpcodes
      /\ op \notin {"JMP", "RET", "CALL", "CALL_NATIVE", "POP", "PUSH"} \cup Comparisons
  BY <1>1, Decoding, InstructionFacts DEF FnEnters, WritesDest, BinaryOpcodes, IntArithmetic,
     Comparisons, IntComparisons, DecimalComparisons
<1>3. rax' \in BOOLEAN
  BY DEF InlineArithmetic, InlineModulo
<1>4. PICK n \in Int : \E w \in Inlined(ivalue(n)) : Computes(w)
  BY <1>2, InlineResults
<1>5. PICK w \in Inlined(ivalue(n)) : Computes(w)
  BY <1>4
<1>6. w \in Value
  BY <1>2, InlinedAreValues
<1> QED
  BY <1>1, <1>2, <1>3, <1>5, <1>6, ComputingLocal

(* The comparisons. *)
LEMMA CompareLocal ==
  ASSUME CallingConvention, Compare, UNCHANGED frames
  PROVE  JitLocalStep
<1>1. /\ op \in Comparisons
      /\ status = "running"
      /\ UNCHANGED <<program, stack_pointer, fn_refs, output>>
  BY DEF Compare, Executes
<1>2. PICK v \in BinaryResults(op, AtOffset(op1), AtOffset(op2)) :
        Computes(v) /\ rax' = (v = bvalue(TRUE))
  BY DEF Compare
<1>3. v = bvalue(rax') /\ rax' \in BOOLEAN
  <2>1. v \in {<<"bool", 1>>, <<"bool", 0>>}
    <3>1. BinaryResults(op, AtOffset(op1), AtOffset(op2)) \in
            {IntComparisonOutcomes(op, AtOffset(op1), AtOffset(op2)),
             DecimalGreaterOutcomes(AtOffset(op1), AtOffset(op2)),
             DecimalComparisonOutcomes(op, AtOffset(op1), AtOffset(op2))}
      BY <1>1 DEF BinaryResults, IntArithmetic, DecimalArithmetic, Comparisons, IntComparisons,
         DecimalComparisons
    <3> DEFINE booleans == {<<"bool", 1>>, <<"bool", 0>>}
    <3>2. \A b : bvalue(b) \in booleans
      BY DEF bvalue
    <3>3. Either \subseteq booleans
      BY <3>2 DEF Either
    <3>4. \A a, n : DecimalGreater(a, n) \subseteq booleans
      BY <3>2, <3>3 DEF DecimalGreater
    <3>5. \A o, a, b : DecimalComparison(o, a, b) \subseteq booleans
      BY <3>2, <3>3 DEF DecimalComparison
    <3>6. \A v1, v2 : DecimalGreaterOutcomes(v1, v2) \subseteq booleans
      BY <3>4 DEF DecimalGreaterOutcomes
    <3>7. \A o, v1, v2 : DecimalComparisonOutcomes(o, v1, v2) \subseteq booleans
      BY <3>5 DEF DecimalComparisonOutcomes
    <3>8. \A o, v1, v2 : IntComparisonOutcomes(o, v1, v2) \subseteq booleans
      BY <3>2 DEF IntComparisonOutcomes
    <3> HIDE DEF booleans
    <3>9. v \in booleans
      BY <1>2, <3>1, <3>6, <3>7, <3>8
    <3> QED
      BY <3>9 DEF booleans
  <2>2. bvalue(TRUE) = <<"bool", 1>> /\ bvalue(FALSE) = <<"bool", 0>>
    BY DEF bvalue
  <2>3. CASE v = <<"bool", 1>>
    BY <1>2, <2>2, <2>3
  <2>4. CASE v = <<"bool", 0>>
    <3>1. <<"bool", 0>> # <<"bool", 1>>
      OBVIOUS
    <3>2. rax' = FALSE
      BY <1>2, <2>2, <2>4, <3>1
    <3> QED
      BY <2>2, <2>4, <3>2
  <2> QED
    BY <2>1, <2>3, <2>4
<1>4. /\ ~Entering /\ WritesDest(op) /\ program.code[ip].op = op
      /\ op \notin {"JMP", "RET", "CALL", "CALL_NATIVE", "POP", "PUSH"}
  BY <1>1, Decoding, InstructionFacts DEF FnEnters, WritesDest, BinaryOpcodes,
     Comparisons, IntComparisons, DecimalComparisons
<1>5. /\ StoreSlot(context_object, program.code[ip].dest, v)
      /\ ip' = ip + 1
      /\ UNCHANGED <<status, base_pointer, call_depth, context_object, returns>>
  BY <1>2, <1>4, DestinationSlot
<1>6. v \in Value
  BY <1>3, ConstructorsAreValues
<1>7. LocalStep
  BY <1>1, <1>4, <1>5, <1>6, PlainComputingSteps
<1>8. StoreSlot(context_object, program.code[ip].dest, bvalue(rax'))
  <2>1. v = bvalue(rax')
    BY <1>3
  <2> QED
    BY <1>5, <2>1
<1> QED
  BY <1>1, <1>3, <1>5, <1>7, <1>8 DEF JitLocalStep

(* The other operators, which the JIT leaves to their handlers. *)
LEMMA ArithmeticLocal ==
  ASSUME CallingConvention, Arithmetic, UNCHANGED frames
  PROVE  JitLocalStep
<1>1. /\ op \in (BinaryOpcodes \ Comparisons) \cup UnaryOpcodes
      /\ status = "running"
      /\ rax' = FALSE
      /\ UNCHANGED <<program, stack_pointer, fn_refs, output>>
  BY DEF Arithmetic, Executes, UnaryOpcodes, Comparisons, IntComparisons, DecimalComparisons
<1>2. /\ ~Entering
      /\ WritesDest(op)
      /\ op \notin {"JMP", "RET", "CALL", "CALL_NATIVE", "POP", "PUSH"} \cup Comparisons
  BY <1>1, Decoding, InstructionFacts DEF BinaryOpcodes, UnaryOpcodes, IntArithmetic,
     DecimalArithmetic, Comparisons, IntComparisons, DecimalComparisons, FnEnters, WritesDest
<1>3. PICK v \in Value : Computes(v)
  <2>1. CASE op \in BinaryOpcodes
    <3>1. op \notin UnaryOpcodes
      BY <2>1 DEF BinaryOpcodes, UnaryOpcodes, IntArithmetic, DecimalArithmetic, Comparisons,
         IntComparisons, DecimalComparisons
    <3>2. PICK v \in BinaryResults(op, AtOffset(op1), AtOffset(op2)) : Computes(v)
      BY <3>1 DEF Arithmetic, Executes
    <3>3. v \in Value
      BY <1>2, <2>1, <3>2, OperandsAreValues, BinaryResultsAreValues
    <3> QED
      BY <3>2, <3>3
  <2>2. CASE op \notin BinaryOpcodes
    <3>1. PICK v \in UnaryResults(op, AtOffset(op1)) : Computes(v)
      BY <2>2 DEF Arithmetic, Executes
    <3>2. v \in Value
      BY <1>1, <1>2, <2>2, <3>1, OperandsAreValues, UnaryResultsAreValues
    <3> QED
      BY <3>1, <3>2
  <2> QED
    BY <2>1, <2>2
<1> QED
  BY <1>1, <1>2, <1>3, ComputingLocal

(* ARG_READ, which may read any word but writes only its slot. *)
LEMMA ArgReadLocal ==
  ASSUME CallingConvention, ArgRead, UNCHANGED frames
  PROVE  JitLocalStep
<1> DEFINE v == StackWord(base_pointer - JitArgumentOffset - op1)
<1>1. /\ op = "ARG_READ"
      /\ status = "running"
      /\ Computes(v)
      /\ rax' = FALSE
      /\ UNCHANGED <<program, stack_pointer, fn_refs, output>>
  BY DEF ArgRead, Executes
<1>2. ~Entering /\ WritesDest(op) /\ op \notin Comparisons
  BY <1>1, Decoding, InstructionFacts DEF FnEnters, WritesDest,
     Comparisons, IntComparisons, DecimalComparisons
<1>3. v \in Value
  BY StateFacts, ConstructorsAreValues DEF StackWord
<1> HIDE DEF v
<1> QED
  BY <1>1, <1>2, <1>3, ComputingLocal

(* GET_IN_PARENT. *)
LEMMA GetInParentLocal ==
  ASSUME CallingConvention, GetInParent, UNCHANGED frames
  PROVE  JitLocalStep
<1> DEFINE v == Slot(Ancestor(op1), op2)
<1>1. /\ op = "GET_IN_PARENT"
      /\ status = "running"
      /\ ~IsUndefined
      /\ Computes(v)
      /\ rax' = FALSE
      /\ UNCHANGED <<program, stack_pointer, fn_refs, output>>
  BY DEF GetInParent, Executes
<1>2. ~Entering /\ WritesDest(op) /\ op \notin Comparisons
  BY <1>1, Decoding, InstructionFacts DEF FnEnters, WritesDest,
     Comparisons, IntComparisons, DecimalComparisons
<1>3. Ancestor(op1) \in Contexts /\ HasSlot(Ancestor(op1), op2)
  BY <1>1 DEF IsUndefined, BinaryOpcodes, IntArithmetic, DecimalArithmetic, Comparisons,
     IntComparisons, DecimalComparisons
<1>4. v \in Value
  BY <1>2, <1>3, AncestorSlots
<1> HIDE DEF v
<1> QED
  BY <1>1, <1>2, <1>4, ComputingLocal

(* MOV_FNC. *)
LEMMA MoveFunctionLocal ==
  ASSUME CallingConvention, MoveFunction, UNCHANGED frames
  PROVE  JitLocalStep
<1> DEFINE v == <<"fnref", Len(fn_refs) + 1>>
<1>1. /\ op = "MOV_FNC"
      /\ fn_refs' = Append(fn_refs, [parent |-> context_object, entry |-> op1])
      /\ Computes(v)
      /\ rax' = FALSE
      /\ UNCHANGED <<program, stack_pointer, output>>
  BY DEF MoveFunction, Executes
<1>2. WritesDest(op) /\ program.code[ip].op = "MOV_FNC" /\ op1 = program.code[ip].op1
      /\ op \notin Comparisons
  BY <1>1, Decoding DEF WritesDest, Op1IsIndex, Branches, BinaryOpcodes, UnaryOpcodes,
     IntArithmetic, DecimalArithmetic, Comparisons, IntComparisons, DecimalComparisons
<1>3. StoreSlot(context_object, program.code[ip].dest, v)
  <2> HIDE DEF v
  <2> QED
    BY <1>1, <1>2, DestinationSlot
<1>4. ip' = ip + 1 /\ UNCHANGED <<status, base_pointer, call_depth, context_object, returns>>
  BY <1>1 DEF Computes, FallThrough
<1>5. LocalStep
  BY <1>1, <1>2, <1>3, <1>4, MoveFunctionSteps
<1> QED
  BY <1>1, <1>2, <1>4, <1>5 DEF JitLocalStep, Straight

(* CALL_NATIVE. *)
LEMMA CallNativeLocal ==
  ASSUME CallingConvention, CallNative, UNCHANGED frames
  PROVE  JitLocalStep
<1>1. /\ op = "CALL_NATIVE"
      /\ Computes(ivalue(0))
      /\ output' = Append(output, Printed(Top))
      /\ stack_pointer' = stack_pointer - 1
      /\ rax' = FALSE
      /\ UNCHANGED <<program, fn_refs>>
  BY DEF CallNative, Executes
<1>2. WritesDest(op) /\ program.code[ip].op = "CALL_NATIVE" /\ op \notin Comparisons
  BY <1>1, Decoding DEF WritesDest, Comparisons, IntComparisons, DecimalComparisons
<1>3. /\ StoreSlot(context_object, program.code[ip].dest, ivalue(0))
      /\ ip' = ip + 1
      /\ UNCHANGED <<status, base_pointer, call_depth, context_object, returns>>
  BY <1>1, <1>2, DestinationSlot
<1>4. LocalStep
  BY <1>1, <1>2, <1>3, CallNativeSteps
<1> QED
  BY <1>1, <1>2, <1>3, <1>4 DEF JitLocalStep, Straight

(* PUSH. *)
LEMMA PushLocal ==
  ASSUME CallingConvention, Push, UNCHANGED frames
  PROVE  JitLocalStep
<1> DEFINE v == AtOffset(op1)
<1>1. /\ op = "PUSH"
      /\ ~ExitsWithError
      /\ PushWord(v)
      /\ ip' = ip + 1
      /\ rax' = FALSE
      /\ UNCHANGED <<program, status, returns>>
  BY DEF Push, Executes, FallThrough
<1>2. ~Entering /\ program.code[ip].op = "PUSH" /\ op \notin Comparisons
  BY <1>1, Decoding, InstructionFacts DEF FnEnters, Comparisons, IntComparisons,
     DecimalComparisons
<1>3. v \in Value
  BY <1>1, <1>2, OperandsAreValues
<1>4. stack_pointer <= STACK_MAX
  BY <1>1, StateFacts, StackMaxAssumption DEF ExitsWithError, CanPush
<1> HIDE DEF v
<1>5. LocalStep
  BY <1>1, <1>2, <1>3, <1>4, PushSteps
<1> QED
  BY <1>1, <1>2, <1>5 DEF JitLocalStep, Straight

(* SET_IN_PARENT, which scales its operands twice, is undefined outside of *)
(* the contexts and stores a word inside of them, though not the right one. *)
LEMMA SetInParentLocal ==
  ASSUME CallingConvention, SetInParent, UNCHANGED frames
  PROVE  JitLocalStep
<1> DEFINE i == program.code[ip]
<1>1. /\ op = "SET_IN_PARENT"
      /\ ~IsUndefined
      /\ StoreSlot(Ancestor(op1), dest, Local(op2))
      /\ ip' = ip + 1
      /\ rax' = FALSE
      /\ UNCHANGED <<program, status, stack_pointer, base_pointer, call_depth,
                     context_object, fn_refs, output, returns>>
  BY DEF SetInParent, Executes, FallThrough
<1>2. ~Entering /\ i.op = "SET_IN_PARENT" /\ op \notin Comparisons
  BY <1>1, Decoding, InstructionFacts DEF FnEnters, Comparisons, IntComparisons,
     DecimalComparisons
<1>3. /\ Ancestor(op1) \in Contexts
      /\ HasSlot(Ancestor(op1), dest)
      /\ HasSlot(context_object, op2)
  BY <1>1 DEF IsUndefined, BinaryOpcodes, IntArithmetic, DecimalArithmetic, Comparisons,
     IntComparisons, DecimalComparisons
<1>4. dest \in Nat \ {0}
  <2>1. dest = WORD * i.dest
    BY <1>1, Decoding DEF DestIsIndex
  <2>2. i.dest \in Nat \ {0}
    BY <1>2, InstructionFacts DEF WellFormedAt
  <2> QED
    BY <2>1, <2>2 DEF WORD
<1>5. Local(op2) \in Value
  <2>1. PICK n : n = op2
    OBVIOUS
  <2>2. CASE OnStack(context_object)
    BY <1>3, <2>1, <2>2, StateFacts DEF HasSlot, Local, Slot
  <2>3. CASE ~OnStack(context_object)
    <3>1. context_object \in HeapContexts
      BY <1>2, <2>3, ContextFacts DEF OnStack
    <3>2. heap[context_object[2]] \in Seq(Value)
      BY <3>1, HeapContextFacts, HeapFacts
    <3>3. n + 1 \in DOMAIN heap[context_object[2]]
      BY <1>3, <2>1, <2>3 DEF HasSlot
    <3>4. heap[context_object[2]][n + 1] \in Value
      BY <3>2, <3>3
    <3> QED
      BY <2>1, <2>3, <3>4 DEF Local, Slot
  <2> QED
    BY <2>2, <2>3
<1>6. LocalStep
  BY <1>1, <1>2, <1>3, <1>4, <1>5, SetInParentSteps
<1> QED
  BY <1>1, <1>2, <1>6 DEF JitLocalStep, Straight

(* Jumps, branches, fused or not, and the object instructions. *)
LEMMA ControlLocal ==
  ASSUME CallingConvention, rax \in BOOLEAN, Jump \/ Branch \/ FusedBranch \/ ObjectAccess,
         UNCHANGED frames
  PROVE  JitLocalStep
<1> DEFINE i == program.code[ip]
<1>1. UNCHANGED <<program, status, machine, returns>>
  BY DEF Jump, Branch, FusedBranch, ObjectAccess, Executes
<1>2. \/ op \in Jumps /\ ip' = dest
      \/ op \in Branches \cup ObjectOpcodes /\ ip' = ip + 1
  BY DEF Jump, Branch, FusedBranch, ObjectAccess, Executes, Jumps, FallThrough
<1>3. op \in Jumps => dest = i.dest
  BY Decoding DEF DestIsIndex, Jumps, Branches, Immediates, BinaryOpcodes, UnaryOpcodes,
     IntArithmetic, DecimalArithmetic, Comparisons, IntComparisons, DecimalComparisons
<1>4. op \in Branches \cup ObjectOpcodes => op \notin Comparisons
  BY DEF Branches, ObjectOpcodes, Comparisons, IntComparisons, DecimalComparisons
<1>5. rax' \in BOOLEAN
  BY DEF Jump, Branch, FusedBranch, ObjectAccess
<1>6. LocalStep
  BY <1>1, <1>2, <1>3, Decoding, ControlSteps
<1> QED
  BY <1>1, <1>2, <1>3, <1>4, <1>5, <1>6 DEF JitLocalStep, Straight

(* FN_ENTER_HEAP and FN_ENTER_STACK. *)
LEMMA FnEnterEnters ==
  ASSUME CallingConvention, FnEnter, UNCHANGED frames
  PROVE  EnterStep /\ rax' = FALSE /\ UNCHANGED returns
<1>1. /\ op \in FnEnters
      /\ \/ op = "FN_ENTER_HEAP" /\ EnterHeap(op1)
         \/ op = "FN_ENTER_STACK" /\ EnterStack(op1)
      /\ ~ExitsWithError
      /\ ip' = ip + 1
      /\ rax' = FALSE
      /\ status = "running"
      /\ UNCHANGED <<program, status, returns>>
  BY DEF FnEnter, Executes, FallThrough
<1>2. op1 = program.code[ip].op1 /\ op = program.code[ip].op
  BY <1>1, Decoding DEF FnEnters, Op1IsIndex, Branches, BinaryOpcodes, UnaryOpcodes,
     IntArithmetic, DecimalArithmetic, Comparisons, IntComparisons, DecimalComparisons
<1>3. op = "FN_ENTER_STACK" => stack_pointer + op1 <= STACK_MAX
  <2>1. op = "FN_ENTER_STACK" => ~(stack_pointer + op1 > STACK_MAX)
    BY <1>1 DEF ExitsWithError
  <2>2. op1 \in Nat
    BY <1>1, <1>2, EnteringFacts, InstructionFacts
  <2> QED
    BY <2>1, <2>2, StateFacts, StackMaxAssumption
<1> QED
  BY <1>1, <1>2, <1>3 DEF EnterStep

(* CALL. *)
LEMMA CallCalls ==
  ASSUME CallingConvention, HCall
  PROVE  /\ CallStep(JitLinkage)
         /\ JitLinkage = <<uvalue(program.code[ip].op2), context_object,
                           uvalue(program.code[ip].dest),
                           Callee(Local(program.code[ip].op1)).parent>>
         /\ returns' = Append(returns, ip + 1)
         /\ rax' = TRUE
<1> DEFINE i == program.code[ip]
           callee == Callee(Local(i.op1))
<1>1. /\ op = "CALL"
      /\ status = "running"
      /\ ~IsUndefined
      /\ ~ExitsWithError
      /\ UNCHANGED <<program, status>>
      /\ returns' = Append(returns, ip + 1)
      /\ rax' = TRUE
  BY DEF HCall, Call, Executes
<1>2. op1 = i.op1 /\ op2 = i.op2 /\ dest = i.dest /\ i.op = "CALL"
  BY <1>1, Decoding DEF Op1IsIndex, Op2IsIndex, DestIsIndex, Branches, Immediates, BinaryOpcodes,
     UnaryOpcodes, IntArithmetic, DecimalArithmetic, Comparisons, IntComparisons,
     DecimalComparisons
<1>3. IsFnRef(Local(op1)) /\ CanPush(stack_pointer, JitLinkageWords)
  <2>1. ~(~IsNull(Local(op1)) /\ ~IsFnRef(Local(op1)))
    BY <1>1 DEF IsUndefined, BinaryOpcodes, IntArithmetic, DecimalArithmetic, Comparisons,
       IntComparisons, DecimalComparisons
  <2>2. ~IsNull(Local(op1)) /\ CanPush(stack_pointer, JitLinkageWords)
    BY <1>1 DEF ExitsWithError
  <2> QED
    BY <2>1, <2>2
<1>4. /\ i.op2 \in Nat /\ i.dest \in Nat
      /\ callee.parent \in Value /\ context_object \in Value
      /\ stack_pointer \in Nat
  BY <1>2, <1>3, CallFacts
<1>5. JitLinkage = <<uvalue(i.op2), context_object, uvalue(i.dest), callee.parent>>
  BY <1>2 DEF JitLinkage
<1>6. PICK linkage : linkage = JitLinkage
  OBVIOUS
<1>7. linkage \in Seq(Value) /\ Len(linkage) = 4 /\ linkage[4] = callee.parent
  <2>1. uvalue(i.op2) \in Value /\ uvalue(i.dest) \in Value
    BY <1>4, ConstructorsAreValues
  <2> HIDE DEF i, callee
  <2> QED
    BY <1>4, <1>5, <1>6, <2>1
<1>8. stack_pointer + 4 - 1 <= STACK_MAX
  BY <1>3, <1>4 DEF CanPush, JitLinkageWords
<1>9. /\ value_stack' = Pushed(value_stack, stack_pointer, linkage)
      /\ stack_pointer' = stack_pointer + 4
      /\ ip' = callee.entry
      /\ RecordCall(linkage)
      /\ UNCHANGED <<base_pointer, call_depth, context_object, heap, fn_refs, output>>
  BY <1>2, <1>6 DEF HCall, Call, JitLinkageWords
<1>10. CallStep(linkage)
  BY <1>1, <1>2, <1>3, <1>7, <1>8, <1>9 DEF CallStep
<1> QED
  BY <1>1, <1>5, <1>6, <1>10

(* RET of the root, which goes back to vm_run. *)
LEMMA RootReturns ==
  ASSUME JitConvention, Return, call_depth = 1
  PROVE  /\ Depth = 1
         /\ UNCHANGED frames => StopStep
         /\ returns' = << >>
         /\ rax' = FALSE
         /\ status' = "returned"
<1>0. CallingConvention
  BY DEF JitConvention
<1>1. /\ op = "RET"
      /\ status = "running"
      /\ call_depth' = call_depth - 1
      /\ UNCHANGED <<program, value_stack, heap, stack_pointer, base_pointer, context_object,
                     fn_refs, output>>
      /\ rax' = FALSE
      /\ NativeReturn
  BY DEF Return, Executes
<1>2. ~Entering
  BY <1>0, <1>1, Decoding, InstructionFacts DEF FnEnters
<1>3. Depth = 1
  BY <1>0, <1>1, <1>2 DEF CallingConvention, RegistersMatchFrame
<1>4. Len(returns) = 1 /\ returns[1] = Host /\ returns \in Seq(Addresses(program) \cup {Host})
  BY <1>1, <1>3 DEF JitConvention, ReturnsRecorded
<1>5. returns[Len(returns)] = Host
  BY <1>4
<1>6. /\ returns' = SubSeq(returns, 1, 0)
      /\ status' = "returned"
      /\ UNCHANGED ip
  BY <1>1, <1>4, <1>5 DEF NativeReturn
<1>7. returns' = << >>
  BY <1>4, <1>6
<1>8. call_depth' \in Nat
  BY <1>1
<1> QED
  BY <1>1, <1>3, <1>6, <1>7, <1>8 DEF StopStep

(* RET of another activation, which reads the linkage. *)
LEMMA ReturnReturns ==
  ASSUME JitConvention, Return, call_depth # 1
  PROVE  /\ RecordReturn => ReturnStep
         /\ Depth \in 2 .. Depth
         /\ returns' = SubSeq(returns, 1, Depth - 1)
         /\ rax' = FALSE
         /\ base_pointer' = frames[Depth - 1].base
         /\ stack_pointer' = ArgumentsStart(Depth)
         /\ context_object' = Frame.ctx
         /\ ip' = Frame.resume
         /\ status' = "running"
         /\ dest # 0 => StoreSlot(Frame.ctx, Frame.dest, Local(dest))
<1> DEFINE i == program.code[ip]
<1>0. CallingConvention /\ LinkageIntact
  BY LinkageFound DEF JitConvention
<1>1. /\ op = "RET"
      /\ status = "running"
      /\ call_depth' = call_depth - 1
      /\ rax' = FALSE
      /\ NativeReturn
      /\ UNCHANGED <<program, fn_refs, output>>
  BY DEF Return, Executes
<1>2. i.op = "RET" /\ dest = i.dest
  BY <1>1, Decoding DEF DestIsIndex, Immediates, BinaryOpcodes, UnaryOpcodes, IntArithmetic,
     DecimalArithmetic, Comparisons, IntComparisons, DecimalComparisons
<1>3. ~Entering
  BY <1>0, <1>2, InstructionFacts DEF FnEnters
<1>4. base_pointer = Frame.base /\ call_depth = Depth
  BY <1>0, <1>1, <1>3 DEF CallingConvention, RegistersMatchFrame
<1>5. Depth > 1 /\ Depth \in 2 .. Depth
  BY <1>0, <1>1, <1>4, FrameFacts
<1>6. /\ value_stack[Frame.base - 4] = uvalue(Len(Frame.args))
      /\ value_stack[Frame.base - 3] = Frame.ctx
      /\ value_stack[Frame.base - 2] = uvalue(Frame.dest)
      /\ value_stack[Frame.base - 1] = uvalue(frames[Depth - 1].base)
      /\ Len(returns) = Depth
      /\ returns[Depth] = Frame.resume
  <2>1. Entered(Depth)
    BY <1>3 DEF Entered
  <2> QED
    BY <1>0, <1>1, <1>5, <2>1 DEF LinkageIntact, Frame
<1>7. /\ SavedBase = frames[Depth - 1].base
      /\ ReturnIndex = Frame.dest
      /\ CallerContext = Frame.ctx
      /\ ParameterCount = Len(Frame.args)
  BY <1>4, <1>6 DEF SavedBase, ReturnIndex, CallerContext, ParameterCount, uvalue
<1>8. base_pointer - JitLinkageWords - ParameterCount = ArgumentsStart(Depth)
  <2>1. Len(Frame.linkage) = 4
    BY <1>5, LinkageLength
  <2> QED
    BY <1>4, <1>7, <2>1 DEF ArgumentsStart, Frame, JitLinkageWords
<1>9. Frame.resume # Host
  <2>1. Frame.resume \in Addresses(program)
    BY <1>0, <1>5 DEF CallingConvention, ResumesInCaller, Frame
  <2>2. Frame.resume \in Nat
    BY <1>0, <2>1, FrameFacts, AddressFacts
  <2> QED
    BY <2>2 DEF Host
<1>10. /\ returns' = SubSeq(returns, 1, Depth - 1)
       /\ ip' = Frame.resume
       /\ UNCHANGED status
  BY <1>1, <1>6, <1>9 DEF NativeReturn
<1>11. /\ stack_pointer' = base_pointer - JitLinkageWords - ParameterCount
       /\ base_pointer' = SavedBase
       /\ context_object' = CallerContext
       /\ IF dest # 0
            THEN StoreSlot(CallerContext, ReturnIndex, Local(dest))
            ELSE UNCHANGED <<value_stack, heap>>
  BY DEF Return, Unwind
<1>12. RecordReturn => ReturnStep
  BY <1>1, <1>2, <1>4, <1>5, <1>7, <1>8, <1>10, <1>11 DEF ReturnStep
<1> QED
  BY <1>1, <1>5, <1>7, <1>8, <1>10, <1>11, <1>12

-----------------------------------------------------------------------------
(* The invariant *)

(* Every step of the JIT is a step of the convention. *)
LEMMA JitSteps ==
  ASSUME JitConvention, [HNext]_hvars
  PROVE  \/ HCall /\ CallStep(JitLinkage)
         \/ Return /\ call_depth # 1 /\ ReturnStep
         \/ Return /\ call_depth = 1 /\ StopStep
         \/ JitLocalStep
         \/ EnterStep /\ rax' = FALSE /\ UNCHANGED <<frames, returns>>
         \/ /\ StopStep
            /\ UNCHANGED <<returns, rax>>
            /\ UNCHANGED status \/ status' \in {"error", "undefined"}
            /\ status # "returned" \/ UNCHANGED status
<1>0. CallingConvention /\ rax \in BOOLEAN
  BY DEF JitConvention
<1>1. CASE HCall
  BY <1>0, <1>1, CallCalls
<1>2. CASE HReturn
  BY <1>2, ReturnReturns, RootReturns DEF HReturn
<1>3. CASE HWithin
  <2>1. UNCHANGED frames /\ WithinActivation
    BY <1>3 DEF HWithin
  <2>2. CASE FnEnter
    BY <1>0, <2>1, <2>2, FnEnterEnters
  <2>3. CASE Jump \/ Branch \/ FusedBranch \/ ObjectAccess
    BY <1>0, <2>1, <2>3, ControlLocal
  <2>4. CASE MoveImmediate \/ Move \/ MoveFunction
    BY <1>0, <2>1, <2>4, MoveImmediateLocal, MoveLocal, MoveFunctionLocal
  <2>5. CASE InlineArithmetic \/ InlineModulo \/ Compare \/ Arithmetic
    BY <1>0, <2>1, <2>5, InlineLocal, CompareLocal, ArithmeticLocal
  <2>6. CASE ArgRead \/ GetInParent \/ SetInParent
    BY <1>0, <2>1, <2>6, ArgReadLocal, GetInParentLocal, SetInParentLocal
  <2>7. CASE CallNative \/ Push
    BY <1>0, <2>1, <2>7, CallNativeLocal, PushLocal
  <2>8. CASE ErrorExit \/ UndefinedBehaviour
    <3>1. /\ UNCHANGED <<program, ip, machine, returns, rax>>
          /\ status = "running"
          /\ status' \in {"error", "undefined"}
      BY <2>8 DEF ErrorExit, UndefinedBehaviour
    <3>2. call_depth \in Nat
      BY <1>0 DEF CallingConvention, FramesTypeOK, SharedTypeOK
    <3> QED
      BY <2>1, <3>1, <3>2 DEF machine, StopStep
  <2> QED
    BY <2>1, <2>2, <2>3, <2>4, <2>5, <2>6, <2>7, <2>8 DEF WithinActivation
<1>4. CASE HHalted \/ UNCHANGED hvars
  <2>1. UNCHANGED <<program, ip, machine, status, returns, rax, frames>>
    BY <1>4 DEF HHalted, Halted, hvars, jvars
  <2>2. call_depth \in Nat /\ status \in {"running", "returned", "error", "undefined"}
    BY <1>0 DEF CallingConvention, FramesTypeOK, SharedTypeOK
  <2> QED
    BY <2>1, <2>2 DEF machine, StopStep
<1> QED
  BY <1>1, <1>2, <1>3, <1>4 DEF HNext

(* Every instruction preserves the convention of the value stack. *)
LEMMA ConventionKept ==
  ASSUME JitConvention, [HNext]_hvars
  PROVE  CallingConvention'
<1>0. CallingConvention
  BY DEF JitConvention
<1> QED
  BY <1>0, JitSteps, CallSteps, ReturnSteps, StopSteps, LocalSteps, EnterSteps DEF JitLocalStep

(* Every CALL records its linkage. *)
LEMMA LinkageKeptRecorded ==
  ASSUME JitConvention, [HNext]_hvars
  PROVE  LinkageRecorded'
<1>0. CallingConvention
  BY DEF JitConvention
<1>1. CASE HCall /\ CallStep(JitLinkage)
  <2> DEFINE new == CalledFrame(JitLinkage)
  <2>1. /\ \A k \in 1 .. Depth : frames'[k] = frames[k]
        /\ frames'[Depth + 1] = new
        /\ Len(new.args) = program.code[ip].op2
        /\ \A k \in 2 .. Depth' : k \in 2 .. Depth \/ k = Depth + 1
    BY <1>0, <1>1, CallHistory
  <2>2. new.linkage = <<uvalue(Len(new.args)), new.ctx, uvalue(new.dest), new.parent>>
    <3>1. JitLinkage = <<uvalue(program.code[ip].op2), context_object,
                         uvalue(program.code[ip].dest),
                         Callee(Local(program.code[ip].op1)).parent>>
      BY <1>0, <1>1, CallCalls
    <3>2. /\ new.linkage = JitLinkage
          /\ new.ctx = context_object
          /\ new.dest = program.code[ip].dest
          /\ new.parent = Callee(Local(program.code[ip].op1)).parent
      BY DEF CalledFrame
    <3> HIDE DEF new
    <3> QED
      BY <2>1, <3>1, <3>2
  <2> HIDE DEF new
  <2>3. \A k \in 2 .. Depth : k \in 1 .. Depth
    BY <1>0, FrameFacts
  <2> QED
    BY <2>1, <2>2, <2>3 DEF JitConvention, LinkageRecorded
<1>2. CASE ReturnStep
  BY <1>0, <1>2, ReturnHistory DEF JitConvention, LinkageRecorded
<1>3. CASE UNCHANGED frames
  BY <1>3 DEF JitConvention, LinkageRecorded, Depth
<1> QED
  BY <1>1, <1>2, <1>3, JitSteps DEF JitLocalStep, StopStep

(* The native stack keeps step with the value stack. *)
LEMMA ReturnsKept ==
  ASSUME JitConvention, [HNext]_hvars
  PROVE  ReturnsRecorded'
<1>0. CallingConvention /\ ReturnsRecorded
  BY DEF JitConvention
<1>1. CASE HCall /\ CallStep(JitLinkage)
  <2>1. /\ program' = program
        /\ status = "running"
        /\ status' = "running"
        /\ returns' = Append(returns, ip + 1)
    BY <1>0, <1>1, CallCalls DEF CallStep
  <2>2. ip + 1 \in Addresses(program)
    BY <1>0, <1>1, CallFacts DEF CallStep
  <2>3. /\ returns \in Seq(Addresses(program) \cup {Host})
        /\ Len(returns) = Depth
        /\ returns[1] = Host
        /\ \A k \in 2 .. Depth : returns[k] = frames[k].resume
    BY <1>0, <2>1 DEF ReturnsRecorded
  <2>4. /\ returns' \in Seq(Addresses(program) \cup {Host})
        /\ Len(returns') = Depth + 1
        /\ \A k \in 1 .. Depth : returns'[k] = returns[k]
        /\ returns'[Depth + 1] = ip + 1
    BY <2>1, <2>2, <2>3, AppendProperties
  <2>5. /\ Depth' = Depth + 1
        /\ \A k \in 1 .. Depth : frames'[k] = frames[k]
        /\ frames'[Depth + 1].resume = ip + 1
        /\ \A k \in 2 .. Depth' : k \in 2 .. Depth \/ k = Depth + 1
    <3>1. CalledFrame(JitLinkage).resume = ip + 1
      BY DEF CalledFrame
    <3> QED
      BY <1>0, <1>1, <3>1, CallHistory
  <2>6. /\ Depth \in Nat \ {0}
        /\ \A k \in 2 .. Depth : k \in 1 .. Depth
    BY <1>0, FrameFacts
  <2>7. \A k \in 2 .. Depth' : returns'[k] = frames'[k].resume
    BY <2>3, <2>4, <2>5, <2>6
  <2>8. 1 \in 1 .. Depth
    BY <2>6
  <2> QED
    BY <2>1, <2>3, <2>4, <2>5, <2>7, <2>8 DEF ReturnsRecorded
<1>2. CASE Return /\ call_depth # 1 /\ ReturnStep
  <2>1. /\ program' = program
        /\ status = "running"
        /\ status' = "running"
        /\ returns' = SubSeq(returns, 1, Depth - 1)
    BY <1>2, ReturnReturns DEF ReturnStep
  <2>2. PICK d \in Nat : d = Depth - 1 /\ d > 0 /\ Depth = d + 1
    BY <1>0, <1>2, FrameFacts DEF ReturnStep
  <2>3. /\ returns \in Seq(Addresses(program) \cup {Host})
        /\ Len(returns) = d + 1
        /\ returns[1] = Host
        /\ \A k \in 2 .. Depth : returns[k] = frames[k].resume
    BY <1>0, <2>1, <2>2 DEF ReturnsRecorded
  <2>4. /\ returns' \in Seq(Addresses(program) \cup {Host})
        /\ Len(returns') = d
        /\ \A k \in 1 .. d : returns'[k] = returns[k]
    BY <2>1, <2>2, <2>3
  <2>5. /\ Depth' = d
        /\ \A k \in 1 .. d : frames'[k] = frames[k]
        /\ \A k \in 2 .. d : k \in 1 .. d /\ k \in 2 .. Depth
    BY <1>0, <1>2, <2>2, ReturnHistory
  <2>6. \A k \in 2 .. d : returns'[k] = frames'[k].resume
    BY <2>3, <2>4, <2>5
  <2>7. returns'[1] = Host
    BY <2>2, <2>3, <2>4
  <2> QED
    BY <2>1, <2>4, <2>5, <2>6, <2>7 DEF ReturnsRecorded
<1>3. CASE Return /\ call_depth = 1 /\ StopStep
  <2>1. returns' = << >> /\ status' = "returned"
    BY <1>3, RootReturns
  <2> QED
    BY <2>1 DEF ReturnsRecorded
<1>4. CASE UNCHANGED <<program, returns, frames>>
  <2>1. CASE UNCHANGED status
    BY <1>0, <1>4, <2>1 DEF ReturnsRecorded, Depth
  <2>2. CASE status # "returned" /\ status' # "returned"
    BY <1>0, <1>4, <2>2 DEF ReturnsRecorded, Depth
  <2>3. UNCHANGED status \/ (status # "returned" /\ status' # "returned")
    <3>1. CASE Return
      <4>1. status = "running" /\ (call_depth = 1 => returns' = << >>)
        BY <3>1, RootReturns DEF JitConvention, Return, Executes
      <4>2. Len(returns) = Depth /\ Depth # 0
        BY <1>0, <4>1, FrameFacts DEF ReturnsRecorded
      <4>3. call_depth # 1
        BY <1>4, <4>1, <4>2
      <4> QED
        BY <3>1, <4>1, <4>3, ReturnReturns
    <3>2. CASE ~Return
      BY <3>2, JitSteps DEF JitLocalStep, LocalStep, EnterStep, CallStep
    <3> QED
      BY <3>1, <3>2
  <2> QED
    BY <2>1, <2>2, <2>3
<1> QED
  BY <1>1, <1>2, <1>3, <1>4, JitSteps DEF JitLocalStep, EnterStep, StopStep, LocalStep

(* What a comparison leaves in the register is what it stored, until the   *)
(* branch behind it.                                                       *)
LEMMA RegisterKept ==
  ASSUME JitConvention, [HNext]_hvars
  PROVE  rax' \in BOOLEAN /\ RegisterHoldsComparison'
<1>0. CallingConvention /\ rax \in BOOLEAN
  BY DEF JitConvention
<1>1. rax' \in BOOLEAN
  <2>1. CASE Return
    BY <2>1 DEF Return
  <2>2. CASE HCall
    BY <2>2 DEF HCall, Call
  <2>3. CASE ~Return /\ ~HCall
    BY <1>0, <2>3, JitSteps DEF JitLocalStep
  <2> QED
    BY <2>1, <2>2, <2>3
<1>2. program' = program
  BY JitSteps DEF JitLocalStep, LocalStep, CallStep, ReturnStep, EnterStep, StopStep
<1> DEFINE code == program.code
<1>3. /\ Fused => /\ code[ip].op \in Branches
                  /\ code[ip - 1].op \in Comparisons
      /\ Fused' => /\ code[ip'].op \in Branches
                   /\ ip' - 1 \in Addresses(program)
                   /\ code[ip' - 1].op \in Comparisons
  BY <1>2 DEF Fused, op, instruction, Scaled
<1>4. op = code[ip].op
  BY Decoding
<1>5. /\ {"CALL"} \cap Comparisons = {}
      /\ FnEnters \cap (Comparisons \cup Branches) = {}
  BY DEF FnEnters, Branches, Comparisons, IntComparisons, DecimalComparisons
<1>6. ip \in Nat
  BY <1>0, FrameFacts, AddressFacts
<1>7. ASSUME ip' = ip + 1, op \notin Comparisons
      PROVE  ~Fused'
  <2>1. ip' - 1 = ip
    BY <1>6, <1>7
  <2> QED
    BY <1>3, <1>4, <1>7, <2>1
<1>8. CASE HCall /\ CallStep(JitLinkage)
  <2>1. ip' \in EntriesOf(program)
    BY <1>0, <1>8, CallFacts DEF CallStep
  <2>2. code[ip'].op \in FnEnters
    BY <2>1 DEF EntriesOf
  <2> QED
    BY <1>1, <1>3, <1>5, <2>2 DEF RegisterHoldsComparison
<1>9. CASE Return /\ call_depth # 1 /\ ReturnStep
  <2>1. Depth \in 2 .. Depth /\ ip' = Frame.resume
    BY <1>9, ReturnReturns
  <2>2. code[ip' - 1].op = "CALL"
    BY <1>0, <2>1 DEF CallingConvention, ResumesInCaller, Frame
  <2> QED
    BY <1>1, <1>3, <1>5, <2>2 DEF RegisterHoldsComparison
<1>10. CASE Return /\ call_depth = 1 /\ StopStep
  <2>1. status' = "returned"
    BY <1>10, RootReturns
  <2> QED
    BY <1>1, <2>1 DEF RegisterHoldsComparison
<1>11. CASE EnterStep
  <2>1. ip' = ip + 1 /\ code[ip].op \in FnEnters
    BY <1>11 DEF EnterStep, FnEnters
  <2> QED
    BY <1>1, <1>4, <1>5, <1>7, <2>1 DEF RegisterHoldsComparison
<1>12. CASE JitLocalStep
  <2>1. CASE ip' = ip + 1 /\ op \notin Comparisons
    BY <1>1, <1>7, <2>1 DEF RegisterHoldsComparison
  <2>2. CASE op \in Jumps /\ ip' = code[ip].dest
    <3>1. JitAgrees(program) => ~Fused'
      <4>1. SUFFICES ASSUME JitAgrees(program), Fused' PROVE FALSE
        OBVIOUS
      <4>2. ip' \in Addresses(program) /\ ip \in Addresses(program) /\ ip' \in Nat
        <5>1. ip' \in Addresses(program)
          BY <1>12 DEF JitLocalStep, LocalStep
        <5> QED
          BY <1>0, <5>1, FrameFacts, AddressFacts
      <4>3. ip' - 1 \in Nat
        BY <1>0, <1>3, <4>1, FrameFacts, AddressFacts
      <4>4. ip' > 0
        <5>1. PICK a : a = ip'
          OBVIOUS
        <5>2. a \in Nat /\ a - 1 \in Nat
          BY <4>2, <4>3, <5>1
        <5>3. a > 0
          BY <5>2
        <5> QED
          BY <5>1, <5>3
      <4>5. \A b \in Addresses(program) : code[b].op \in Jumps => code[b].dest # ip'
        BY <1>3, <4>1, <4>2, <4>4 DEF JitAgrees
      <4> QED
        BY <1>4, <2>2, <4>2, <4>5
    <3>2. JitAgrees(program)' = JitAgrees(program)
      BY <1>2 DEF JitAgrees
    <3> QED
      BY <1>1, <3>1, <3>2 DEF RegisterHoldsComparison
  <2>3. CASE /\ op \in Comparisons
             /\ ip' = ip + 1
             /\ StoreSlot(context_object, code[ip].dest, bvalue(rax'))
    <3>1. ~Entering /\ context_object' = context_object
      BY <1>12 DEF JitLocalStep, LocalStep
    <3>2. code[ip].dest \in 0 .. FrameSize(program, Frame.entry) - 1
      <4>1. WritesDest(code[ip].op)
        BY <1>4, <2>3 DEF WritesDest, BinaryOpcodes
      <4>2. code[ip].dest \in 1 .. FrameSize(program, Frame.entry) - 1
        BY <1>0, <3>1, <4>1, SlotFacts
      <4>3. FrameSize(program, Frame.entry) \in Nat
        BY <1>0, FrameFacts DEF Frame
      <4> QED
        BY <4>2, <4>3
    <3>3. PICK c, n, v : c = context_object /\ n = code[ip].dest /\ v = bvalue(rax')
      OBVIOUS
    <3>4. /\ Depth \in 1 .. Depth
          /\ Entered(Depth)
          /\ c = OwnContext(Depth)
          /\ n \in 0 .. FrameSize(program, frames[Depth].entry) - 1
          /\ StoreSlot(c, n, v)
      BY <1>0, <2>3, <3>1, <3>2, <3>3, FrameFacts DEF Entered, OwnContext, Frame
    <3>5. Slot(c, n)' = v
      BY <1>0, <3>4, StoredSlots
    <3>6. ip' - 1 = ip
      BY <1>6, <2>3
    <3>7. Local(program.code[ip - 1].dest)' = v
      BY <1>2, <3>1, <3>3, <3>5, <3>6 DEF Local
    <3> QED
      BY <1>1, <3>3, <3>7 DEF RegisterHoldsComparison
  <2> QED
    BY <1>12, <2>1, <2>2, <2>3 DEF JitLocalStep, Straight
<1>13. CASE StopStep /\ UNCHANGED rax
  <2>1. status' = "running" => status = "running"
    BY <1>13 DEF StopStep
  <2>2. UNCHANGED <<program, ip, value_stack, context_object, heap, rax>>
    BY <1>13 DEF StopStep
  <2> QED
    BY <1>1, <2>1, <2>2 DEF JitConvention, RegisterHoldsComparison, Fused, op, instruction,
       Scaled, JitAgrees, Local, Slot
<1> QED
  BY <1>8, <1>9, <1>10, <1>11, <1>12, <1>13, JitSteps

-----------------------------------------------------------------------------
(* The invariant *)

(* Every handler of the JIT preserves the convention. *)
LEMMA NextCorrect ==
  ASSUME JitConvention, [HNext]_hvars
  PROVE  JitConvention'
BY ConventionKept, LinkageKeptRecorded, ReturnsKept, RegisterKept DEF JitConvention

(* The convention holds when vm_run starts. *)
LEMMA InitCorrect ==
  ASSUME HInit
  PROVE  JitConvention
<1>1. /\ CallingConvention
      /\ Depth = 1
      /\ returns = <<Host>>
      /\ rax \in BOOLEAN
      /\ status = "running"
      /\ ip = 0
  BY StartCorrect DEF HInit, Init, SharedInit, RecordStart, Depth
<1>2. LinkageRecorded
  BY <1>1 DEF LinkageRecorded
<1>3. ReturnsRecorded
  BY <1>1 DEF ReturnsRecorded
<1>4. RegisterHoldsComparison
  <2>1. program.code[0].op \in FnEnters
    BY <1>1, RootFacts, FrameFacts DEF EntriesOf
  <2>2. ~Fused
    BY <1>1, <2>1, Decoding DEF Fused, FnEnters, Branches
  <2> QED
    BY <2>2 DEF RegisterHoldsComparison
<1> QED
  BY <1>1, <1>2, <1>3, <1>4 DEF JitConvention

(* The convention of the JIT holds whenever an instruction starts: the     *)
(* calling convention, its four linkage words, one return address on the   *)
(* native stack for each activation, and the register a fused branch       *)
(* trusts.                                                                 *)
THEOREM ConventionHolds == HSpec => []JitConvention
<1>1. HInit => JitConvention
  BY InitCorrect
<1>2. JitConvention /\ [HNext]_hvars => JitConvention'
  BY NextCorrect
<1> QED
  BY <1>1, <1>2, PTL DEF HSpec

(* Every variable keeps its type; in particular neither a jump nor a       *)
(* native return leaves the code.                                          *)
THEOREM TypeCorrect == HSpec => []TypeOK
<1>1. JitConvention => TypeOK
  BY DEF JitConvention, CallingConvention, FramesTypeOK, ReturnsRecorded, TypeOK
<1> QED
  BY <1>1, ConventionHolds, PTL

(* Between instructions the registers are those of the running activation  *)
(* and its operands are balanced.                                          *)
THEOREM RegistersCorrect == HSpec => []RegistersMatchFrame
<1>1. JitConvention => RegistersMatchFrame
  BY DEF JitConvention, CallingConvention
<1> QED
  BY <1>1, ConventionHolds, PTL

(* Nothing a program does overwrites the linkage, the arguments or the     *)
(* return address of an activation that has not returned.                  *)
THEOREM LinkageSurvives == HSpec => []LinkageIntact
<1>1. JitConvention => LinkageIntact
  BY LinkageFound
<1> QED
  BY <1>1, ConventionHolds, PTL

(* No closure and no context points to a context on the stack. *)
THEOREM NoStackCapture == HSpec => []NothingCapturesStack
<1>1. JitConvention => NothingCapturesStack
  BY DEF JitConvention, CallingConvention
<1> QED
  BY <1>1, ConventionHolds, PTL

(* The native stack has one return address for each activation of the      *)
(* value stack, and reaches the host exactly when the root returns.        *)
THEOREM NativeStackStays == HSpec => []NativeStackAgrees
<1>1. ASSUME JitConvention
      PROVE  NativeStackAgrees
  <2>0. /\ CallingConvention
        /\ Depth \in Nat \ {0}
        /\ \A k \in 2 .. Depth : frames[k].resume \in Addresses(program)
        /\ \A a \in Addresses(program) : a \in Nat
    BY <1>1, FrameFacts, AddressFacts DEF JitConvention, CallingConvention, ResumesInCaller
  <2>1. CASE status = "returned"
    <3>1. returns = << >>
      BY <1>1, <2>1 DEF JitConvention, ReturnsRecorded
    <3> QED
      BY <2>1, <3>1 DEF NativeStackAgrees
  <2>2. CASE status # "returned"
    <3>1. /\ returns \in Seq(Addresses(program) \cup {Host})
          /\ Len(returns) = Depth
          /\ returns[1] = Host
          /\ \A k \in 2 .. Depth : returns[k] = frames[k].resume
      BY <1>1, <2>2 DEF JitConvention, ReturnsRecorded
    <3>2. returns # << >>
      BY <2>0, <3>1
    <3>3. status = "running" => Depth = call_depth + IF op \in FnEnters THEN 1 ELSE 0
      <4>1. call_depth \in Nat
        BY <2>0 DEF CallingConvention, FramesTypeOK, SharedTypeOK
      <4>2. op \in FnEnters <=> Entering
        BY Decoding DEF Entering
      <4>3. status = "running" => call_depth = IF Entering THEN Depth - 1 ELSE Depth
        BY <2>0 DEF CallingConvention, RegistersMatchFrame
      <4> QED
        BY <2>0, <4>1, <4>2, <4>3
    <3>4. ASSUME NEW k \in DOMAIN returns
          PROVE  returns[k] = Host <=> k = 1
      <4>1. k = 1 \/ k \in 2 .. Depth
        BY <2>0, <3>1, <3>4
      <4>2. k \in 2 .. Depth => returns[k] \in Nat /\ k # 1
        BY <2>0, <3>1
      <4>3. Host \notin Nat
        BY DEF Host
      <4> QED
        BY <3>1, <4>1, <4>2, <4>3
    <3> QED
      BY <2>2, <3>1, <3>2, <3>3, <3>4 DEF NativeStackAgrees
  <2> QED
    BY <2>1, <2>2
<1> QED
  BY <1>1, ConventionHolds, PTL

(* The register is what a fused branch would have found in the slot. *)
LEMMA RegisterAgrees ==
  ASSUME JitConvention, status = "running", Fused, JitAgrees(program)
  PROVE  /\ rax \in BOOLEAN
         /\ HighWords(AtOffset(op1)) = {IF rax THEN 1 ELSE 0}
<1>0. CallingConvention /\ ip \in Addresses(program) /\ rax \in BOOLEAN
  BY FrameFacts DEF JitConvention
<1>1. /\ op \in Branches
      /\ op = program.code[ip].op
      /\ op1 = WORD * program.code[ip].op1
  BY Decoding DEF Fused, Op1IsIndex, Branches
<1>2. ip > 0
  <2>1. ip \in Nat /\ ip - 1 \in Nat
    BY <1>0, FrameFacts, AddressFacts DEF Fused
  <2> QED
    BY <2>1
<1>3. program.code[ip].op1 = program.code[ip - 1].dest
  <2>1. program.code[ip - 1].op \in Comparisons
    BY DEF Fused
  <2> QED
    BY <1>0, <1>1, <1>2, <2>1 DEF JitAgrees
<1>4. program.code[ip].op1 \in Nat
  <2>1. ~Entering
    BY <1>1 DEF Entering, FnEnters, Branches
  <2>2. program.code[ip].op1 \in SlotsRead(program.code[ip])
    BY <1>1 DEF SlotsRead, Branches
  <2> QED
    BY <1>0, <2>1, <2>2, SlotFacts
<1>5. AtOffset(op1) = bvalue(rax)
  <2>1. Local(program.code[ip - 1].dest) = bvalue(rax)
    BY DEF JitConvention, RegisterHoldsComparison
  <2>2. op1 \div WORD = program.code[ip].op1
    BY <1>1, <1>4, Unscaled
  <2> QED
    BY <1>3, <2>1, <2>2 DEF AtOffset
<1>6. HighWords(bvalue(rax)) = {IF rax THEN 1 ELSE 0}
  BY DEF HighWords, bvalue
<1> QED
  BY <1>0, <1>5, <1>6

(* A branch that trusts the register of a comparison goes where the        *)
(* comparison says.                                                        *)
THEOREM FusedBranchesRight == HSpec => []FusedBranchAgrees
<1>1. ASSUME JitConvention, status = "running", Fused, JitAgrees(program)
      PROVE  \A n \in HighWords(AtOffset(op1)) : rax = (n # 0)
  BY <1>1, RegisterAgrees
<1>2. JitConvention => FusedBranchAgrees
  BY <1>1 DEF FusedBranchAgrees
<1> QED
  BY <1>2, ConventionHolds, PTL

-----------------------------------------------------------------------------
(* Action properties *)

(* Every return to an activation of the program gives it its registers     *)
(* back, removes the arguments and delivers the result; the return of the  *)
(* root goes to the host.                                                  *)
THEOREM ReturnsRestore == HSpec => ReturnRestoresCaller
<1> DEFINE Restores(f) ==
             IF Depth = 1 THEN status' = "returned"
             ELSE /\ ip' = f.resume
                  /\ status' = "running"
                  /\ context_object' = f.ctx
                  /\ base_pointer' = frames[Depth - 1].base
                  /\ stack_pointer' = ArgumentsStart(Depth)
                  /\ dest # 0 => Slot(f.ctx, f.dest)' = Local(dest)
<1>1. ASSUME JitConvention, Return, NEW f, f = Frame
      PROVE  Restores(f)
  <2>0. CallingConvention
    BY <1>1 DEF JitConvention
  <2>1. CASE call_depth = 1
    BY <1>1, <2>1, RootReturns
  <2>2. CASE call_depth # 1
    <3>0. Depth # 1
      <4>1. Depth \in 2 .. Depth /\ Depth \in Nat
        BY <1>1, <2>0, <2>2, ReturnReturns, FrameFacts
      <4> QED
        BY <4>1
    <3>1. /\ ip' = f.resume
          /\ status' = "running"
          /\ context_object' = f.ctx
          /\ base_pointer' = frames[Depth - 1].base
          /\ stack_pointer' = ArgumentsStart(Depth)
      BY <1>1, <2>2, ReturnReturns
    <3>2. ASSUME dest # 0
          PROVE  Slot(f.ctx, f.dest)' = Local(dest)
      <4>1. PICK k, v : k = Depth - 1 /\ v = Local(dest)
        OBVIOUS
      <4>2. /\ k \in 1 .. Depth
            /\ k < Depth
            /\ k + 1 = Depth
            /\ StoreSlot(f.ctx, f.dest, v)
        <5>1. PICK d \in Nat : d = Depth /\ d # 0
          BY <2>0, FrameFacts
        <5>2. d - 1 \in 1 .. d /\ d - 1 < d /\ d - 1 + 1 = d
          BY <3>0, <5>1
        <5>3. StoreSlot(Frame.ctx, Frame.dest, Local(dest))
          BY <1>1, <2>2, <3>2, ReturnReturns
        <5> QED
          BY <1>1, <4>1, <5>1, <5>2, <5>3
      <4>3. Entered(k) /\ OwnContext(k) = f.ctx
        BY <1>1, <4>2 DEF Entered, OwnContext, Frame
      <4>4. f.dest \in 0 .. FrameSize(program, frames[k].entry) - 1
        <5>1. Depth \in 2 .. Depth
          BY <1>1, <2>2, ReturnReturns
        <5>2. f.dest \in 1 .. FrameSize(program, frames[k].entry) - 1
          BY <1>1, <2>0, <4>1, <5>1 DEF CallingConvention, ResumesInCaller, Frame
        <5>3. FrameSize(program, frames[k].entry) \in Nat
          BY <2>0, <4>2, FrameFacts
        <5> QED
          BY <5>2, <5>3
      <4>5. Slot(f.ctx, f.dest)' = v
        BY <2>0, <4>2, <4>3, <4>4, StoredSlots
      <4> QED
        BY <4>1, <4>5
    <3> QED
      BY <3>0, <3>1, <3>2
  <2> QED
    BY <2>1, <2>2
<1>2. JitConvention /\ [HNext]_hvars => [Return => \A f \in {Frame} : Restores(f)]_hvars
  BY <1>1
<1> QED
  BY <1>2, ConventionHolds, PTL DEF HSpec, ReturnRestoresCaller

(* The word ARG_READ reads is the argument the caller pushed. *)
LEMMA ArgumentRead ==
  ASSUME JitConvention, op = "ARG_READ", op1 < Len(Frame.args)
  PROVE  StackWord(base_pointer - JitArgumentOffset - op1) = Frame.args[Len(Frame.args) - op1]
<1> DEFINE size == Len(Frame.args)
<1>1. CallingConvention /\ op = program.code[ip].op
  BY Decoding DEF JitConvention
<1>2. ~Entering
  BY <1>1, InstructionFacts DEF FnEnters
<1>3. op1 \in Nat
  BY <1>1, Decoding, InstructionFacts DEF WellFormedAt, Op1IsIndex,
     Branches, BinaryOpcodes, UnaryOpcodes, IntArithmetic, DecimalArithmetic,
     Comparisons, IntComparisons, DecimalComparisons
<1>4. base_pointer = Frame.base
  BY <1>1, <1>2 DEF CallingConvention, RegistersMatchFrame
<1>5. Depth \in 2 .. Depth /\ Depth \in 1 .. Depth
  <2>1. Depth \in Nat \ {0}
    BY <1>1, FrameFacts
  <2>2. Depth = 1 => Len(Frame.args) = 0
    BY <1>1 DEF CallingConvention, RootStays, RootFrame, Frame
  <2> QED
    BY <1>3, <2>1, <2>2
<1>6. /\ size - op1 \in 1 .. size
      /\ ArgumentsStart(Depth) + (size - op1) - 1 = base_pointer - JitArgumentOffset - op1
  <2>1. Frame.base \in Nat /\ size \in Nat
    BY <1>1, <1>5, FrameFacts DEF Frame
  <2>2. ArgumentsStart(Depth) = Frame.base - 4 - size
    BY <1>5, LinkageLength DEF ArgumentsStart, Frame
  <2> HIDE DEF size
  <2>3. op1 < size
    BY DEF size
  <2> QED
    BY <1>3, <1>4, <2>1, <2>2, <2>3 DEF JitArgumentOffset
<1>7. value_stack[ArgumentsStart(Depth) + (size - op1) - 1] = Frame.args[size - op1]
  BY <1>5, <1>6, LinkageFound DEF LinkageIntact, Frame
<1>8. base_pointer - JitArgumentOffset - op1 \in StackIndexes
  <2>1. /\ 1 < Depth
        /\ frames[Depth] = Frame
    BY <1>5 DEF Frame
  <2>2. /\ ArgumentsStart(Depth) + (size - op1) - 1 \in 0 .. Frame.base - 1
        /\ \A i \in 0 .. Frame.base : i \in StackIndexes
        /\ Frame.base \in Nat
    BY <1>1, <1>5, <1>6, <2>1, BelowBase
  <2> HIDE DEF size
  <2> QED
    BY <1>6, <2>2
<1> QED
  BY <1>6, <1>7, <1>8 DEF StackWord

(* ARG_READ reads what the caller pushed. *)
THEOREM ArgumentsDelivered == HSpec => ArgumentsArrive
<1> DEFINE Delivers(slot) == Local(slot)' = Frame.args[Len(Frame.args) - op1]
<1>1. ASSUME JitConvention, ArgRead, op1 < Len(Frame.args),
             NEW slot, slot = program.code[ip].dest
      PROVE  Delivers(slot)
  <2>0. CallingConvention
    BY <1>1 DEF JitConvention
  <2>1. PICK v : /\ v = StackWord(base_pointer - JitArgumentOffset - op1)
                 /\ Computes(v) /\ op = "ARG_READ" /\ op = program.code[ip].op
    BY <1>1, Decoding DEF ArgRead, Executes
  <2>2. ~Entering /\ WritesDest(op) /\ op \notin {"CALL", "POP"}
    BY <2>0, <2>1, InstructionFacts DEF FnEnters, WritesDest
  <2>3. slot \in 0 .. FrameSize(program, Frame.entry) - 1
    <3>1. slot \in 1 .. FrameSize(program, Frame.entry) - 1
      BY <1>1, <2>0, <2>1, <2>2, SlotFacts
    <3>2. FrameSize(program, Frame.entry) \in Nat
      BY <2>0, FrameFacts DEF Frame
    <3> QED
      BY <3>1, <3>2
  <2>4. v = Frame.args[Len(Frame.args) - op1]
    BY <1>1, <2>1, ArgumentRead
  <2>5. PICK c : c = context_object
    OBVIOUS
  <2>6. StoreSlot(c, slot, v) /\ context_object' = c
    BY <1>1, <2>0, <2>1, <2>2, <2>5, DestinationSlot
  <2>7. Depth \in 1 .. Depth /\ Entered(Depth) /\ OwnContext(Depth) = c
    BY <2>0, <2>2, <2>5, FrameFacts DEF Entered, OwnContext
  <2>8. slot \in 0 .. FrameSize(program, frames[Depth].entry) - 1
    BY <2>3 DEF Frame
  <2>9. Slot(c, slot)' = v
    BY <2>0, <2>6, <2>7, <2>8, StoredSlots
  <2>10. Local(slot)' = Slot(c, slot)'
    BY <2>6 DEF Local
  <2> QED
    BY <2>4, <2>9, <2>10
<1>2. JitConvention /\ [HNext]_hvars =>
        [ArgRead /\ op1 < Len(Frame.args) =>
           \A slot \in {program.code[ip].dest} : Delivers(slot)]_hvars
  BY <1>1
<1> QED
  BY <1>2, ConventionHolds, PTL DEF HSpec, ArgumentsArrive

=============================================================================
