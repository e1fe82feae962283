-------------------------- MODULE ByteCodeGenerator --------------------------
(***************************************************************************)
(* The code generator (src/compiler/bytecode_generator.cpp): one operator  *)
(* per visit function, from the syntax tree that TypeExtractor yields to   *)
(* the instruction list of Program.                                        *)
(*                                                                         *)
(* An expression is a record with a kind, a type and overloads, and        *)
(*   identifier (depth, index); a literal is one too, for the extractor    *)
(*     gives every literal a slot of its own                               *)
(*   string (data), null, function (function)                              *)
(*   binary (op, left, right), assign (left, right), negate, not (right)   *)
(*   call (left, params, callee), callee being the type to be called       *)
(* A statement is a record with a kind and the fields VisitStatement reads;*)
(* a block is a sequence of statements.  A function has its context, the   *)
(* names of its arguments and a block.  What is absent is Nothing.         *)
(*                                                                         *)
(* The operators are recursive: only runs of TLC use this module.          *)
(***************************************************************************)
EXTENDS Program, TypeModel, SyntaxTree
INSTANCE TypeContext WITH TextOf <- Text

Instr(opcode, a, b, d) == [op |-> opcode, op1 |-> a, op2 |-> b, dest |-> d]

-----------------------------------------------------------------------------
(* State of the generator *)

(* subs: subroutinePrograms, each with its code, its context, which        *)
(* temporaries are occupied, and isLeafFunction; open: programsStack, as   *)
(* numbers of subs; loops: loopsStack; labels: how many labels were made,  *)
(* a new one being the next number; failed: errorExit was called.          *)
GeneratorStart ==
  [subs |-> << >>, open |-> << >>, loops |-> << >>, labels |-> 0, failed |-> FALSE]

Current(g) == g.open[Len(g.open)]
Emit(g, i) == [g EXCEPT !.subs[Current(g)].code = Append(@, i)]
NewLabels(g, n) == [g EXCEPT !.labels = @ + n]
AddLabel(g, l) == Emit(g, Label(l))

(* The visit of an expression yields the state and the slot of the value.  *)
Visited(g, index) == [g |-> g, index |-> index]

(* currentTempVariableAllocator *)
Sub(g) == g.subs[Current(g)]
FreshTemp(g) == NextTemp(Sub(g).context, Sub(g).temps)
AllocTemp(g) ==
  LET sub == Sub(g) IN
  [g EXCEPT !.subs[Current(g)].context = ContextWithTemp(sub.context, sub.temps, AnyType),
            !.subs[Current(g)].temps = Occupy(sub.temps, FreshTemp(g), TRUE)]
Release(g, t) == [g EXCEPT !.subs[Current(g)].temps = Occupy(@, t, FALSE)]
ReleaseIf(g, condition, t) == IF condition THEN Release(g, t) ELSE g

-----------------------------------------------------------------------------
(* Opcodes by operator and type *)

(* Broken: only the left operand decides. *)
IsDecimalOnTheLeft(e) == e.left.type.name = "decimal"

IsDecimalOp(e) == "decimal" \in {e.left.type.name, e.right.type.name}

(* The type of an arithmetic operation is compared by address: a decimal   *)
(* or a string of a generic function is neither.                           *)
OperandKind(type) ==
  CASE type = DecimalType -> "Decimal" [] type = StringType -> "String" [] OTHER -> "Int"

ArithmeticOpcodes ==
  [add |-> [Int |-> "ADD_INT", Decimal |-> "ADD_DECIMAL", String |-> "ADD_STRING"],
   sub |-> [Int |-> "SUB_INT", Decimal |-> "SUB_DECIMAL"],
   mul |-> [Int |-> "MUL_INT", Decimal |-> "MUL_DECIMAL"],
   div |-> [Int |-> "DIV_INT", Decimal |-> "DIV_DECIMAL"],
   mod |-> [Int |-> "MOD_INT", Decimal |-> "MOD_DECIMAL"]]
ComparisonOpcodes ==
  [eq |-> [Int |-> "CMP_EQ", Decimal |-> "CMP_EQ"],
   neq |-> [Int |-> "CMP_NEQ", Decimal |-> "CMP_NEQ"],
   gt |-> [Int |-> "CMP_GT_INT", Decimal |-> "CMP_GT_DECIMAL"],
   lt |-> [Int |-> "CMP_LT_INT", Decimal |-> "CMP_LT_DECIMAL"],
   gte |-> [Int |-> "CMP_GTE_INT", Decimal |-> "CMP_GTE_DECIMAL"],
   lte |-> [Int |-> "CMP_LTE_INT", Decimal |-> "CMP_LTE_DECIMAL"]]
OpcodeOf(e) ==
  IF e.op \in DOMAIN ArithmeticOpcodes THEN ArithmeticOpcodes[e.op][OperandKind(e.type)]
  ELSE ComparisonOpcodes[e.op][IF IsDecimalOp(e) THEN "Decimal" ELSE "Int"]

MoveLiteral(typeName, data, d) ==
  Instr([int |-> "MOV_INT", boolean |-> "MOV_BOOLEAN", decimal |-> "MOV_DECIMAL"][typeName],
        data, 0, d)

-----------------------------------------------------------------------------
(* Expressions.  preferred is where the value should go; where it is, the  *)
(* visit tells.  Nothing is generated after errorExit.                     *)

RECURSIVE VisitExpression(_, _, _), VisitFunction(_, _, _), VisitProgram(_, _),
          VisitStatement(_, _), VisitParams(_, _, _)

(* An identifier is its first overload, unless the type of another is      *)
(* given, NoType being none.                                               *)
IndexOf(e, overload) ==
  IF overload = NoType \/ e.overloads = << >> THEN e.index
  ELSE IndexOfOverload(e.overloads, overload)

(* A variable of this context needs no code: its slot is the value. *)
VisitAtom(g, e, preferred, overload) ==
  LET emit(i) == Visited(Emit(g, i), preferred) IN
  CASE e.kind = "identifier" /\ e.depth = 0 -> Visited(g, IndexOf(e, overload))
    [] e.kind = "identifier" /\ e.depth > 0 ->
         emit(Instr("GET_IN_PARENT", e.depth, IndexOf(e, overload), preferred))
    [] e.kind = "string" -> emit(Instr("MOV_STRING", e.data, 0, preferred))
    [] e.kind = "null" -> emit(Instr("MOV_NULL", 0, 0, preferred))
    [] e.kind = "function" -> Visited(VisitFunction(g, e.function, preferred), preferred)

VisitParams(g, params, temp) ==
  IF params = << >> THEN g
  ELSE LET v == VisitExpression(g, Head(params), temp) IN
       VisitParams(Emit(v.g, Instr("PUSH", v.index, 0, 0)), Tail(params), temp)

(* All parameters go through one temporary, which is free again when the   *)
(* callee is computed.                                                     *)
VisitFunctionCall(g, e, preferred) ==
  LET temp == FreshTemp(g)
      pushed == Release(VisitParams(AllocTemp(g), e.params, temp), temp)
      callee == IF e.left.kind = "identifier" THEN VisitAtom(pushed, e.left, preferred, e.callee)
                ELSE VisitExpression(pushed, e.left, preferred)
      call == Instr(IF e.callee.native THEN "CALL_NATIVE" ELSE "CALL",
                    callee.index, Len(e.params), preferred)
  IN  Visited(Emit(callee.g, call), preferred)

(* The value is computed straight into the variable's slot number, in this *)
(* context even if the variable is in a parent.                            *)
VisitAssignment(g, e, preferred) ==
  LET v == VisitExpression(g, e.right, e.left.index)
      stored == CASE e.left.depth > 0 ->
                       Emit(v.g, Instr("SET_IN_PARENT", e.left.depth, v.index, e.left.index))
                  [] e.left.depth = 0 /\ v.index # e.left.index ->
                       Emit(v.g, Instr("MOV", v.index, 0, e.left.index))
                  [] OTHER -> v.g
  IN  Visited(stored, preferred)

VisitAnd(g, e, preferred) ==
  LET false == g.labels + 1
      true == g.labels + 2
      end == g.labels + 3
      left == VisitExpression(NewLabels(g, 3), e.left, preferred)
      right == VisitExpression(Emit(left.g, Instr("JMP_FALSE", left.index, 0, false)),
                               e.right, preferred)
      setIf(h, condition, b) ==
        IF condition THEN Emit(h, Instr("MOV_BOOLEAN", b, 0, preferred)) ELSE h
      atFalse == AddLabel(Emit(right.g, Instr("JMP_TRUE", right.index, 0, true)), false)
      atTrue == AddLabel(Emit(setIf(atFalse, left.index # preferred, 0),
                              Instr("JMP", 0, 0, end)), true)
  IN  Visited(AddLabel(setIf(atTrue, right.index # preferred, 1), end), preferred)

VisitOr(g, e, preferred) ==
  LET end == g.labels + 1
      moved(v) == IF v.index # preferred THEN Emit(v.g, Instr("MOV", v.index, 0, preferred))
                  ELSE v.g
      left == VisitExpression(NewLabels(g, 1), e.left, preferred)
      right == VisitExpression(Emit(moved(left), Instr("JMP_TRUE", left.index, 0, end)),
                               e.right, preferred)
  IN  Visited(AddLabel(moved(right), end), preferred)

(* The operands go into two temporaries, an int operand of a decimal       *)
(* operation is converted into a third.  A temporary that holds an operand *)
(* is not released, and the test for the second one of a cast looks at the *)
(* first.                                                                  *)
VisitArithmetic(g, e, preferred) ==
  LET temp1 == FreshTemp(g)
      temp2 == FreshTemp(AllocTemp(g))
      tempDecimal == FreshTemp(AllocTemp(AllocTemp(g)))
      left == VisitExpression(AllocTemp(AllocTemp(AllocTemp(g))), e.left, temp1)
      right == VisitExpression(left.g, e.right, temp2)
      castLeft == IsDecimalOp(e) /\ e.left.type.name = "int"
      castRight == IsDecimalOp(e) /\ e.right.type.name = "int"
      index1 == IF castLeft THEN tempDecimal ELSE left.index
      index2 == IF castRight THEN tempDecimal ELSE right.index
      cast(h, index) == Emit(h, Instr("CAST_DECIMAL", index, 0, tempDecimal))
      g1 == IF castLeft THEN ReleaseIf(cast(right.g, left.index), left.index # temp1, temp1)
            ELSE right.g
      g2 == IF castRight THEN ReleaseIf(cast(g1, right.index), index1 # temp1, temp2)
            ELSE g1
      g3 == Emit(g2, Instr(OpcodeOf(e), index1, index2, preferred))
      g4 == ReleaseIf(ReleaseIf(g3, index1 # temp1, temp1), index2 # temp2, temp2)
  IN  Visited(Release(g4, tempDecimal), preferred)

VisitBinary(g, e, preferred) ==
  CASE e.op = "and" -> VisitAnd(g, e, preferred)
    [] e.op = "or" -> VisitOr(g, e, preferred)
    [] OTHER -> VisitArithmetic(g, e, preferred)

(* No code is generated for a negation of a boolean. *)
VisitPrefix(g, e, preferred) ==
  LET v == VisitExpression(g, e.right, preferred)
      opcode == IF e.type.name = "decimal" THEN "NEG_DECIMAL" ELSE "NEG_INT"
  IN  Visited(IF e.kind = "not" THEN v.g ELSE Emit(v.g, Instr(opcode, v.index, 0, preferred)),
              preferred)

VisitExpression(g, e, preferred) ==
  IF g.failed THEN Visited(g, preferred)
  ELSE CASE e.kind = "call" -> VisitFunctionCall(g, e, preferred)
         [] e.kind = "assign" -> VisitAssignment(g, e, preferred)
         [] e.kind = "binary" -> VisitBinary(g, e, preferred)
         [] e.kind \in {"negate", "not"} -> VisitPrefix(g, e, preferred)
         [] OTHER -> VisitAtom(g, e, preferred, NoType)

-----------------------------------------------------------------------------
(* Functions *)

(* Broken: the function around a function stays a leaf. *)
OnFunctionEnterLeaf(g, f, label) ==
  LET sub == [code |-> <<Label(label)>>, context |-> f.context, leaf |-> TRUE,
              temps |-> NoTemps]
  IN  [g EXCEPT !.subs = Append(@, sub), !.open = Append(@, Len(g.subs) + 1)]

OnFunctionEnter(g, f, label) ==
  LET sub == [code |-> <<Label(label)>>, context |-> f.context, leaf |-> TRUE,
              temps |-> NoTemps]
      subs == IF g.open = << >> THEN g.subs
              ELSE [g.subs EXCEPT ![Current(g)].leaf = FALSE]
  IN  [g EXCEPT !.subs = Append(subs, sub), !.open = Append(@, Len(g.subs) + 1)]

SlotOf(f, name) == FirstOverload(f.context, name).index

GenerateImmediates(g, f) ==
  FoldLeft(LAMBDA h, l : Emit(h, MoveLiteral(l.typeName, l.data,
                                             SlotOf(f, ImmediateName(l.typeName, l.data)))),
           g, f.context.immediates)

ReadArguments(g, f) ==
  LET n == Len(f.arguments) IN
  FoldLeft(LAMBDA h, k : Emit(h, Instr("ARG_READ", n - k, 0,
                                       SlotOf(f, SourceName(f.arguments[k])))),
           g, [k \in 1 .. n |-> k])

(* FN_ENTER goes behind the entry label once the size of the context, with *)
(* its temporaries, and whether the function is a leaf are known; RET ends *)
(* every function.                                                         *)
Finished(sub) ==
  LET enter == Instr(IF sub.leaf THEN "FN_ENTER_STACK" ELSE "FN_ENTER_HEAP",
                     PropertyCount(sub.context), 0, 0)
  IN  [sub EXCEPT !.code = <<Head(@), enter>> \o Tail(@) \o <<Instr("RET", 0, 0, 0)>>]

VisitFunction(g, f, preferred) ==
  LET label == g.labels + 1
      numbered == NewLabels(g, 1)
      known == IF g.open = << >> THEN numbered
               ELSE Emit(numbered, Instr("MOV_FNC", label, 0, preferred))
      entered == OnFunctionEnter(known, f, label)
      body == VisitProgram(ReadArguments(GenerateImmediates(entered, f), f), f.block)
  IN  [body EXCEPT !.subs[Current(body)] = Finished(@), !.open = Front(@)]

-----------------------------------------------------------------------------
(* Statements *)

VisitReturn(g, st) ==
  LET temp == FreshTemp(g)
      v == VisitExpression(AllocTemp(g), st.expression, temp)
  IN  IF IsNothing(st.expression) THEN Emit(g, Instr("RET", 0, 0, 0))
      ELSE Emit(ReleaseIf(v.g, v.index # temp, temp), Instr("RET", 0, 0, v.index))

(* A cast leaves the slot of the value as it was, so a cast of a variable  *)
(* is followed by a MOV of that variable.                                  *)
VisitVariable(g, st) ==
  LET v == VisitExpression(g, st.expression, st.index)
      isCast == st.expression.type = IntType /\ st.type = DecimalType
      cast == IF isCast THEN Emit(v.g, Instr("CAST_DECIMAL", v.index, 0, st.index)) ELSE v.g
  IN  CASE IsNothing(st.expression) /\ Numeric(st.type) ->
             Emit(g, MoveLiteral(st.type.name, 0, st.index))
        [] IsNothing(st.expression) /\ ~Numeric(st.type) ->
             Emit(g, Instr("MOV_NULL", 0, 0, st.index))
        [] OTHER -> IF v.index # st.index THEN Emit(cast, Instr("MOV", v.index, 0, st.index))
                    ELSE cast

VisitIfStatement(g, st) ==
  LET false == g.labels + 1
      end == g.labels + 2
      temp == FreshTemp(g)
      v == VisitExpression(AllocTemp(NewLabels(g, 2)), st.expression, temp)
      tested == Release(Emit(v.g, Instr("JMP_FALSE", v.index, 0, false)), temp)
      then == VisitProgram(tested, st.then)
      atFalse == AddLabel(IF st.hasElse THEN Emit(then, Instr("JMP", 0, 0, end)) ELSE then,
                          false)
  IN  AddLabel(IF st.hasElse THEN VisitProgram(atFalse, st.else) ELSE atFalse, end)

(* Broken: a loop that was left stays on loopsStack. *)
LoopLeftOpen(g) == g
LeaveLoop(g) == [g EXCEPT !.loops = Front(@)]

(* A loop without a condition tests slot 0. *)
VisitLoop(g, st) ==
  LET body == g.labels + 1
      iteration == g.labels + 2
      condition == g.labels + 3
      end == g.labels + 4
      tempCondition == FreshTemp(g)
      tempIteration == FreshTemp(AllocTemp(g))
      inLoop == [AllocTemp(AllocTemp(NewLabels(g, 4))) EXCEPT
                   !.loops = Append(@, [end |-> end, iteration |-> iteration])]
      started == IF IsNothing(st.variable) THEN inLoop ELSE VisitVariable(inLoop, st.variable)
      atBody == AddLabel(Emit(started, Instr("JMP", 0, 0, condition)), body)
      atIteration == AddLabel(VisitProgram(atBody, st.block), iteration)
      iterated == IF IsNothing(st.iteration) THEN atIteration
                  ELSE VisitExpression(atIteration, st.iteration, tempIteration).g
      atCondition == AddLabel(iterated, condition)
      test == IF IsNothing(st.expression) THEN Visited(atCondition, 0)
              ELSE VisitExpression(atCondition, st.expression, tempCondition)
      atEnd == AddLabel(Emit(test.g, Instr("JMP_TRUE", test.index, 0, body)), end)
  IN  Release(Release(LeaveLoop(atEnd), tempCondition), tempIteration)

(* break and continue go to labels of the last loop on loopsStack. *)
VisitJumpOut(g, st) ==
  IF g.loops = << >> THEN [g EXCEPT !.failed = TRUE]
  ELSE LET loop == g.loops[Len(g.loops)] IN
       Emit(g, Instr("JMP", 0, 0, IF st.kind = "break" THEN loop.end ELSE loop.iteration))

VisitStatement(g, st) ==
  LET temp == FreshTemp(g)
      h == AllocTemp(g)
      done == CASE st.kind = "expression" -> VisitExpression(h, st.expression, temp).g
                [] st.kind = "return" -> VisitReturn(h, st)
                [] st.kind = "if" -> VisitIfStatement(h, st)
                [] st.kind = "loop" -> VisitLoop(h, st)
                [] st.kind \in {"break", "continue"} -> VisitJumpOut(h, st)
                [] st.kind = "variable" -> VisitVariable(h, st)
                [] st.kind = "function" -> h
  IN  IF g.failed THEN g ELSE Release(done, temp)

RECURSIVE VisitNamedFunctions(_, _), VisitStatements(_, _)
VisitNamedFunctions(g, functions) ==
  IF g.failed \/ functions = << >> THEN g
  ELSE VisitNamedFunctions(VisitFunction(g, Head(functions).function, Head(functions).index),
                           Tail(functions))
VisitStatements(g, block) ==
  IF g.failed \/ block = << >> THEN g
  ELSE VisitStatements(VisitStatement(g, Head(block)), Tail(block))

VisitProgram(g, block) ==
  VisitStatements(
    VisitNamedFunctions(g, SelectSeq(block, LAMBDA st : st.kind = "function")), block)

-----------------------------------------------------------------------------
(* The root is a function nobody refers to; the code is that of all        *)
(* functions, in the order in which they were entered.                     *)

Generated(root) == VisitFunction(GeneratorStart, root, 0)
CodeOf(g) == Merge([k \in DOMAIN g.subs |-> g.subs[k].code])
DoGenerateCode(root) == CodeOf(Generated(root))

=============================================================================
