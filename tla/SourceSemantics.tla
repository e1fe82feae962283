--------------------------- MODULE SourceSemantics ---------------------------
(***************************************************************************)
(* What a syntax tree means, said without types, slots, temporaries,       *)
(* labels, a stack or an order of instructions: the reference the compiled *)
(* program is compared with.  Operands and parameters are evaluated from   *)
(* left to right, the right operand of && and || only when the left one    *)
(* does not decide, an assignment is an expression, an int becomes a       *)
(* decimal where it meets one or where a decimal is declared, a call runs  *)
(* the overload that its parameters suit, a function sees the variables of *)
(* the functions around it.                                                *)
(*                                                                         *)
(* A memory has the frames made so far and what was printed.  A frame has  *)
(* the number of the frame of the function around it (0 for the root) and  *)
(* the values of its variables by name.                                    *)
(***************************************************************************)
EXTENDS ZValue, SyntaxTree, SequencesExt

Result(m, v) == [m |-> m, v |-> v]

(* After a statement control goes to the next one, or out of the loop or   *)
(* function with a value.                                                  *)
Outcome(m, goes, v) == [m |-> m, goes |-> goes, v |-> v]
Onward(m) == Outcome(m, "on", nvalue)

(* A name of functions denotes all of them, in the frame they are in. *)
Closure(functions, f) == <<"closure", functions, f>>
NativePrint == <<"native", << >>, 0>>

LiteralValue(type, data) ==
  CASE type = "int" -> ivalue(data)
    [] type = "boolean" -> bvalue(data = 1)
    [] type = "decimal" -> dvalue(data)

DefaultValue(ast) ==
  IF ast.name \in {"int", "decimal"} THEN LiteralValue(ast.name, 0) ELSE nvalue

Converted(v, ast) ==
  IF ast.name = "decimal" /\ v[1] = "int" THEN dvalue(v[2] * DecimalUnit) ELSE v

-----------------------------------------------------------------------------
(* Memory *)

RECURSIVE FrameOf(_, _, _)
FrameOf(m, f, name) ==
  IF name \in DOMAIN m.frames[f].variables THEN f ELSE FrameOf(m, m.frames[f].around, name)

ValueOf(m, f, name) == m.frames[FrameOf(m, f, name)].variables[name]
Bind(m, f, name, v) == [m EXCEPT !.frames[f].variables = (name :> v) @@ @]
NewFrame(m, around, variables) ==
  [m EXCEPT !.frames = Append(@, [around |-> around, variables |-> variables])]

ShownValue(v) == IF v[1] = "closure" THEN <<"fnref", 0>> ELSE v

-----------------------------------------------------------------------------
(* Operations *)

Number(v) == IF v[1] = "int" THEN v[2] * DecimalUnit ELSE v[2]

IntOperator(operator, x, y) ==
  CASE operator = "add" -> x + y
    [] operator = "sub" -> x - y
    [] operator = "mul" -> x * y
    [] operator = "mod" -> Remainder(x, y)
    [] operator = "div" -> Quotient(x, y)
DecimalOperator(operator, x, y) ==
  CASE operator = "add" -> x + y
    [] operator = "sub" -> x - y
    [] operator = "mul" -> (x * y) \div DecimalUnit
    [] operator = "div" -> Quotient(x * DecimalUnit, y)
Compared(operator, x, y) ==
  CASE operator = "eq" -> x = y
    [] operator = "neq" -> x # y
    [] operator = "lt" -> x < y
    [] operator = "lte" -> x <= y
    [] operator = "gt" -> x > y
    [] operator = "gte" -> x >= y

Operate(operator, v1, v2) ==
  CASE operator \in {"eq", "neq", "lt", "lte", "gt", "gte"} ->
         bvalue(Compared(operator, Number(v1), Number(v2)))
    [] operator = "add" /\ v1[1] = "str" -> svalue(v1[2] \o v2[2])
    [] OTHER -> IF {v1[1], v2[1]} = {"int"} THEN ivalue(IntOperator(operator, v1[2], v2[2]))
                ELSE dvalue(DecimalOperator(operator, Number(v1), Number(v2)))

-----------------------------------------------------------------------------
(* Overloads *)

Suits(v, ast) ==
  CASE ast.name = "int" -> v[1] = "int"
    [] ast.name = "decimal" -> v[1] \in {"int", "dec"}
    [] ast.name = "boolean" -> v[1] \in {"bool", "null"}
    [] ast.name = "String" -> v[1] \in {"str", "null"}
    [] ast.name = "fun" -> v[1] \in {"closure", "native", "null"}
    [] OTHER -> TRUE

(* A type parameter stands for what bounds it. *)
Bounding(function, ast) ==
  LET own == SelectSeq(function.typeArguments, LAMBDA t : t.ident = ast.name)
  IN  IF own = << >> THEN ast ELSE own[1].ast

Suited(function, typeParams, values) ==
  /\ Len(function.arguments) = Len(values)
  /\ typeParams # << >> => Len(typeParams) = Len(function.typeArguments)
  /\ \A k \in DOMAIN values : Suits(values[k], Bounding(function, function.arguments[k].ast))

Called(functions, typeParams, values) ==
  IF Len(functions) = 1 THEN functions[1]
  ELSE CHOOSE function \in Range(functions) : Suited(function, typeParams, values)

-----------------------------------------------------------------------------
(* Evaluation in frame f *)

RECURSIVE Evaluate(_, _, _), EvaluateAll(_, _, _, _), Execute(_, _, _), Repeat(_, _, _, _)

EvaluateCall(m, f, e) ==
  LET given == EvaluateAll(m, f, e.params, << >>)
      callee == Evaluate(given.m, f, e.left)
      function == Called(callee.v[2], e.typeParams, given.v)
      bound == [name \in {function.arguments[k].ident : k \in DOMAIN function.arguments} |->
                  LET k == CHOOSE k \in DOMAIN function.arguments :
                             function.arguments[k].ident = name
                  IN  Converted(given.v[k], function.arguments[k].ast)]
      entered == NewFrame(callee.m, callee.v[3], bound)
      done == Execute(entered, Len(entered.frames), function.block)
  IN  IF callee.v = NativePrint
        THEN Result([callee.m EXCEPT !.printed = Append(@, ShownValue(given.v[1]))], nvalue)
      ELSE Result(done.m, Converted(done.v, function.returns))

EvaluateBinary(m, f, e) ==
  LET left == Evaluate(m, f, e.left)
      right == Evaluate(left.m, f, e.right)
      decides == left.v = bvalue(e.op = "or")
  IN  IF e.op \in {"and", "or"} THEN IF decides THEN left ELSE right
      ELSE Result(right.m, Operate(e.op, left.v, right.v))

EvaluateAssignment(m, f, e) ==
  LET right == Evaluate(m, f, e.right)
  IN  Result(Bind(right.m, FrameOf(m, f, e.left.name), e.left.name, right.v), right.v)

EvaluatePrefix(m, f, e) ==
  LET right == Evaluate(m, f, e.right)
  IN  Result(right.m, CASE e.kind = "not" -> bvalue(right.v = bvalue(FALSE))
                        [] e.kind = "negate" /\ right.v[1] = "int" -> ivalue(-right.v[2])
                        [] e.kind = "negate" /\ right.v[1] = "dec" -> dvalue(-right.v[2]))

Evaluate(m, f, e) ==
  CASE e.kind = "identifier" -> Result(m, ValueOf(m, f, e.name))
    [] e.kind = "literal" -> Result(m, LiteralValue(e.type, e.data))
    [] e.kind = "string" -> Result(m, svalue(e.data))
    [] e.kind = "null" -> Result(m, nvalue)
    [] e.kind = "function" -> Result(m, Closure(<<e.function>>, f))
    [] e.kind \in {"negate", "not"} -> EvaluatePrefix(m, f, e)
    [] e.kind = "binary" -> EvaluateBinary(m, f, e)
    [] e.kind = "assign" -> EvaluateAssignment(m, f, e)
    [] e.kind = "call" -> EvaluateCall(m, f, e)

EvaluateAll(m, f, params, values) ==
  IF params = << >> THEN Result(m, values)
  ELSE LET first == Evaluate(m, f, Head(params))
       IN  EvaluateAll(first.m, f, Tail(params), Append(values, first.v))

-----------------------------------------------------------------------------
(* Statements in frame f *)

DeclareVariable(m, f, st) ==
  LET initial == Evaluate(m, f, st.expression)
  IN  CASE IsNothing(st) -> m
        [] ~IsNothing(st) /\ IsNothing(st.expression) ->
             Bind(m, f, st.name, DefaultValue(st.declared))
        [] OTHER -> Bind(initial.m, f, st.name, Converted(initial.v, st.declared))

ExecuteOne(m, f, st) ==
  CASE st.kind = "expression" -> Onward(Evaluate(m, f, st.expression).m)
    [] st.kind = "variable" -> Onward(DeclareVariable(m, f, st))
    [] st.kind = "function" -> Onward(m)
    [] st.kind = "return" ->
         IF IsNothing(st.expression) THEN Outcome(m, "return", nvalue)
         ELSE LET returned == Evaluate(m, f, st.expression)
              IN  Outcome(returned.m, "return", returned.v)
    [] st.kind = "if" ->
         LET test == Evaluate(m, f, st.expression)
         IN  Execute(test.m, f, IF test.v = bvalue(TRUE) THEN st.then ELSE st.else)
    [] st.kind = "loop" -> Repeat(DeclareVariable(m, f, st.variable), f, st, FALSE)
    [] st.kind \in {"break", "continue"} -> Outcome(m, st.kind, nvalue)

(* A loop, at its condition or, after a round, at its iteration. *)
Repeat(m, f, loop, again) ==
  LET iterated == IF again /\ ~IsNothing(loop.iteration) THEN Evaluate(m, f, loop.iteration).m
                  ELSE m
      test == IF IsNothing(loop.expression) THEN Result(iterated, bvalue(TRUE))
              ELSE Evaluate(iterated, f, loop.expression)
      round == Execute(test.m, f, loop.block)
  IN  CASE test.v # bvalue(TRUE) -> Onward(test.m)
        [] test.v = bvalue(TRUE) /\ round.goes \in {"on", "continue"} ->
             Repeat(round.m, f, loop, TRUE)
        [] test.v = bvalue(TRUE) /\ round.goes = "break" -> Onward(round.m)
        [] test.v = bvalue(TRUE) /\ round.goes = "return" -> round

RECURSIVE ExecuteFrom(_, _, _)
ExecuteFrom(m, f, block) ==
  IF block = << >> THEN Onward(m)
  ELSE LET first == ExecuteOne(m, f, Head(block))
       IN  IF first.goes = "on" THEN ExecuteFrom(first.m, f, Tail(block)) ELSE first

(* The named functions of a block are known from its beginning, together   *)
(* with those of the same name the function knows already.                 *)
KnownFunctions(m, f, name) ==
  IF name \in DOMAIN m.frames[f].variables THEN m.frames[f].variables[name][2] ELSE << >>

Execute(m, f, block) ==
  LET named == SelectSeq(block, LAMBDA st : st.kind = "function")
      define(before, st) ==
        LET functions == KnownFunctions(before, f, st.name) IN
        IF st.function \in Range(functions) THEN before
        ELSE Bind(before, f, st.name, Closure(Append(functions, st.function), f))
  IN  ExecuteFrom(FoldLeft(define, m, named), f, block)

(* What a program prints. *)
Meaning(block) ==
  LET started == NewFrame([frames |-> << >>, printed |-> << >>], 0, "print" :> NativePrint)
  IN  Execute(started, 1, block).m.printed

=============================================================================
