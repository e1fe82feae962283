---------------------------- MODULE TypeExtractor ----------------------------
(***************************************************************************)
(* The type extractor (src/compiler/type/extractor/type_extractor.cpp):    *)
(* one operator per visit function, from a syntax tree with names to one   *)
(* in which every expression has a type and every name a depth and a slot, *)
(* or the decision that the program is refused.                            *)
(*                                                                         *)
(* The tree that results has the kinds of SyntaxTree, except that literals *)
(* have become identifiers; overloads is propertyInfo, empty where that is *)
(* null.                                                                   *)
(* The operators are recursive: only runs of TLC use this module.          *)
(***************************************************************************)
EXTENDS TypeModel, SyntaxTree
INSTANCE TypeContext WITH TextOf <- Text

-----------------------------------------------------------------------------
(* State of the extractor.  contexts: contextChain, the current one last;  *)
(* functions: types of the functions on functionsStack; verdict: "refused" *)
(* after errorExit or an exception, "undefined" after undefined behaviour. *)

ExtractorStart == [contexts |-> << >>, functions |-> << >>, verdict |-> "accepted"]

Stopped(x) == x.verdict # "accepted"
Refused(x) == IF Stopped(x) THEN x ELSE [x EXCEPT !.verdict = "refused"]
RefusedUnless(condition, x) == IF condition THEN x ELSE Refused(x)

Context(x) == Last(x.contexts)
WithContext(x, c) == [x EXCEPT !.contexts = Append(Front(@), c)]
Chain(x) == [d \in DOMAIN x.contexts |-> x.contexts[d].typeArguments]

DescribedType(x, ast) == TypeOrError(Chain(x), ast, << >>)

(* The visit of an expression yields the state and the expression with its *)
(* type; nothing is visited after the end of the compiler.                 *)
Seen(x, e) == [x |-> x, e |-> e]
Typed(e, type) == [type |-> type, overloads |-> << >>] @@ e
Unknown == Typed(Nothing, NoType)
NeverSeen(x) == Seen(Refused(x), Unknown)

(* addProperty, which may throw *)
Add(x, name, type, overloadable) ==
  IF Refuses(Context(x), name, type, overloadable) THEN Refused(x)
  ELSE WithContext(x, AddProperty(Context(x), name, type, overloadable))

-----------------------------------------------------------------------------
(* Expressions *)

RECURSIVE VisitExpression(_, _), VisitAll(_, _, _), VisitFunction(_, _), VisitProgram(_, _)

(* A literal becomes a property of the current context. *)
ConvertImmediate(x, e) ==
  LET type == Simple(e.type)
      added == WithContext(x, AddImmediate(Context(x), type, e.type, e.data))
      slot == FirstOverload(Context(added), ImmediateName(e.type, e.data)).index
  IN  Seen(added, Typed([kind |-> "identifier", depth |-> 0, index |-> slot], type))

(* Broken: the outermost context with a property of the name. *)
VisitIdentifierOutermost(x, e) ==
  LET name == SourceName(e.name)
      knowing == {d \in DOMAIN x.contexts : Knows(x.contexts[d], name)}
      overloads == Overloads(x.contexts[Min(knowing)], name)
  IN  IF knowing = {} THEN NeverSeen(x)
      ELSE Seen(x, [kind |-> "identifier", depth |-> Len(x.contexts) - Min(knowing),
                    index |-> overloads[1].index, type |-> overloads[1].type,
                    overloads |-> overloads])

(* The innermost context with a property of the name, and the first        *)
(* overload of it.                                                         *)
VisitIdentifier(x, e) ==
  LET name == SourceName(e.name)
      knowing == {d \in DOMAIN x.contexts : Knows(x.contexts[d], name)}
      overloads == Overloads(x.contexts[Max(knowing)], name)
  IN  IF knowing = {} THEN NeverSeen(x)
      ELSE Seen(x, [kind |-> "identifier", depth |-> Len(x.contexts) - Max(knowing),
                    index |-> overloads[1].index, type |-> overloads[1].type,
                    overloads |-> overloads])

VisitAtom(x, e) ==
  CASE e.kind = "literal" -> ConvertImmediate(x, e)
    [] e.kind = "identifier" -> VisitIdentifier(x, e)
    [] e.kind = "string" -> Seen(x, Typed(e, StringType))
    [] e.kind = "null" -> Seen(x, Typed(e, NullType))
    [] e.kind = "function" ->
         LET v == VisitFunction(x, e.function)
         IN  Seen(v.x, Typed([e EXCEPT !.function = v.f], v.f.type))

IsOverloaded(e) == Len(e.overloads) > 1

(* The value of an assignment is said to be of type Void, and only types   *)
(* of one name have it.                                                    *)
VisitAssign(x, e) ==
  LET left == VisitExpression(x, e.left)
      right == VisitExpression(left.x, e.right)
      type == ReturnType("assign", left.e.type, right.e.type)
      accepted == /\ left.e.kind = "identifier" /\ e.left.kind = "identifier"
                  /\ ~IsOverloaded(left.e) /\ ~IsOverloaded(right.e)
                  /\ IsAssignableFrom(left.e.type, right.e.type)
                  /\ type # NoType
  IN  Seen(RefusedUnless(accepted, right.x),
           Typed([e EXCEPT !.left = left.e, !.right = right.e], type))

VisitBinary(x, e) ==
  LET left == VisitExpression(x, e.left)
      right == VisitExpression(left.x, e.right)
      type == ReturnType(e.op, left.e.type, right.e.type)
  IN  Seen(RefusedUnless(type # NoType, right.x),
           Typed([e EXCEPT !.left = left.e, !.right = right.e], type))

VisitPrefix(x, e) ==
  LET right == VisitExpression(x, e.right)
      type == ReturnTypeOfPrefix(e.kind, right.e.type)
  IN  Seen(RefusedUnless(type # NoType, right.x), Typed([e EXCEPT !.right = right.e], type))

(* No value has properties: those of a context are in no type a program    *)
(* can name.  But an operand on the right that is no atom is read as if it *)
(* were one.                                                               *)
Atoms == {"literal", "identifier", "string", "null", "function"}
VisitDot(x, e) ==
  LET left == VisitExpression(x, e.left)
  IN  IF Stopped(left.x) \/ e.right.kind \in Atoms THEN NeverSeen(left.x)
      ELSE Seen([left.x EXCEPT !.verdict = "undefined"], Unknown)

(* callee is preferredCalleeOverload *)
VisitFunctionCall(x, e) ==
  LET explicit == [k \in DOMAIN e.typeParams |-> DescribedType(x, e.typeParams[k])]
      left == VisitExpression(RefusedUnless(NoType \notin Range(explicit), x), e.left)
      all == VisitAll(left.x, e.params, << >>)
      given == [k \in DOMAIN all.es |-> all.es[k].type]
      types == [k \in DOMAIN left.e.overloads |-> left.e.overloads[k].type]
      callee == OverloadToCall(left.e.type, types, explicit, given)
      safely == ResolvesSafely(Last(callee.arguments), PassedTypes(callee, explicit, given))
      result == CallResult(callee, explicit, given)
  IN  CASE Stopped(all.x) -> Seen(all.x, Unknown)
        [] ~Stopped(all.x) /\ ~CallIsAccepted(callee, explicit, given) -> NeverSeen(all.x)
        [] OTHER -> IF safely THEN Seen(all.x, Typed([kind |-> "call", left |-> left.e,
                                                      params |-> all.es, callee |-> callee],
                                                     result))
                    ELSE Seen([all.x EXCEPT !.verdict = "undefined"], Unknown)

VisitExpression(x, e) ==
  IF Stopped(x) THEN Seen(x, Unknown)
  ELSE CASE e.kind = "call" -> VisitFunctionCall(x, e)
         [] e.kind = "assign" -> VisitAssign(x, e)
         [] e.kind = "binary" -> VisitBinary(x, e)
         [] e.kind = "dot" -> VisitDot(x, e)
         [] e.kind \in {"negate", "not"} -> VisitPrefix(x, e)
         [] OTHER -> VisitAtom(x, e)

VisitAll(x, params, es) ==
  IF Stopped(x) \/ params = << >> THEN [x |-> x, es |-> es]
  ELSE LET v == VisitExpression(x, Head(params))
       IN  VisitAll(v.x, Tail(params), Append(es, v.e))

(* An expression there may be none of. *)
VisitOptional(x, e) == IF IsNothing(e) THEN Seen(x, e) ELSE VisitExpression(x, e)

-----------------------------------------------------------------------------
(* Statements.  The visit of one yields the state and the statement.       *)

(* The variable is added behind its initial value, so that it may not be   *)
(* named there, and the literals of the value have slots before it.        *)
VisitVariable(x, st) ==
  LET expected == DescribedType(x, st.declared)
      v == VisitOptional(RefusedUnless(expected # NoType, x), st.expression)
      initial == IF IsNothing(st.expression) THEN expected ELSE v.e.type
      type == IF st.explicit THEN expected ELSE initial
      fits == IsNothing(st.expression) \/ ~st.explicit \/ IsAssignableFrom(expected, initial)
      name == SourceName(st.name)
      added == Add(v.x, name, type, FALSE)
  IN  IF Stopped(v.x) \/ ~fits THEN Seen(Refused(v.x), st)
      ELSE Seen(added, [kind |-> "variable", type |-> type, expression |-> v.e,
                        index |-> IndexAdded(Context(v.x), name, FALSE)])

(* Outside of a function a return is refused unseen. *)
VisitReturn(x, st) ==
  LET v == VisitOptional(RefusedUnless(x.functions # << >>, x), st.expression)
      type == IF IsNothing(st.expression) THEN VoidType ELSE v.e.type
      accepted == \/ Stopped(v.x)
                  \/ IsAssignableFrom(Last(Last(x.functions).arguments), type)
  IN  Seen(RefusedUnless(accepted, v.x), [st EXCEPT !.expression = v.e])

(* What an if tests may be of any type. *)
VisitIfStatement(x, st) ==
  LET v == VisitExpression(x, st.expression)
      then == VisitProgram(v.x, st.then)
      else == VisitProgram(then.x, st.else)
  IN  Seen(else.x, [st EXCEPT !.expression = v.e, !.then = then.block, !.else = else.block])

VisitLoop(x, st) ==
  LET variable == IF IsNothing(st.variable) THEN Seen(x, st.variable)
                  ELSE VisitVariable(x, st.variable)
      condition == VisitOptional(variable.x, st.expression)
      boolean == IsNothing(st.expression) \/ condition.e.type.name = "boolean"
      iteration == VisitOptional(RefusedUnless(boolean, condition.x), st.iteration)
      body == VisitProgram(iteration.x, st.block)
  IN  Seen(body.x, [st EXCEPT !.variable = variable.e, !.expression = condition.e,
                              !.iteration = iteration.e, !.block = body.block])

VisitStatement(x, st) ==
  CASE st.kind = "expression" ->
         LET v == VisitExpression(x, st.expression)
         IN  Seen(v.x, [st EXCEPT !.expression = v.e])
    [] st.kind = "return" -> VisitReturn(x, st)
    [] st.kind = "if" -> VisitIfStatement(x, st)
    [] st.kind = "loop" -> VisitLoop(x, st)
    [] st.kind = "variable" -> VisitVariable(x, st)
    [] st.kind = "function" ->
         LET v == VisitFunction(x, st.function)
         IN  Seen(v.x, [st EXCEPT !.function = v.f])
    [] st.kind \in {"break", "continue"} -> Seen(x, st)

(* The named functions of a block have their slots before anything in it,  *)
(* and may be overloaded.                                                  *)
VisitNamedFunctions(x, block) ==
  LET register(seen, st) ==
        LET type == FunctionTypeOf(Chain(seen.x), st.function)
            name == SourceName(st.name)
            index == IndexAdded(Context(seen.x), name, TRUE)
        IN  CASE Stopped(seen.x) -> seen
              [] ~Stopped(seen.x) /\ st.kind # "function" -> [seen EXCEPT !.block = Append(@, st)]
              [] OTHER -> IF type = NoType THEN [seen EXCEPT !.x = Refused(@)]
                          ELSE [x |-> Add(seen.x, name, type, TRUE),
                                block |-> Append(seen.block, [index |-> index] @@ st)]
  IN  FoldLeft(register, [x |-> x, block |-> << >>], block)

VisitStatements(x, block) ==
  FoldLeft(LAMBDA seen, st :
             IF Stopped(seen.x) THEN seen
             ELSE LET v == VisitStatement(seen.x, st)
                  IN  [x |-> v.x, block |-> Append(seen.block, v.e)],
           [x |-> x, block |-> << >>], block)

VisitProgram(x, block) ==
  LET named == VisitNamedFunctions(x, block) IN VisitStatements(named.x, named.block)

-----------------------------------------------------------------------------
(* Functions.  The visit of one yields the state and the function, with    *)
(* the context that ByteCodeGenerator numbers its temporaries in.          *)

NewContext == AddProperty(EmptyContext, ParentName, AnyType, FALSE)

AddTypeArguments(x, f) ==
  FoldLeft(LAMBDA y, argument :
             LET boundary == DescribedType(y, argument.ast)
                 own == [ident |-> argument.ident,
                         type |-> TypeParameter(argument.ident, boundary)]
             IN  IF boundary = NoType THEN Refused(y)
                 ELSE WithContext(y, [Context(y) EXCEPT !.typeArguments = Append(@, own)]),
           x, f.typeArguments)

AddArguments(x, f) ==
  FoldLeft(LAMBDA y, argument :
             IF Stopped(y) THEN y
             ELSE Add(y, SourceName(argument.ident), DescribedType(y, argument.ast), FALSE),
           x, f.arguments)

VisitFunction(x, f) ==
  LET type == FunctionTypeOf(Chain(x), f)
      entered == [x EXCEPT !.contexts = Append(@, NewContext), !.functions = Append(@, type)]
      body == VisitProgram(AddArguments(AddTypeArguments(entered, f), f), f.block)
      left == [body.x EXCEPT !.contexts = Front(@), !.functions = Front(@)]
  IN  IF type = NoType THEN [x |-> Refused(x), f |-> Typed(f, NoType)]
      ELSE [x |-> left,
            f |-> [type |-> type, context |-> Context(body.x), block |-> body.block,
                   arguments |-> [k \in DOMAIN f.arguments |-> f.arguments[k].ident]]]

-----------------------------------------------------------------------------

(* The only property the program finds there is the native print. *)
PrintType == FunctionType(<< >>, <<AnyType, VoidType>>, TRUE)
GlobalContext == AddProperty(NewContext, SourceName("print"), PrintType, FALSE)

(* A program is a block.  The root is a function without arguments. *)
ExtractAndRegister(block) ==
  LET seen == VisitProgram([ExtractorStart EXCEPT !.contexts = <<GlobalContext>>], block)
  IN  [verdict |-> seen.x.verdict,
       root |-> [context |-> Context(seen.x), arguments |-> << >>, block |-> seen.block]]

=============================================================================
