------------------------------ MODULE SyntaxTree ------------------------------
(***************************************************************************)
(* Syntax trees as the builders of src/compiler/ast make them from what    *)
(* the parser found.  A tree has names, not slots, and descriptors of      *)
(* types, not types.                                                       *)
(*                                                                         *)
(* An expression has a kind and                                            *)
(*   identifier: name             literal: type (a name), data             *)
(*   string: data                 null                                     *)
(*   function: function           binary: op, left, right                  *)
(*   assign, dot: left, right     negate, not: right                       *)
(*   call: left, typeParams, params                                        *)
(* A program is a block, a sequence of statements.  What is absent is      *)
(* Nothing.                                                                *)
(***************************************************************************)
EXTENDS Naturals, Sequences

Nothing == [kind |-> "nothing"]
IsNothing(node) == node.kind = "nothing"

-----------------------------------------------------------------------------
(* Descriptors of types *)

Described(name) == [name |-> name, parameters |-> << >>]
FunOf(asts) == [name |-> "fun", parameters |-> asts]

AnInt == Described("int")
ADecimal == Described("decimal")
ABoolean == Described("boolean")
AString == Described("String")
Anything == Described("Any")
Nil == Described("Void")

-----------------------------------------------------------------------------
(* Expressions *)

Var(name) == [kind |-> "identifier", name |-> name]
Literal(type, data) == [kind |-> "literal", type |-> type, data |-> data]
IntLiteral(n) == Literal("int", n)
DecimalLiteral(x) == Literal("decimal", x)
BooleanLiteral(b) == Literal("boolean", b)
StringLiteral(s) == [kind |-> "string", data |-> <<s>>]
NullLiteral == [kind |-> "null"]
Lambda(f) == [kind |-> "function", function |-> f]

Operation(op, left, right) == [kind |-> "binary", op |-> op, left |-> left, right |-> right]
Assigned(name, e) == [kind |-> "assign", left |-> Var(name), right |-> e]
Negated(e) == [kind |-> "negate", right |-> e]
Not(e) == [kind |-> "not", right |-> e]
Member(e, right) == [kind |-> "dot", left |-> e, right |-> right]

CallingWith(typeParams, callee, params) ==
  [kind |-> "call", left |-> callee, typeParams |-> typeParams, params |-> params]
Calling(callee, params) == CallingWith(<< >>, callee, params)
CallOf(name, params) == Calling(Var(name), params)

-----------------------------------------------------------------------------
(* Functions: what has no type is of type Any, and returns Void. *)

Argument(ident, ast) == [ident |-> ident, ast |-> ast]
Untyped(ident) == Argument(ident, Anything)
IntArgument(ident) == Argument(ident, AnInt)

GenericFunction(typeArguments, arguments, result, block) ==
  [typeArguments |-> typeArguments, arguments |-> arguments, returns |-> result,
   block |-> block]
Function(arguments, result, block) == GenericFunction(<< >>, arguments, result, block)
Procedure(arguments, block) == Function(arguments, Nil, block)

-----------------------------------------------------------------------------
(* Statements *)

Do(e) == [kind |-> "expression", expression |-> e]
Returning(e) == [kind |-> "return", expression |-> e]
Breaking == [kind |-> "break"]
Continuing == [kind |-> "continue"]
Define(name, f) == [kind |-> "function", name |-> name, function |-> f]
Show(e) == Do(CallOf("print", <<e>>))

(* A variable without a type is described as Any, and is known to be so    *)
(* described by nobody.                                                    *)
DeclareAs(name, ast, e) ==
  [kind |-> "variable", name |-> name, explicit |-> TRUE, declared |-> ast, expression |-> e]
Declare(name, e) == [DeclareAs(name, Anything, e) EXCEPT !.explicit = FALSE]

(* An else-if is an else whose block is one if. *)
When(e, then) ==
  [kind |-> "if", expression |-> e, then |-> then, hasElse |-> FALSE, else |-> << >>]
Choose(e, then, else) == [When(e, then) EXCEPT !.hasElse = TRUE, !.else = else]
ChooseIf(e, then, elseIf) == Choose(e, then, <<elseIf>>)

(* The parser tells how many expressions the head of a loop has, not where *)
(* they stand: the first is the condition, the second the iteration.       *)
ForEach(variable, expressions, block) ==
  [kind |-> "loop", variable |-> variable,
   expression |-> IF expressions = << >> THEN Nothing ELSE expressions[1],
   iteration |-> IF Len(expressions) < 2 THEN Nothing ELSE expressions[2],
   block |-> block]
For(variable, condition, iteration, block) ==
  ForEach(variable, <<condition, iteration>>, block)

=============================================================================
