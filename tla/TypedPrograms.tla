---------------------------- MODULE TypedPrograms ----------------------------
(***************************************************************************)
(* All programs of the form                                                *)
(*    fun f(p: A): R { return body }        or  fun <T: bound> f(p: T): R  *)
(*    var x = literal                                                      *)
(*    var y: D = f(x)                                                      *)
(*    print(e)                                                             *)
(* that the extractor accepts.  Unchecked has the ways in which it accepts *)
(* programs whose values are not of their types.                           *)
(***************************************************************************)
EXTENDS SourcePrograms

T == Described("T")
Asts == {AnInt, ADecimal, AString, ABoolean, Anything}
Bounds == {AnInt, ADecimal, AString, Anything}
P == Var("p")
Y == Var("y")
B == StringLiteral("b")
Half == DecimalLiteral(2)

LiteralValues == {IntLiteral(3), DecimalLiteral(6), StringLiteral("a"), BooleanLiteral(1)}
Bodies ==
  {P, Negated(P), Operation("add", P, IntLiteral(2)), Operation("mul", Half, P),
   Operation("add", P, B), Operation("lt", P, IntLiteral(2)), IntLiteral(2), B}
Uses == {Y, Operation("add", Y, IntLiteral(1)), Operation("add", Y, B), Operation("gte", Y, Half)}

Signatures ==
  {[typeArguments |-> << >>, takes |-> a, gives |-> r] : a, r \in Asts}
    \cup {[typeArguments |-> <<Argument("T", bound)>>, takes |-> T, gives |-> r] :
            bound \in Bounds, r \in {T} \cup Asts}

Functions ==
  {<<Define("f", GenericFunction(signature.typeArguments, <<Argument("p", signature.takes)>>,
                                 signature.gives, <<Returning(body)>>))>> :
     signature \in Signatures, body \in Bodies}

(* var x = literal  var y: D = f(x) *)
Result(x, d) ==
  LET result == CallOf("f", <<Var("x")>>)
  IN  <<Declare("x", x), IF d = Nil THEN Declare("y", result) ELSE DeclareAs("y", d, result)>>
Results == {Result(x, d) : x \in LiteralValues, d \in {Nil, ADecimal, Anything}}

-----------------------------------------------------------------------------
(* What an accepted tree does that the generator is known to get wrong *)

(* An int, or a T that may be one, is passed or returned where a decimal   *)
(* is declared, and stays what it is.                                      *)
NotConverted(callee, given, returned) ==
  \/ callee.arguments[1] = DecimalType /\ given # DecimalType
  \/ callee.arguments[2] = DecimalType /\ returned # DecimalType

(* A T is computed with as if it were an int. *)
OperandTypes(e) ==
  CASE e.kind = "binary" -> {e.left.type, e.right.type}
    [] e.kind = "negate" -> {e.right.type}
    [] OTHER -> {}
TakenForInt(e) ==
  /\ \E t \in OperandTypes(e) : IsTypeArgument(t)
  /\ \E t \in OperandTypes(e) : Boundary(t) # IntType

(* Something else is returned where T is declared, for it suits the bound. *)
NotTheParameter(callee, returned) ==
  LET declared == callee.arguments[2]
  IN  IsTypeArgument(declared) /\ returned # declared /\ Boundary(declared) # IntType

(* A type that is the result of a generic function is a copy of itself. *)
Copied(e) == e.kind = "binary" /\ e.op = "add" /\ ~e.type.canonical /\ e.type.name # "int"

Unchecked(root) ==
  LET function == root.block[1].function
      returned == function.block[1].expression
      use == root.block[4].expression.params[1]
  IN  \/ NotConverted(function.type, root.block[2].type, returned.type)
      \/ TakenForInt(returned)
      \/ NotTheParameter(function.type, returned.type)
      \/ Copied(use)

Extracted(tree) == Extractor!ExtractAndRegister(tree)

(* The extractor refuses a program at the first statement it refuses, so   *)
(* only beginnings that it accepts are continued.                          *)
Continued(beginnings, ends) ==
  {tree \in {b \o e : b \in beginnings, e \in ends} : Extracted(tree).verdict = "accepted"}

Accepted ==
  LET functions == Continued({<< >>}, Functions)
      results == Continued(functions, Results)
  IN  {tree \in Continued(results, {<<Show(use)>> : use \in Uses}) :
         ~Unchecked(Extracted(tree).root)}

=============================================================================
