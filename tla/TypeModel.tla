------------------------------ MODULE TypeModel ------------------------------
(***************************************************************************)
(* Types of the language: their text, generic types                        *)
(* (src/compiler/type/type.cpp), types of operators                        *)
(* (src/compiler/op/op.cpp) and types from their descriptors               *)
(* (src/compiler/type/extractor/type_helper.cpp).                          *)
(***************************************************************************)
EXTENDS SequencesExt

(* toString *)
RECURSIVE Text(_)
Text(t) ==
  [name |-> t.name,
   parameters |-> [k \in DOMAIN t.parameters |-> Text(t.parameters[k].type)],
   arguments |-> [k \in DOMAIN t.arguments |-> Text(t.arguments[k])]]

INSTANCE Assignability WITH TextOf <- Text

-----------------------------------------------------------------------------
(* Generic types.  passed: names of type parameters -> types. *)

(* find() of a name that is not in the map is dereferenced all the same. *)
RECURSIVE ResolvesSafely(_, _)
ResolvesSafely(t, passed) ==
  \/ DOMAIN passed = {}
  \/ IF IsTypeArgument(t) THEN t.name \in DOMAIN passed
     ELSE /\ \A k \in DOMAIN t.parameters : ResolvesSafely(t.parameters[k].type, passed)
          /\ \A k \in DOMAIN t.arguments : ResolvesSafely(t.arguments[k], passed)

(* With type parameters every type that is not one is copied. *)
RECURSIVE ResolveGenericType(_, _)
ResolveGenericType(t, passed) ==
  IF DOMAIN passed = {} THEN t
  ELSE IF IsTypeArgument(t) THEN passed[t.name]
  ELSE [t EXCEPT !.canonical = FALSE,
                 !.parameters = [k \in DOMAIN @ |->
                   [@[k] EXCEPT !.type = ResolveGenericType(@, passed)]],
                 !.arguments = [k \in DOMAIN @ |-> ResolveGenericType(@[k], passed)]]

-----------------------------------------------------------------------------
(* Operator::getReturnType *)

ArithmeticOperators == {"add", "sub", "mul", "div", "mod"}
ComparisonOperators == {"eq", "neq", "lt", "lte", "gt", "gte"}
Numeric(t) == t.name \in {"int", "decimal"}

RECURSIVE ReturnType(_, _, _)
ReturnType(op, t1, t2) ==
  LET ofBoundaries == ReturnType(op, Boundary(t1), Boundary(t2))
  IN  CASE op = "assign" /\ t1.name = t2.name -> VoidType
        [] op \in ArithmeticOperators /\ Numeric(t1) /\ Numeric(t2) ->
             IF t1.name = "decimal" THEN t1 ELSE t2
        [] op = "add" /\ t1.name = "String" /\ t2.name = "String" -> t1
        [] op \in ComparisonOperators /\ Numeric(t1) /\ Numeric(t2) -> BooleanType
        [] op \in {"and", "or"} /\ t1.name = "boolean" /\ t2.name = "boolean" -> BooleanType
        [] OTHER -> IF ~IsTypeArgument(t1) /\ ~IsTypeArgument(t2) THEN NoType
                    ELSE IF ofBoundaries = Boundary(t1) THEN t1
                    ELSE IF ofBoundaries = Boundary(t2) THEN t2
                    ELSE ofBoundaries

RECURSIVE ReturnTypeOfPrefix(_, _)
ReturnTypeOfPrefix(op, t) ==
  LET ofBoundary == ReturnTypeOfPrefix(op, Boundary(t))
  IN  CASE op = "negate" /\ Numeric(t) -> t
        [] op = "not" /\ t.name = "boolean" -> t
        [] OTHER -> IF ~IsTypeArgument(t) THEN NoType
                    ELSE IF ofBoundary = Boundary(t) THEN t ELSE ofBoundary

-----------------------------------------------------------------------------
(* Types from descriptors.  A descriptor has a name and parameters; chain  *)
(* is the type parameters of the functions around it, innermost last; own  *)
(* those of the signature it is in.                                        *)

First(named, ident) ==
  named[CHOOSE k \in DOMAIN named : /\ named[k].ident = ident
                                    /\ \A j \in 1 .. k - 1 : named[j].ident # ident].type
Mentions(named, ident) == \E k \in DOMAIN named : named[k].ident = ident

(* getParametricType *)
ParametricType(chain, ident) ==
  LET depths == {d \in DOMAIN chain : Mentions(chain[d], ident)}
  IN  IF depths = {} THEN NoType ELSE First(chain[Max(depths)], ident)

(* A type that is no function has no parameters to check those of the      *)
(* descriptor against; the lookup throws.                                  *)
RECURSIVE TypeOrError(_, _, _)
TypeOrError(chain, ast, own) ==
  LET parameters == [k \in DOMAIN ast.parameters |-> TypeOrError(chain, ast.parameters[k], own)]
  IN  CASE ast.name \in {"fun", "native"} ->
             IF parameters = << >> \/ NoType \in Range(parameters) THEN NoType
             ELSE FunctionType(<< >>, parameters, FALSE)
        [] ast.name \notin {"fun", "native"} /\ parameters # << >> -> NoType
        [] OTHER -> IF Simple(ast.name) \in NamedTypes THEN Simple(ast.name)
                    ELSE IF Mentions(own, ast.name) THEN First(own, ast.name)
                    ELSE ParametricType(chain, ast.name)

(* The type parameters of a function, with their boundaries. *)
TypeArgumentsOf(chain, f) ==
  [k \in DOMAIN f.typeArguments |->
     LET boundary == TypeOrError(chain, f.typeArguments[k].ast, << >>)
     IN  [ident |-> f.typeArguments[k].ident,
          type |-> IF boundary = NoType THEN NoType
                   ELSE TypeParameter(f.typeArguments[k].ident, boundary)]]

(* The map keeps the first of several type parameters of one name, and the *)
(* type of the function has that one for each of them.                     *)
FirstOfEachName(named) ==
  [k \in DOMAIN named |-> [named[k] EXCEPT !.type = First(named, named[k].ident)]]

(* getFunctionTypeFromFunctionAst *)
FunctionTypeOf(chain, f) ==
  LET declared == TypeArgumentsOf(chain, f)
      own == FirstOfEachName(declared)
      arguments == [k \in 1 .. Len(f.arguments) + 1 |->
                      TypeOrError(chain, IF k > Len(f.arguments) THEN f.returns
                                         ELSE f.arguments[k].ast, own)]
      named == {declared[k].type : k \in DOMAIN declared}
  IN  IF NoType \in Range(arguments) \cup named THEN NoType
      ELSE FunctionType(own, arguments, FALSE)

CallResult(t, explicit, given) ==
  ResolveGenericType(Last(t.arguments), PassedTypes(t, explicit, given))

=============================================================================
