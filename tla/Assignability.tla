---------------------------- MODULE Assignability ----------------------------
(***************************************************************************)
(* What may be given where a type is expected (TypeInfo::isAssignableFrom  *)
(* in src/compiler/type/type.cpp), which overload a call means             *)
(* (getOverloadToCall in type/extractor/type_helper.cpp) and whether the   *)
(* call is accepted (visitFunctionCall in type_extractor.cpp).             *)
(*                                                                         *)
(* The code compares types sometimes by text, sometimes by name and        *)
(* sometimes by the address of the TypeInfo object.  Here a type is a      *)
(* record                                                                  *)
(*   name                                                                  *)
(*   canonical   is this the object &TypeInfo::INT, ...?  A copy of it     *)
(*               made for a generic function has the same text and another *)
(*               address                                                   *)
(*   native      isNative                                                  *)
(*   boundary    typeBoundary of a type parameter as a sequence of one     *)
(*               type, empty for all other types                           *)
(*   parameters  getTypeArguments: names and types                         *)
(*   arguments   getFunctionArguments: arguments of a function, and its    *)
(*               result last                                               *)
(***************************************************************************)
EXTENDS Naturals, Sequences, FiniteSets, FiniteSetsExt

CONSTANT TextOf(_)     \* TypeInfo::toString

Simple(name) ==
  [name |-> name, canonical |-> TRUE, native |-> FALSE, boundary |-> << >>,
   parameters |-> << >>, arguments |-> << >>]

NullType == Simple("null")
StringType == Simple("String")
IntType == Simple("int")
BooleanType == Simple("boolean")
DecimalType == Simple("decimal")
AnyType == Simple("Any")
VoidType == Simple("Void")

(* What TypeInfoRepository knows by name. *)
NamedTypes == {StringType, IntType, BooleanType, DecimalType, AnyType, VoidType}

(* Instead of a type, when the code refuses the program. *)
NoType == [Simple("no type") EXCEPT !.canonical = FALSE]

FunctionType(parameters, arguments, native) ==
  [name |-> "fun", canonical |-> FALSE, native |-> native, boundary |-> << >>,
   parameters |-> parameters, arguments |-> arguments]

TypeParameter(ident, boundary) ==
  [name |-> ident, canonical |-> FALSE, native |-> FALSE, boundary |-> <<boundary>>,
   parameters |-> << >>, arguments |-> << >>]
IsTypeArgument(t) == t.boundary # << >>
Boundary(t) == IF IsTypeArgument(t) THEN t.boundary[1] ELSE t

-----------------------------------------------------------------------------
(* Assignability.  The loops over the arguments of the two types in the    *)
(* code only lead to the comparison of texts, which comes last anyway.     *)

(* equals *)
SameText(t, u) == TextOf(t) = TextOf(u)

(* Broken: a decimal may become null. *)
IsAssignableNull(to, from) ==
  LET t1 == Boundary(to)
      t2 == Boundary(from)
  IN  /\ ~SameText(t1, NullType)
      /\ t2 # VoidType
      /\ \/ t1 = AnyType
         \/ t1 = DecimalType /\ t2 \in {IntType, DecimalType, NullType}
         \/ /\ t1 \notin {AnyType, DecimalType}
            /\ IF SameText(t2, NullType)
                 THEN ~SameText(t1, DecimalType) /\ ~SameText(t1, IntType)
               ELSE SameText(t2, t1)

IsAssignableFrom(to, from) ==
  LET t1 == Boundary(to)
      t2 == Boundary(from)
  IN  /\ ~SameText(t1, NullType)
      /\ t2 # VoidType
      /\ \/ t1 = AnyType
         \/ t1 = DecimalType /\ t2 \in {IntType, DecimalType}
         \/ /\ t1 \notin {AnyType, DecimalType}
            /\ IF SameText(t2, NullType)
                 THEN ~SameText(t1, DecimalType) /\ ~SameText(t1, IntType)
               ELSE SameText(t2, t1)

-----------------------------------------------------------------------------
(* Overloads.  given: types of the parameters of a call; explicit: type    *)
(* arguments written in it.                                                *)

Arity(t) == Len(t.arguments) - 1

FitsExplicitly(t, explicit) ==
  explicit # << >> =>
    /\ Len(t.parameters) = Len(explicit)
    /\ \A k \in DOMAIN explicit : IsAssignableFrom(Boundary(t.parameters[k].type), explicit[k])

FitsGiven(t, given) ==
  /\ Arity(t) = Len(given)
  /\ \A k \in DOMAIN given : IsAssignableFrom(Boundary(t.arguments[k]), given[k])

(* Broken: the last of several possible overloads is called. *)
LastOverloadToCall(calleeType, types, explicit, given) ==
  LET fitting == {k \in DOMAIN types : FitsExplicitly(types[k], explicit) /\ FitsGiven(types[k], given)}
  IN  CASE types = << >> -> calleeType
        [] Len(types) = 1 -> types[1]
        [] OTHER -> IF fitting # {} THEN types[Max(fitting)] ELSE NoType

(* getOverloadToCall: types are those of the overloads, in their order; no *)
(* overloads when the callee is not a name.                                *)
OverloadToCall(calleeType, types, explicit, given) ==
  LET fitting == {k \in DOMAIN types : FitsExplicitly(types[k], explicit) /\ FitsGiven(types[k], given)}
  IN  CASE types = << >> -> calleeType
        [] Len(types) = 1 -> types[1]
        [] OTHER -> IF Cardinality(fitting) = 1 THEN types[CHOOSE k \in fitting : TRUE] ELSE NoType

(* visitFunctionCall: what each type parameter stands for in a call, given *)
(* in the call or else the type of the first parameter declared with it.   *)
PassedTypes(t, explicit, given) ==
  LET written == {t.parameters[k].ident : k \in DOMAIN explicit}
      inferred == {k \in DOMAIN given : IsTypeArgument(t.arguments[k])}
      idents == written \cup {t.arguments[k].name : k \in inferred}
  IN  [ident \in idents |->
         IF ident \in written
           THEN explicit[Max({k \in DOMAIN explicit : t.parameters[k].ident = ident})]
         ELSE given[Min({k \in inferred : t.arguments[k].name = ident})]]

(* Broken: nobody asks whether every type parameter stands for something. *)
CallIsAcceptedOpen(t, explicit, given) ==
  /\ t.arguments # << >>
  /\ FitsExplicitly(t, explicit)
  /\ FitsGiven(t, given)

CallIsAccepted(t, explicit, given) ==
  /\ t.arguments # << >>
  /\ FitsExplicitly(t, explicit)
  /\ FitsGiven(t, given)
  /\ LET passed == PassedTypes(t, explicit, given)
     IN  /\ Cardinality(DOMAIN passed) = Len(t.parameters)
         /\ \A k \in DOMAIN given : IsTypeArgument(t.arguments[k]) =>
              IsAssignableFrom(Boundary(t.arguments[k]), passed[t.arguments[k].name])

=============================================================================
