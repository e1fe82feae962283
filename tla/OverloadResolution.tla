--------------------------- MODULE OverloadResolution ---------------------------
(***************************************************************************)
(* A name of a block gets its overloads one after the other                *)
(* (visitNamedFunctions in src/compiler/type/extractor/type_extractor.cpp, *)
(* addProperty in src/compiler/type/type.cpp).  Which of them does a call  *)
(* mean (getOverloadToCall in type_helper.cpp), and is it accepted?        *)
(***************************************************************************)
EXTENDS Assignability, Functions

CONSTANTS
  Types,            \* types of arguments and parameters
  Idents,           \* names of type parameters
  FunctionTypes,    \* types of functions
  Calls,            \* calls, by the types written in them and those of the parameters
  MaxOverloads      \* bound: overloads of the name

(* A type as it is declared, not a copy made for a generic function. *)
Declared(t) ==
  \/ t \in NamedTypes \cup {NullType}
  \/ t.name = "fun" /\ ~IsTypeArgument(t)

(* Its type parameters are told apart by their names, and its arguments    *)
(* have no other type parameters.                                          *)
Closed(t) ==
  /\ \A j, k \in DOMAIN t.parameters :
       t.parameters[j].ident = t.parameters[k].ident => j = k
  /\ \A k \in DOMAIN t.parameters :
       IsTypeArgument(t.parameters[k].type) /\ t.parameters[k].type.name = t.parameters[k].ident
  /\ \A k \in 1 .. Arity(t) : IsTypeArgument(t.arguments[k]) =>
       \E j \in DOMAIN t.parameters : t.arguments[k] = t.parameters[j].type

ASSUME TypesAssumption == \A t \in Types : Declared(Boundary(t))
ASSUME TextAssumption ==
  \A t, u \in {Boundary(v) : v \in Types} \cup NamedTypes \cup {NullType} :
    SameText(t, u) => t.name = u.name
ASSUME FunctionTypesAssumption ==
  \A t \in FunctionTypes :
    /\ t.name = "fun" /\ t.arguments # << >>
    /\ t.arguments \in Seq(Types)
    /\ t.parameters \in Seq([ident : Idents, type : Types])
    /\ Closed(t)
ASSUME CallsAssumption == Calls \subseteq [explicit : Seq(Types), given : Seq(Types)]
ASSUME MaxOverloadsAssumption == MaxOverloads \in Nat

VARIABLE overloads   \* types of the functions the name has, in this order

Init == overloads = << >>

(* Two overloads never have the same text. *)
AddOverload(t) ==
  /\ Len(overloads) < MaxOverloads
  /\ \A k \in DOMAIN overloads : ~SameText(overloads[k], t)
  /\ overloads' = Append(overloads, t)

Next == \E t \in FunctionTypes : AddOverload(t)

Spec == Init /\ [][Next]_overloads

(* The function called, NoType where the extractor refuses the call. *)
Chosen(types, call) ==
  LET t == OverloadToCall(NoType, types, call.explicit, call.given)
  IN  IF t # NoType /\ CallIsAccepted(t, call.explicit, call.given) THEN t ELSE NoType

-----------------------------------------------------------------------------
(* The rules, as a table: what may be given where a type is expected. *)

Everything == {"int", "decimal", "String", "boolean", "fun", "Any", "null"}
Admitted ==
  [Any |-> Everything, decimal |-> {"int", "decimal"}, int |-> {"int"},
   String |-> {"String", "null"}, boolean |-> {"boolean", "null"}, fun |-> {"fun", "null"},
   Void |-> {"null"}, null |-> {}]

Admits(expected, given) ==
  LET to == Boundary(expected)
      from == Boundary(given)
  IN  /\ from.name \in Admitted[to.name]
      /\ from.name = "fun" /\ to.name = "fun" => SameText(from, to)

(* What is written for a type parameter and what is given for it need not  *)
(* agree, only either with the bound.                                      *)
Suits(t, call) ==
  /\ Len(t.arguments) = Len(call.given) + 1
  /\ \A k \in DOMAIN call.given : Admits(t.arguments[k], call.given[k])
  /\ call.explicit = << >> \/ Len(call.explicit) = Len(t.parameters)
  /\ \A k \in DOMAIN call.explicit : Admits(t.parameters[k].type, call.explicit[k])

(* Every type parameter is written in the call or has an argument.         *)
Linked(t, call) ==
  \/ call.explicit # << >>
  \/ \A k \in DOMAIN t.parameters : \E j \in DOMAIN call.given :
       t.arguments[j] = t.parameters[k].type

-----------------------------------------------------------------------------

(* A call means the only overload its parameters suit, in whatever order   *)
(* the overloads were declared; with none or several it is refused, and    *)
(* so it is when a type parameter stays open.                              *)
ChosenIsTheOnlySuitable ==
  \A call \in Calls :
    LET suitable == {t \in Range(overloads) : Suits(t, call)}
        chosen == Chosen(overloads, call)
    IN  IF Cardinality(suitable) = 1 /\ \A t \in suitable : Linked(t, call)
          THEN suitable = {chosen}
        ELSE chosen = NoType

(* A new overload may make a call ambiguous.  It never takes a call over   *)
(* from the function that was called before.                               *)
NeverTakenOver ==
  [][\A call \in Calls :
       Chosen(overloads, call) # NoType =>
         Chosen(overloads', call) \in {Chosen(overloads, call), NoType}]_overloads

=============================================================================
