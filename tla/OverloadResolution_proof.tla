----------------------- MODULE OverloadResolution_proof -----------------------
(***************************************************************************)
(* A call means the only overload its parameters suit and is never taken   *)
(* over by a later one, for all function types whose type parameters are   *)
(* their own: what isAssignableFrom decides by texts and addresses is the  *)
(* table Admitted, and the type parameters are linked exactly when         *)
(* visitFunctionCall counts as many as there are.                          *)
(***************************************************************************)
EXTENDS OverloadResolution, FiniteSetTheorems, TLAPS

(* The types by which isAssignableFrom decides. *)
Plain == NamedTypes \cup {NullType}
Bounds == {Boundary(t) : t \in Types} \cup Plain

(* Each plain type has a name of its own, and none the name of functions.  *)
LEMMA PlainNames ==
  /\ \A t, u \in Plain : t.name = u.name => t = u
  /\ \A t \in Plain : t.name # "fun" /\ ~IsTypeArgument(t)
BY DEF Plain, NamedTypes, NullType, StringType, IntType, BooleanType, DecimalType, AnyType,
       VoidType, Simple, IsTypeArgument

(* A bound is a plain type or that of a function, and is not bounded.      *)
LEMMA BoundsDeclared ==
  \A t \in Bounds : /\ t \in Plain \/ t.name = "fun"
                    /\ ~IsTypeArgument(t)
                    /\ Boundary(t) = t
<1>1. \A t \in Bounds : Declared(t) \/ t \in Plain
  BY TypesAssumption DEF Bounds
<1> QED
  BY <1>1, PlainNames DEF Declared, Plain, Boundary

(* A plain type has the text of no other bound. *)
LEMMA PlainTexts ==
  ASSUME NEW t \in Bounds, NEW u \in Plain
  PROVE  (SameText(t, u) <=> t = u) /\ (SameText(u, t) <=> t = u)
<1>1. u \in Bounds
  BY DEF Bounds
<1>2. SameText(t, u) => t.name = u.name
  BY <1>1, TextAssumption DEF Bounds, Plain
<1>3. SameText(u, t) => u.name = t.name
  BY <1>1, TextAssumption DEF Bounds, Plain
<1>4. t.name = u.name => t = u
  BY PlainNames, BoundsDeclared
<1>5. t = u => SameText(t, u) /\ SameText(u, t)
  BY DEF SameText
<1> QED
  BY <1>2, <1>3, <1>4, <1>5

(* What may be given is what the table says, whatever the types.           *)
LEMMA AssignableAsAdmitted ==
  ASSUME NEW to \in Types, NEW from \in Types
  PROVE  IsAssignableFrom(to, from) <=> Admits(to, from)
<1> DEFINE a == Boundary(to)
           b == Boundary(from)
<1>1. a \in Bounds /\ b \in Bounds
  BY DEF Bounds
<1>2. /\ IsAssignableFrom(to, from) <=>
           /\ ~SameText(a, NullType)
           /\ b # VoidType
           /\ \/ a = AnyType
              \/ a = DecimalType /\ b \in {IntType, DecimalType}
              \/ /\ a \notin {AnyType, DecimalType}
                 /\ IF SameText(b, NullType)
                      THEN ~SameText(a, DecimalType) /\ ~SameText(a, IntType)
                    ELSE SameText(b, a)
      /\ Admits(to, from) <=>
           /\ b.name \in Admitted[a.name]
           /\ b.name = "fun" /\ a.name = "fun" => SameText(b, a)
  BY Zenon DEF IsAssignableFrom, Admits
<1> HIDE DEF a, b
<1>3. /\ NullType \in Plain /\ AnyType \in Plain /\ DecimalType \in Plain
      /\ IntType \in Plain /\ VoidType \in Plain /\ StringType \in Plain /\ BooleanType \in Plain
  BY DEF Plain, NamedTypes
<1>4. /\ SameText(a, NullType) <=> a = NullType
      /\ SameText(b, NullType) <=> b = NullType
      /\ SameText(a, DecimalType) <=> a = DecimalType
      /\ SameText(a, IntType) <=> a = IntType
  BY <1>1, <1>3, PlainTexts
<1>5. (a \in Plain \/ b \in Plain) => (SameText(b, a) <=> a = b)
  BY <1>1, PlainTexts
<1>6. (a \in Plain \/ a.name = "fun") /\ (b \in Plain \/ b.name = "fun")
  BY <1>1, BoundsDeclared
<1>7. /\ NullType.name = "null" /\ StringType.name = "String" /\ IntType.name = "int"
      /\ BooleanType.name = "boolean" /\ DecimalType.name = "decimal" /\ AnyType.name = "Any"
      /\ VoidType.name = "Void"
  BY DEF NullType, StringType, IntType, BooleanType, DecimalType, AnyType, VoidType, Simple
<1>8. Plain = {StringType, IntType, BooleanType, DecimalType, AnyType, VoidType, NullType}
  BY DEF Plain, NamedTypes
<1>9. /\ Admitted["Any"] = Everything /\ Admitted["decimal"] = {"int", "decimal"}
      /\ Admitted["int"] = {"int"} /\ Admitted["String"] = {"String", "null"}
      /\ Admitted["boolean"] = {"boolean", "null"} /\ Admitted["fun"] = {"fun", "null"}
      /\ Admitted["Void"] = {"null"} /\ Admitted["null"] = {}
  BY DEF Admitted
<1>10. CASE a = AnyType
  BY <1>10, <1>2, <1>4, <1>6, <1>7, <1>8, <1>9 DEF Everything
<1>11. CASE a = DecimalType
  BY <1>11, <1>2, <1>4, <1>6, <1>7, <1>8, <1>9
<1>12. CASE a \in Plain \ {AnyType, DecimalType}
  BY <1>12, <1>2, <1>4, <1>5, <1>6, <1>7, <1>8, <1>9
<1>13. CASE a.name = "fun" /\ a \notin Plain
  BY <1>13, <1>2, <1>4, <1>5, <1>6, <1>7, <1>8, <1>9
<1> QED
  BY <1>6, <1>8, <1>10, <1>11, <1>12, <1>13

(* Types are compared by their bounds, so a bound admits what its type     *)
(* parameter admits.                                                       *)
LEMMA BoundAdmitsTheSame ==
  ASSUME NEW to \in Types, NEW from \in Types
  PROVE  IsAssignableFrom(Boundary(to), from) <=> Admits(to, from)
<1>1. Boundary(Boundary(to)) = Boundary(to)
  BY BoundsDeclared DEF Bounds
<1>2. IsAssignableFrom(Boundary(to), from) <=> IsAssignableFrom(to, from)
  BY <1>1, Zenon DEF IsAssignableFrom
<1> QED
  BY <1>2, AssignableAsAdmitted

(* Numbers have a smallest one among them. *)
LEMMA SmallestExists ==
  ASSUME NEW F \in SUBSET Nat, F # {}
  PROVE  \E t \in F : \A u \in F : t <= u
<1> DEFINE R == OpToRel(<, Nat)
<1>1. IsWellFoundedOn(R, Nat)
  BY NatLessThanWellFounded
<1>2. R = {ss \in Nat \X Nat : ss[1] < ss[2]}
  BY DEF OpToRel
<1> HIDE DEF R
<1>3. PICK t \in F : \A u \in F : ~(<<u, t>> \in R)
  BY <1>1, WFMin
<1>4. ASSUME NEW u \in F
      PROVE  t <= u
  <2>1. u < t => <<u, t>> \in R
    BY <1>2
  <2> QED
    BY <1>3, <2>1
<1> QED
  BY <1>4

-----------------------------------------------------------------------------
(* One overload.                                                           *)

LEMMA ElementOf ==
  ASSUME NEW S, NEW q \in Seq(S), NEW k \in DOMAIN q
  PROVE  q[k] \in S
OBVIOUS

(* What is known of the type of a function and of a call. *)
LEMMA FunctionTypesAndCalls ==
  ASSUME NEW t \in FunctionTypes, NEW call \in Calls
  PROVE  /\ t.name = "fun" /\ t.arguments # << >>
         /\ t.arguments \in Seq(Types)
         /\ t.parameters \in Seq([ident : Idents, type : Types])
         /\ Closed(t)
         /\ call.explicit \in Seq(Types) /\ call.given \in Seq(Types)
BY FunctionTypesAssumption, CallsAssumption

(* The loops of getOverloadToCall find what the parameters suit.           *)
LEMMA FitsAsSuits ==
  ASSUME NEW t \in FunctionTypes, NEW call \in Calls
  PROVE  FitsExplicitly(t, call.explicit) /\ FitsGiven(t, call.given) <=> Suits(t, call)
<1> DEFINE e == call.explicit
           g == call.given
           a == t.arguments
           p == t.parameters
<1>1. /\ a # << >> /\ a \in Seq(Types) /\ e \in Seq(Types) /\ g \in Seq(Types)
      /\ p \in Seq([ident : Idents, type : Types])
  BY FunctionTypesAndCalls
<1>2. /\ FitsExplicitly(t, e) <=>
           (e # << >> =>
              /\ Len(p) = Len(e)
              /\ \A k \in DOMAIN e : IsAssignableFrom(Boundary(p[k].type), e[k]))
      /\ FitsGiven(t, g) <=>
           /\ Len(a) - 1 = Len(g)
           /\ \A k \in DOMAIN g : IsAssignableFrom(Boundary(a[k]), g[k])
      /\ Suits(t, call) <=>
           /\ Len(a) = Len(g) + 1
           /\ \A k \in DOMAIN g : Admits(a[k], g[k])
           /\ e = << >> \/ Len(e) = Len(p)
           /\ \A k \in DOMAIN e : Admits(p[k].type, e[k])
  BY Zenon DEF FitsExplicitly, FitsGiven, Suits, Arity
<1> HIDE DEF e, g, a, p
<1>3. Len(a) - 1 = Len(g) <=> Len(a) = Len(g) + 1
  BY <1>1
<1>4. ASSUME Len(a) = Len(g) + 1, NEW k \in DOMAIN g
      PROVE  IsAssignableFrom(Boundary(a[k]), g[k]) <=> Admits(a[k], g[k])
  <2>1. a[k] \in Types /\ g[k] \in Types
    BY <1>1, <1>4
  <2> QED
    BY <2>1, BoundAdmitsTheSame
<1>5. ASSUME Len(e) = Len(p), NEW k \in DOMAIN e
      PROVE  IsAssignableFrom(Boundary(p[k].type), e[k]) <=> Admits(p[k].type, e[k])
  <2>1. e[k] \in Types /\ k \in DOMAIN p
    BY <1>1, <1>5
  <2>2. p[k] \in [ident : Idents, type : Types]
    BY <1>1, <2>1, ElementOf
  <2> QED
    BY <2>1, <2>2, BoundAdmitsTheSame
<1>6. e = << >> => DOMAIN e = {}
  OBVIOUS
<1> QED
  BY <1>2, <1>3, <1>4, <1>5, <1>6 DEF e, g

-----------------------------------------------------------------------------
(* The type parameters of an overload.                                     *)

Parameters(t) == {t.parameters[k].ident : k \in DOMAIN t.parameters}

(* Type parameters have names of their own, so there are as many names.    *)
LEMMA ParametersCounted ==
  ASSUME NEW t \in FunctionTypes
  PROVE  IsFiniteSet(Parameters(t)) /\ Cardinality(Parameters(t)) = Len(t.parameters)
<1> DEFINE n == Len(t.parameters)
           f == [k \in 1 .. n |-> t.parameters[k].ident]
<1>1. n \in Nat /\ DOMAIN t.parameters = 1 .. n /\ Closed(t)
  BY FunctionTypesAssumption
<1>2. IsFiniteSet(1 .. n) /\ Cardinality(1 .. n) = n
  BY <1>1, FS_Interval
<1>3. f \in Bijection(1 .. n, Parameters(t))
  BY <1>1 DEF Parameters, Closed, Bijection, Injection, Surjection, IsInjective
<1> QED
  BY <1>1, <1>2, <1>3, FS_Bijection DEF ExistsBijection

(* The names a call finds out something about, written in it or inferred.  *)
Written(t, call) == {t.parameters[k].ident : k \in DOMAIN call.explicit}
Inferred(t, call) == {k \in DOMAIN call.given : IsTypeArgument(t.arguments[k])}
Passed(t, call) == Written(t, call) \cup {t.arguments[k].name : k \in Inferred(t, call)}

(* An argument that is a type parameter is the one of the function that    *)
(* has its name.                                                           *)
LEMMA ArgumentsAreParameters ==
  ASSUME NEW t \in FunctionTypes, NEW call \in Calls, Suits(t, call),
         NEW j \in Inferred(t, call)
  PROVE  \E k \in DOMAIN t.parameters :
            /\ t.arguments[j] = t.parameters[k].type
            /\ t.arguments[j].name = t.parameters[k].ident
            /\ \A i \in DOMAIN t.parameters : t.parameters[i].ident = t.arguments[j].name => i = k
<1>1. t.arguments \in Seq(Types) /\ call.given \in Seq(Types) /\ Closed(t)
  BY FunctionTypesAndCalls
<1>2. j \in 1 .. Arity(t) /\ IsTypeArgument(t.arguments[j])
  BY <1>1 DEF Inferred, Suits, Arity
<1> QED
  BY <1>1, <1>2 DEF Closed

(* What is written stands for type parameters of the function.             *)
LEMMA WrittenAreParameters ==
  ASSUME NEW t \in FunctionTypes, NEW call \in Calls, Suits(t, call)
  PROVE  /\ DOMAIN call.explicit \subseteq DOMAIN t.parameters
         /\ call.explicit # << >> => DOMAIN call.explicit = DOMAIN t.parameters
<1>1. call.explicit \in Seq(Types) /\ t.parameters \in Seq([ident : Idents, type : Types])
  BY FunctionTypesAndCalls
<1> QED
  BY <1>1 DEF Suits

(* All names are found exactly when the type parameters are linked.        *)
LEMMA LinkedWhenAllPassed ==
  ASSUME NEW t \in FunctionTypes, NEW call \in Calls, Suits(t, call)
  PROVE  /\ Passed(t, call) \subseteq Parameters(t)
         /\ Passed(t, call) = Parameters(t) <=> Linked(t, call)
<1>1. /\ t.arguments \in Seq(Types) /\ call.given \in Seq(Types) /\ Closed(t)
      /\ call.explicit = << >> => DOMAIN call.explicit = {}
  BY FunctionTypesAndCalls
<1>2. Passed(t, call) \subseteq Parameters(t)
  BY WrittenAreParameters, ArgumentsAreParameters DEF Passed, Written, Parameters
<1>3. ASSUME Linked(t, call), NEW k \in DOMAIN t.parameters
      PROVE  t.parameters[k].ident \in Passed(t, call)
  <2>1. CASE call.explicit # << >>
    BY <2>1, WrittenAreParameters DEF Passed, Written
  <2>2. CASE call.explicit = << >>
    <3>1. PICK j \in DOMAIN call.given : t.arguments[j] = t.parameters[k].type
      BY <1>3, <2>2 DEF Linked
    <3>2. j \in Inferred(t, call) /\ t.arguments[j].name = t.parameters[k].ident
      BY <1>1, <3>1 DEF Inferred, Closed
    <3> QED
      BY <3>2 DEF Passed
  <2> QED
    BY <2>1, <2>2
<1>4. ASSUME Passed(t, call) = Parameters(t), call.explicit = << >>,
             NEW k \in DOMAIN t.parameters
      PROVE  \E j \in DOMAIN call.given : t.arguments[j] = t.parameters[k].type
  <2>1. t.parameters[k].ident \in Passed(t, call) /\ Written(t, call) = {}
    BY <1>1, <1>4 DEF Parameters, Written
  <2>2. PICK j \in Inferred(t, call) : t.arguments[j].name = t.parameters[k].ident
    BY <2>1 DEF Passed
  <2>3. t.arguments[j] = t.parameters[k].type
    BY <2>2, ArgumentsAreParameters
  <2> QED
    BY <2>3 DEF Inferred
<1> QED
  BY <1>2, <1>3, <1>4 DEF Parameters, Linked

(* What a type parameter stands for is admitted by its bound.              *)
LEMMA PassedAreAdmitted ==
  ASSUME NEW t \in FunctionTypes, NEW call \in Calls, Suits(t, call),
         NEW j \in Inferred(t, call)
  PROVE  IsAssignableFrom(Boundary(t.arguments[j]),
                          PassedTypes(t, call.explicit, call.given)[t.arguments[j].name])
<1> DEFINE name == t.arguments[j].name
           writing == {k \in DOMAIN call.explicit : t.parameters[k].ident = name}
           giving == {k \in Inferred(t, call) : t.arguments[k].name = name}
           passed == PassedTypes(t, call.explicit, call.given)
<1>1. passed[name] = IF name \in Written(t, call) THEN call.explicit[Max(writing)]
                     ELSE call.given[Min(giving)]
  <2>1. name \in Passed(t, call)
    BY DEF Passed
  <2>2. passed = [ident \in Passed(t, call) |->
         IF ident \in Written(t, call)
           THEN call.explicit[Max({k \in DOMAIN call.explicit : t.parameters[k].ident = ident})]
         ELSE call.given[Min({k \in Inferred(t, call) : t.arguments[k].name = ident})]]
    BY Zenon DEF PassedTypes, Passed, Written, Inferred
  <2> HIDE DEF passed
  <2> QED
    BY <2>1, <2>2
<1> HIDE DEF passed
<1>2. FitsExplicitly(t, call.explicit) /\ FitsGiven(t, call.given)
  BY FitsAsSuits
<1>3. PICK k \in DOMAIN t.parameters :
         /\ t.arguments[j] = t.parameters[k].type
         /\ name = t.parameters[k].ident
         /\ \A i \in DOMAIN t.parameters : t.parameters[i].ident = name => i = k
  BY ArgumentsAreParameters
<1>4. CASE name \in Written(t, call)
  <2>1. writing = {k} /\ k \in DOMAIN call.explicit
    BY <1>3, <1>4, WrittenAreParameters DEF Written
  <2>2. k \in Nat
    BY <1>3, FunctionTypesAndCalls
  <2>3. Max(writing) = k
    BY <2>1, <2>2 DEF Max
  <2>4. call.explicit # << >>
    BY <2>1
  <2>5. IsAssignableFrom(Boundary(t.arguments[j]), call.explicit[k])
    BY <1>2, <1>3, <2>1, <2>4 DEF FitsExplicitly
  <2>6. passed[name] = call.explicit[k]
    BY <1>1, <1>4, <2>3
  <2> QED
    BY <2>5, <2>6, Zenon DEF passed
<1>5. CASE name \notin Written(t, call)
  <2>1. giving \in SUBSET Nat /\ giving # {}
    BY FunctionTypesAndCalls DEF Inferred
  <2>2. Min(giving) \in giving
    BY <2>1, SmallestExists DEF Min
  <2>3. PICK i \in giving : i = Min(giving)
    BY <2>2
  <2>4. t.arguments[i] = t.arguments[j] /\ i \in DOMAIN call.given
    BY <1>3, <2>3, ArgumentsAreParameters DEF Inferred
  <2>5. IsAssignableFrom(Boundary(t.arguments[j]), call.given[i])
    BY <1>2, <2>4 DEF FitsGiven
  <2>6. passed[name] = call.given[i]
    BY <1>1, <1>5, <2>3
  <2> QED
    BY <2>5, <2>6, Zenon DEF passed
<1> QED
  BY <1>4, <1>5

(* visitFunctionCall accepts a call exactly when its parameters suit and   *)
(* its type parameters are linked.                                         *)
LEMMA AcceptedWhenLinked ==
  ASSUME NEW t \in FunctionTypes, NEW call \in Calls
  PROVE  CallIsAccepted(t, call.explicit, call.given) <=> Suits(t, call) /\ Linked(t, call)
<1> DEFINE passed == PassedTypes(t, call.explicit, call.given)
<1>1. DOMAIN passed = Passed(t, call)
  BY DEF PassedTypes, Passed, Written, Inferred
<1>2. CallIsAccepted(t, call.explicit, call.given) <=>
        /\ Suits(t, call)
        /\ Cardinality(Passed(t, call)) = Len(t.parameters)
        /\ \A j \in Inferred(t, call) :
             IsAssignableFrom(Boundary(t.arguments[j]), passed[t.arguments[j].name])
  <2>1. CallIsAccepted(t, call.explicit, call.given) <=>
          /\ t.arguments # << >>
          /\ FitsExplicitly(t, call.explicit)
          /\ FitsGiven(t, call.given)
          /\ Cardinality(DOMAIN passed) = Len(t.parameters)
          /\ \A k \in DOMAIN call.given : IsTypeArgument(t.arguments[k]) =>
               IsAssignableFrom(Boundary(t.arguments[k]), passed[t.arguments[k].name])
    BY Zenon DEF CallIsAccepted
  <2> HIDE DEF passed
  <2> QED
    BY <1>1, <2>1, FunctionTypesAndCalls, FitsAsSuits DEF Inferred
<1>3. ASSUME Suits(t, call)
      PROVE  Cardinality(Passed(t, call)) = Len(t.parameters) <=> Linked(t, call)
  <2>1. /\ Passed(t, call) \in SUBSET Parameters(t)
        /\ Passed(t, call) = Parameters(t) <=> Linked(t, call)
    BY <1>3, LinkedWhenAllPassed
  <2> QED
    BY <2>1, ParametersCounted, FS_Subset
<1> QED
  BY <1>2, <1>3, PassedAreAdmitted

-----------------------------------------------------------------------------
(* All overloads of a name.                                                *)

(* The inductive invariant: no two overloads have the same text.           *)
Distinct(types) ==
  /\ types \in Seq(FunctionTypes)
  /\ \A j, k \in DOMAIN types : SameText(types[j], types[k]) => j = k

Suitable(types, call) == {t \in Range(types) : Suits(t, call)}
Fitting(types, call) == {k \in DOMAIN types : Suits(types[k], call)}

Only(positions) == CHOOSE k \in positions : TRUE

(* The refusal is no function. *)
LEMMA RefusalIsNoFunction == NoType \notin FunctionTypes
<1>1. NoType.name = "no type"
  BY DEF NoType, Simple
<1> QED
  BY <1>1, FunctionTypesAssumption

(* The positions that fit are those of the overloads that suit.            *)
LEMMA FittingPositions ==
  ASSUME NEW types, Distinct(types), NEW call \in Calls
  PROVE  /\ {k \in DOMAIN types : /\ FitsExplicitly(types[k], call.explicit)
                                 /\ FitsGiven(types[k], call.given)} = Fitting(types, call)
         /\ Fitting(types, call) \subseteq DOMAIN types
         /\ IsFiniteSet(Fitting(types, call))
<1>1. types \in Seq(FunctionTypes) /\ Len(types) \in Nat /\ DOMAIN types = 1 .. Len(types)
  BY DEF Distinct
<1>2. \A k \in DOMAIN types :
        FitsExplicitly(types[k], call.explicit) /\ FitsGiven(types[k], call.given)
          <=> Suits(types[k], call)
  BY <1>1, FitsAsSuits, ElementOf
<1>3. Fitting(types, call) \in SUBSET (1 .. Len(types))
  BY <1>1 DEF Fitting
<1>4. IsFiniteSet(1 .. Len(types))
  BY <1>1, FS_Interval
<1>5. IsFiniteSet(Fitting(types, call))
  BY <1>3, <1>4, FS_Subset
<1> QED
  BY <1>2, <1>5 DEF Fitting

(* One overload suits exactly when one position fits, and both are finite. *)
LEMMA OneSuits ==
  ASSUME NEW types, Distinct(types), NEW call \in Calls
  PROVE  /\ IsFiniteSet(Suitable(types, call))
         /\ \A k : Fitting(types, call) = {k} => Suitable(types, call) = {types[k]}
         /\ \A t : Suitable(types, call) = {t} =>
                  \E k : Fitting(types, call) = {k} /\ types[k] = t
<1> DEFINE fitting == Fitting(types, call)
<1>1. types \in Seq(FunctionTypes) /\ Range(types) = {types[k] : k \in DOMAIN types}
  BY DEF Distinct, Range
<1>2. Suitable(types, call) = {types[k] : k \in fitting}
  BY <1>1 DEF Suitable, Fitting
<1>3. IsFiniteSet({types[k] : k \in fitting})
  <2> DEFINE f == [k \in fitting |-> types[k]]
  <2>1. f \in Surjection(fitting, {types[k] : k \in fitting})
    BY DEF Surjection
  <2>2. IsFiniteSet(fitting)
    BY FittingPositions
  <2> QED
    BY <2>1, <2>2, FS_Surjection
<1>4. ASSUME NEW t, Suitable(types, call) = {t}
      PROVE  \E k : fitting = {k} /\ types[k] = t
  <2>1. PICK k \in fitting : types[k] = t
    BY <1>2, <1>4
  <2>2. ASSUME NEW j \in fitting
        PROVE  j = k
    <3>1. types[j] = t
      BY <1>2, <1>4
    <3> QED
      BY <2>1, <3>1, FittingPositions DEF Distinct, SameText
  <2> QED
    BY <2>1, <2>2
<1> QED
  BY <1>2, <1>3, <1>4

(* What the extractor chooses among overloads that differ.                 *)
LEMMA ChosenAmong ==
  ASSUME NEW types, Distinct(types), NEW call \in Calls
  PROVE  IF Cardinality(Suitable(types, call)) = 1
              /\ \A t \in Suitable(types, call) : Linked(t, call)
           THEN Suitable(types, call) = {Chosen(types, call)}
         ELSE Chosen(types, call) = NoType
<1>1. /\ types \in Seq(FunctionTypes) /\ Len(types) \in Nat /\ DOMAIN types = 1 .. Len(types)
      /\ Range(types) = {types[k] : k \in DOMAIN types}
  BY DEF Distinct, Range
<1> DEFINE fitting == Fitting(types, call)
           t == OverloadToCall(NoType, types, call.explicit, call.given)
<1>3. t = CASE types = << >> -> NoType
            [] Len(types) = 1 -> types[1]
            [] OTHER -> IF Cardinality(fitting) = 1 THEN types[Only(fitting)] ELSE NoType
  <2> DEFINE raw == {k \in DOMAIN types : /\ FitsExplicitly(types[k], call.explicit)
                                        /\ FitsGiven(types[k], call.given)}
  <2>1. raw = fitting
    BY FittingPositions
  <2>2. t = CASE types = << >> -> NoType
              [] Len(types) = 1 -> types[1]
              [] OTHER -> IF Cardinality(raw) = 1 THEN types[Only(raw)] ELSE NoType
    BY DEF OverloadToCall, Only
  <2> HIDE DEF raw, t, fitting
  <2> QED
    BY <2>1, <2>2
<1>4. Chosen(types, call) =
        IF t # NoType /\ CallIsAccepted(t, call.explicit, call.given) THEN t ELSE NoType
  BY Zenon DEF Chosen
<1> HIDE DEF t, fitting
<1>5. IsFiniteSet(fitting) /\ (Cardinality(fitting) = 1 <=> \E k : fitting = {k})
  BY FittingPositions, FS_Singleton DEF fitting
<1>6. /\ IsFiniteSet(Suitable(types, call))
      /\ \A k : fitting = {k} => Suitable(types, call) = {types[k]}
      /\ \A u : Suitable(types, call) = {u} => \E k : fitting = {k} /\ types[k] = u
  BY OneSuits DEF fitting
<1>7. Cardinality(Suitable(types, call)) = 1 <=> \E u : Suitable(types, call) = {u}
  BY <1>6, FS_Singleton
<1>8. \A u \in FunctionTypes :
        /\ u # NoType
        /\ CallIsAccepted(u, call.explicit, call.given) <=> Suits(u, call) /\ Linked(u, call)
  BY RefusalIsNoFunction, AcceptedWhenLinked
<1>9. CASE types = << >>
  <2>1. Suitable(types, call) = {}
    BY <1>1, <1>9 DEF Suitable
  <2>2. t = NoType
    BY <1>3, <1>9
  <2> QED
    BY <1>4, <1>7, <2>1, <2>2
<1>10. CASE Len(types) = 1
  <2>1. t = types[1] /\ t \in FunctionTypes
    BY <1>1, <1>3, <1>10
  <2>2. Suitable(types, call) = IF Suits(t, call) THEN {t} ELSE {}
    BY <1>1, <1>10, <2>1 DEF Suitable
  <2> QED
    BY <1>4, <1>7, <1>8, <2>1, <2>2
<1>11. CASE types # << >> /\ Len(types) # 1 /\ Cardinality(fitting) = 1
  <2>1. PICK k : fitting = {k}
    BY <1>5, <1>11
  <2>2. t = types[k]
    BY <1>3, <1>11, <2>1 DEF Only
  <2>3. t \in FunctionTypes /\ Suits(t, call) /\ Suitable(types, call) = {t}
    BY <1>1, <1>6, <2>1, <2>2, FittingPositions, ElementOf DEF fitting, Fitting
  <2> QED
    BY <1>4, <1>7, <1>8, <2>3
<1>12. CASE types # << >> /\ Len(types) # 1 /\ Cardinality(fitting) # 1
  <2>1. t = NoType
    BY <1>3, <1>12
  <2>2. Cardinality(Suitable(types, call)) # 1
    BY <1>5, <1>6, <1>7, <1>12
  <2> QED
    BY <1>4, <2>1, <2>2
<1> QED
  BY <1>9, <1>10, <1>11, <1>12

(* The overloads of a name differ in their texts.                          *)
THEOREM OverloadsDistinct == Spec => []Distinct(overloads)
<1>1. Init => Distinct(overloads)
  BY DEF Init, Distinct
<1>2. Distinct(overloads) /\ [Next]_overloads => Distinct(overloads)'
  <2> SUFFICES ASSUME Distinct(overloads), [Next]_overloads
               PROVE  Distinct(overloads')
    OBVIOUS
  <2>1. CASE UNCHANGED overloads
    BY <2>1
  <2>2. ASSUME NEW t \in FunctionTypes, AddOverload(t)
        PROVE  Distinct(overloads')
    <3>1. /\ overloads \in Seq(FunctionTypes) /\ overloads' = Append(overloads, t)
          /\ \A k \in DOMAIN overloads : ~SameText(overloads[k], t)
          /\ \A j, k \in DOMAIN overloads : SameText(overloads[j], overloads[k]) => j = k
      BY <2>2 DEF AddOverload, Distinct
    <3>2. /\ overloads' \in Seq(FunctionTypes)
          /\ \A k \in DOMAIN overloads' :
               \/ k \in DOMAIN overloads /\ overloads'[k] = overloads[k]
               \/ k = Len(overloads) + 1 /\ overloads'[k] = t
      BY <3>1
    <3>3. \A u, v : SameText(u, v) <=> SameText(v, u)
      BY DEF SameText
    <3> QED
      BY <3>1, <3>2, <3>3 DEF Distinct
  <2> QED
    BY <2>1, <2>2 DEF Next
<1> QED
  BY <1>1, <1>2, PTL DEF Spec

(* A call means the only overload its parameters suit, whatever their      *)
(* order; with none or several it is refused.                              *)
THEOREM OnlySuitableChosen == Spec => []ChosenIsTheOnlySuitable
<1>1. Distinct(overloads) => ChosenIsTheOnlySuitable
  BY ChosenAmong DEF ChosenIsTheOnlySuitable, Suitable
<1> QED
  BY <1>1, OverloadsDistinct, PTL

(* A call is never taken over by an overload declared later.               *)
THEOREM NobodyTakesOver == Spec => NeverTakenOver
<1>1. ASSUME Distinct(overloads), Distinct(overloads)', Next, NEW call \in Calls,
             Chosen(overloads, call) # NoType, Chosen(overloads', call) # NoType
      PROVE  Chosen(overloads', call) = Chosen(overloads, call)
  <2>1. PICK t \in FunctionTypes : AddOverload(t)
    BY <1>1 DEF Next
  <2>2. Suitable(overloads, call) \subseteq Suitable(overloads', call)
    <3>1. overloads \in Seq(FunctionTypes) /\ overloads' = Append(overloads, t)
      BY <1>1, <2>1 DEF AddOverload, Distinct
    <3>2. \A k \in DOMAIN overloads : k \in DOMAIN overloads' /\ overloads'[k] = overloads[k]
      BY <3>1
    <3> QED
      BY <3>2 DEF Suitable, Range
  <2>3. Suitable(overloads, call) = {Chosen(overloads, call)}
    BY <1>1, ChosenAmong
  <2>4. Suitable(overloads', call) = {Chosen(overloads', call)}
    BY <1>1, ChosenAmong
  <2> QED
    BY <2>2, <2>3, <2>4
<1>2. Distinct(overloads) /\ Distinct(overloads)' /\ [Next]_overloads =>
        [\A call \in Calls :
           Chosen(overloads, call) # NoType =>
             Chosen(overloads', call) \in {Chosen(overloads, call), NoType}]_overloads
  BY <1>1
<1> QED
  BY <1>2, OverloadsDistinct, PTL DEF Spec, NeverTakenOver

=============================================================================
