----------------------------- MODULE TypeContext -----------------------------
(***************************************************************************)
(* The properties of a context object (TypeInfo::Impl in                   *)
(* src/compiler/type/type.cpp): which slot of the frame every variable,    *)
(* function, literal and temporary of a function has.                      *)
(*                                                                         *)
(* A context is a record                                                   *)
(*   properties     name -> its overloads, each a type and a slot, in the  *)
(*                  order in which they were added; a name that may not be *)
(*                  overloaded has one                                     *)
(*   indexCounter   the next slot                                          *)
(*   immediates     the literals of the function, in order of appearance   *)
(*   typeArguments  the type parameters of the function                    *)
(*                                                                         *)
(* The code builds the names of literals and temporaries from text, with a *)
(* $ no source name has; here a name says of which sort it is.             *)
(***************************************************************************)
EXTENDS Naturals, Sequences, FiniteSets

CONSTANT TextOf(_)       \* TypeInfo::toString, what equality of types looks at

SourceName(ident) == <<"source", ident, 0>>
ImmediateName(typeName, data) == <<"immediate", typeName, data>>
TempName(k) == <<"temp", "$temp", k>>
ParentName == SourceName("$parent")

(* Broken: slot 0 is left out. *)
EmptyContextFromOne ==
  [properties |-> [n \in {} |-> << >>], indexCounter |-> 1,
   immediates |-> << >>, typeArguments |-> << >>]

EmptyContext ==
  [properties |-> [n \in {} |-> << >>], indexCounter |-> 0,
   immediates |-> << >>, typeArguments |-> << >>]

-----------------------------------------------------------------------------
(* Properties *)

Knows(c, name) == name \in DOMAIN c.properties
Overloads(c, name) == c.properties[name]
FirstOverload(c, name) == Overloads(c, name)[1]

SameType(t, u) == TextOf(t) = TextOf(u)
HasOverload(overloads, type) == \E k \in DOMAIN overloads : SameType(overloads[k].type, type)

(* indexOfOverloadOrMinusOne, for an overload there is. *)
IndexOfOverload(overloads, type) ==
  overloads[CHOOSE k \in DOMAIN overloads :
              /\ SameType(overloads[k].type, type)
              /\ \A j \in 1 .. k - 1 : ~SameType(overloads[j].type, type)].index

(* Broken: only the first overload is looked at. *)
RefusesFirst(c, name, type, overloadable) ==
  Knows(c, name) /\ (overloadable <=> SameType(FirstOverload(c, name).type, type))

(* addProperty throws when a function of this type has the name already, or *)
(* when the name is that of something else.                                *)
Refuses(c, name, type, overloadable) ==
  /\ Knows(c, name)
  /\ IF overloadable THEN HasOverload(Overloads(c, name), type)
     ELSE ~SameType(FirstOverload(c, name).type, type)

NextSlot(c, type) == [type |-> type, index |-> c.indexCounter]
(* Broken: an overload gets the slot that is next all the same. *)
GrownTwice(c, name, overloads) ==
  [c EXCEPT !.properties = [n \in DOMAIN c.properties \cup {name} |->
                              IF n = name THEN overloads ELSE c.properties[n]],
            !.indexCounter = IF Len(overloads) > 1 THEN @ ELSE @ + 1]

Grown(c, name, overloads) ==
  [c EXCEPT !.properties = [n \in DOMAIN c.properties \cup {name} |->
                              IF n = name THEN overloads ELSE c.properties[n]],
            !.indexCounter = @ + 1]

(* Broken: a second declaration of a variable is an overload. *)
AddPropertyAgain(c, name, type, overloadable) ==
  IF ~Knows(c, name) THEN Grown(c, name, <<NextSlot(c, type)>>)
  ELSE Grown(c, name, Append(Overloads(c, name), NextSlot(c, type)))

(* addProperty where it does not throw: a second declaration of a variable *)
(* is the first one.                                                       *)
AddProperty(c, name, type, overloadable) ==
  IF ~Knows(c, name) THEN Grown(c, name, <<NextSlot(c, type)>>)
  ELSE IF overloadable THEN Grown(c, name, Append(Overloads(c, name), NextSlot(c, type)))
  ELSE c
IndexAdded(c, name, overloadable) ==
  IF Knows(c, name) /\ ~overloadable THEN FirstOverload(c, name).index ELSE c.indexCounter

(* addImmediate, unless the context has the literal. *)
AddImmediate(c, type, typeName, data) ==
  IF Knows(c, ImmediateName(typeName, data)) THEN c
  ELSE [AddProperty(c, ImmediateName(typeName, data), type, FALSE) EXCEPT
          !.immediates = Append(@, [type |-> type, typeName |-> typeName, data |-> data])]

(* Broken: the slot of the parent is not counted. *)
PropertyCountWithoutParent(c) == Cardinality(DOMAIN c.properties \ {ParentName})

(* The size a frame gets: the number of names. *)
PropertyCount(c) == Cardinality(DOMAIN c.properties)

-----------------------------------------------------------------------------
(* TempVariableAllocator.  temps: slot -> is it occupied. *)

NoTemps == [t \in {} |-> FALSE]
FreeTemps(temps) == {t \in DOMAIN temps : ~temps[t]}
LowestFree(temps) == CHOOSE t \in FreeTemps(temps) : \A u \in FreeTemps(temps) : t <= u

(* Broken: temporaries are numbered on their own. *)
NextTempByCount(c, temps) ==
  IF FreeTemps(temps) # {} THEN LowestFree(temps) ELSE Cardinality(DOMAIN temps)

(* alloc: the lowest free temporary, or else a new slot. *)
NextTemp(c, temps) == IF FreeTemps(temps) # {} THEN LowestFree(temps) ELSE c.indexCounter
ContextWithTemp(c, temps, type) ==
  IF FreeTemps(temps) # {} THEN c
  ELSE AddProperty(c, TempName(Cardinality(DOMAIN temps)), type, FALSE)
Occupy(temps, t, occupied) ==
  [u \in DOMAIN temps \cup {t} |-> IF u = t THEN occupied ELSE temps[u]]

=============================================================================
