---------------------------- MODULE ContextLayout ----------------------------
(***************************************************************************)
(* The life of one context object: the type extractor fills it while it    *)
(* visits the body of a function (src/compiler/type/extractor/             *)
(* type_extractor.cpp), then the code generator adds temporaries while it  *)
(* visits the body again, and takes the number of names for the size of    *)
(* the frame (src/compiler/bytecode_generator.cpp).  The body may be any,  *)
(* so the declarations and the temporaries come in any order.              *)
(***************************************************************************)
EXTENDS TypeContext

CONSTANTS
  Idents,       \* names of variables and functions
  Types,        \* types they may have
  FunctionTypes, \* those of functions
  AnyType,      \* &TypeInfo::ANY, the type of temporaries
  IntType,      \* &TypeInfo::INT
  Literals,     \* int literals
  MaxSlots      \* bound: slots of a context

ASSUME TypesAssumption == {AnyType, IntType} \cup FunctionTypes \subseteq Types
ASSUME LiteralsAssumption == Literals \subseteq Nat
ASSUME MaxSlotsAssumption == MaxSlots \in Nat \ {0}

VARIABLES
  context,   \* the context object
  temps,     \* its temporaries: slot -> occupied
  phase,     \* "extracting", "generating", "finished" or "refused"
  size       \* operand of FN_ENTER, once finished

layout == <<context, temps, phase, size>>

HasRoom == context.indexCounter < MaxSlots

-----------------------------------------------------------------------------

(* ContextChain::push *)
Init ==
  /\ context = AddProperty(EmptyContext, ParentName, AnyType, FALSE)
  /\ temps = NoTemps
  /\ phase = "extracting"
  /\ size = 0

(* A variable or an argument (visitVariable, visitFunction), or a named    *)
(* function (visitNamedFunctions), which may be overloaded.                *)
Declared(type, overloadable) == overloadable => type \in FunctionTypes
Declare(name, type, overloadable) ==
  /\ phase = "extracting"
  /\ HasRoom
  /\ Declared(type, overloadable)
  /\ ~Refuses(context, name, type, overloadable)
  /\ context' = AddProperty(context, name, type, overloadable)
  /\ UNCHANGED <<temps, phase, size>>

RefuseDeclaration(name, type, overloadable) ==
  /\ phase = "extracting"
  /\ Declared(type, overloadable)
  /\ Refuses(context, name, type, overloadable)
  /\ phase' = "refused"
  /\ UNCHANGED <<context, temps, size>>

(* convertImmediateToLocalVariable *)
UseLiteral(data) ==
  /\ phase = "extracting"
  /\ HasRoom
  /\ context' = AddImmediate(context, IntType, "int", data)
  /\ UNCHANGED <<temps, phase, size>>

(* onFunctionEnter *)
StartGenerating ==
  /\ phase = "extracting"
  /\ phase' = "generating"
  /\ UNCHANGED <<context, temps, size>>

AllocTemp ==
  /\ phase = "generating"
  /\ HasRoom
  /\ context' = ContextWithTemp(context, temps, AnyType)
  /\ temps' = Occupy(temps, NextTemp(context, temps), TRUE)
  /\ UNCHANGED <<phase, size>>

ReleaseTemp(t) ==
  /\ phase = "generating"
  /\ t \in DOMAIN temps
  /\ temps[t]
  /\ temps' = Occupy(temps, t, FALSE)
  /\ UNCHANGED <<context, phase, size>>

(* visitFunction, on the way out *)
Finish ==
  /\ phase = "generating"
  /\ size' = PropertyCount(context)
  /\ phase' = "finished"
  /\ UNCHANGED <<context, temps>>

Next ==
  \/ \E ident \in Idents, type \in Types, overloadable \in BOOLEAN :
       \/ Declare(SourceName(ident), type, overloadable)
       \/ RefuseDeclaration(SourceName(ident), type, overloadable)
  \/ \E data \in Literals : UseLiteral(data)
  \/ StartGenerating
  \/ AllocTemp
  \/ \E t \in DOMAIN temps : ReleaseTemp(t)
  \/ Finish

Spec == Init /\ [][Next]_layout

-----------------------------------------------------------------------------
(* Reading a context *)

Names == DOMAIN context.properties
SlotAt(n, k) == context.properties[n][k].index

IsTempName(n) == n[1] = "temp"
NoOverloads == \A n \in Names : Len(context.properties[n]) = 1

NameType == {SourceName(ident) : ident \in Idents \cup {"$parent"}}
              \cup {ImmediateName("int", data) : data \in Literals}
              \cup {TempName(k) : k \in 0 .. MaxSlots}
Overload == [type : Types, index : Nat]

LayoutTypeOK ==
  /\ Names \subseteq NameType
  /\ \A n \in Names : context.properties[n] \in Seq(Overload) /\ context.properties[n] # << >>
  /\ context.indexCounter \in 1 .. MaxSlots
  /\ DOMAIN temps \subseteq 1 .. MaxSlots
  /\ \A t \in DOMAIN temps : temps[t] \in BOOLEAN
  /\ phase \in {"extracting", "generating", "finished", "refused"}
  /\ size \in Nat

-----------------------------------------------------------------------------
(* Invariants *)

(* Two declarations never share a slot, overloads of one name included.    *)
SlotsDistinct ==
  \A m, n \in Names :
    \A j \in DOMAIN context.properties[m], k \in DOMAIN context.properties[n] :
      SlotAt(m, j) = SlotAt(n, k) => m = n /\ j = k

(* Slots are numbered without gaps, and the parent has the first one: the  *)
(* engines find it there without looking at the context.                   *)
SlotsDense ==
  /\ \A n \in Names : \A k \in DOMAIN context.properties[n] :
       SlotAt(n, k) < context.indexCounter
  /\ \A s \in 0 .. context.indexCounter - 1 :
       \E n \in Names : \E k \in DOMAIN context.properties[n] : SlotAt(n, k) = s
  /\ ParentName \in Names
  /\ SlotAt(ParentName, 1) = 0

(* A call finds its overload by type when code is generated, long after    *)
(* the extractor chose it: types of the overloads of a name must differ.   *)
OverloadsDiffer ==
  \A n \in Names : \A j, k \in DOMAIN context.properties[n] :
    SameType(context.properties[n][j].type, context.properties[n][k].type) => j = k

(* A temporary, free or occupied, is nothing but a temporary, so computing *)
(* an operand cannot overwrite a variable or a literal.                    *)
TemporariesPrivate ==
  \A n \in Names : \A k \in DOMAIN context.properties[n] :
    SlotAt(n, k) \in DOMAIN temps <=> IsTempName(n)

(* A frame holds every slot that was given out, if no name is overloaded.  *)
FrameHoldsPlainSlots ==
  phase = "finished" /\ NoOverloads => size = context.indexCounter

(* The same for every function.  The comment on FN_ENTER                   *)
(* (bytecode_generator.cpp:247) promises a frame with room for its values. *)
FrameHoldsSlots == phase = "finished" => size >= context.indexCounter

-----------------------------------------------------------------------------
(* The slots given out so far, as a SlotTable. *)

Declarations == NameType \X {TextOf(type) : type \in Types}

PlaceOf(s) ==
  CHOOSE place \in UNION {{n} \X DOMAIN context.properties[n] : n \in Names} :
    SlotAt(place[1], place[2]) = s

Declaration(place) ==
  <<place[1], TextOf(context.properties[place[1]][place[2]].type)>>

Owners == [k \in 1 .. context.indexCounter |-> Declaration(PlaceOf(k - 1))]

Table == INSTANCE SlotTable WITH owner <- Owners

(* Whatever is declared, in whatever order, slots are given out one after  *)
(* the other and stay with the declaration they were given to.             *)
ImplementsSlotTable == Table!Spec

=============================================================================
