-------------------------- MODULE ContextLayout_proof --------------------------
(***************************************************************************)
(* What ContextLayout promises holds for any names, types and literals and *)
(* for contexts of any size.                                               *)
(***************************************************************************)
EXTENDS ContextLayout, FunctionTheorems, FiniteSetTheorems, SequenceTheorems,
        WellFoundedInduction, TLAPS

IsContext(c) ==
  /\ DOMAIN c = {"properties", "indexCounter", "immediates", "typeArguments"}
  /\ c.indexCounter \in Nat
  /\ \A n \in DOMAIN c.properties : c.properties[n] \in Seq(Overload)

(* The temporaries are named by consecutive numbers. *)
TempsCounted ==
  /\ temps \in [DOMAIN temps -> BOOLEAN]
  /\ IsFiniteSet(DOMAIN temps)
  /\ DOMAIN temps \subseteq 1 .. context.indexCounter - 1
  /\ \A k \in Nat : TempName(k) \in Names <=> k < Cardinality(DOMAIN temps)

SizeCounted == phase = "finished" => size = PropertyCount(context)

(* The inductive invariant: a new slot is distinct from all others because *)
(* they are dense, a new temporary has a new name because the temporaries  *)
(* are counted.                                                            *)
Layout ==
  /\ IsContext(context)
  /\ LayoutTypeOK
  /\ SlotsDistinct
  /\ SlotsDense
  /\ OverloadsDiffer
  /\ TemporariesPrivate
  /\ TempsCounted
  /\ SizeCounted

-----------------------------------------------------------------------------
(* A context that has grown *)

(* d is c with one more declaration, the K-th of its name, behind all      *)
(* others and of a type that no other of this name has.                    *)
GrewBy(c, d, name, K, type) ==
  /\ IsContext(d)
  /\ DOMAIN d.properties = DOMAIN c.properties \cup {name}
  /\ \A n \in DOMAIN c.properties : \A k \in DOMAIN c.properties[n] :
       k \in DOMAIN d.properties[n] /\ d.properties[n][k] = c.properties[n][k]
  /\ \A n \in DOMAIN d.properties : \A k \in DOMAIN d.properties[n] :
       \/ n \in DOMAIN c.properties /\ k \in DOMAIN c.properties[n]
       \/ n = name /\ k = K
  /\ K \in DOMAIN d.properties[name]
  /\ name \in DOMAIN c.properties =>
       /\ K \notin DOMAIN c.properties[name]
       /\ \A j \in DOMAIN c.properties[name] : ~SameType(c.properties[name][j].type, type)
  /\ d.properties[name][K] = [type |-> type, index |-> c.indexCounter]
  /\ d.indexCounter = c.indexCounter + 1

(* Numbers have a smallest one among them. *)
LEMMA SmallestExists ==
  ASSUME NEW F \in SUBSET Nat, F # {}
  PROVE  \E t \in F : \A u \in F : t <= u
<1> DEFINE R == OpToRel(<, Nat)
<1>1. IsWellFoundedOn(R, Nat)
  BY NatLessThanWellFounded
<1>2. R = {ss \in Nat \X Nat : ss[1] < ss[2]}
  BY DEF OpToRel
<1> HIDE DEF R
<1>3. PICK t \in F : \A u \in F : ~(<<u, t>> \in R)
  BY <1>1, WFMin
<1>4. ASSUME NEW u \in F
      PROVE  t <= u
  <2>1. u < t => <<u, t>> \in R
    BY <1>2
  <2> QED
    BY <1>3, <2>1
<1> QED
  BY <1>4

(* A context grows by the first declaration of a name. *)
LEMMA GrowsByName ==
  ASSUME NEW c, IsContext(c), NEW name, ~Knows(c, name), NEW type \in Types
  PROVE  GrewBy(c, Grown(c, name, <<NextSlot(c, type)>>), name, 1, type)
<1> DEFINE new == NextSlot(c, type)
           d == Grown(c, name, <<new>>)
<1>1. new \in Overload /\ new = [type |-> type, index |-> c.indexCounter]
  BY DEF IsContext, NextSlot, Overload
<1>2. /\ d.properties = [n \in DOMAIN c.properties \cup {name} |->
                           IF n = name THEN <<new>> ELSE c.properties[n]]
      /\ d.indexCounter = c.indexCounter + 1
      /\ DOMAIN d = DOMAIN c
  BY DEF IsContext, Grown
<1> HIDE DEF d, new
<1>3. <<new>> \in Seq(Overload) /\ DOMAIN <<new>> = {1} /\ <<new>>[1] = new
  BY <1>1
<1>4. \A n \in DOMAIN c.properties : n # name /\ d.properties[n] = c.properties[n]
  BY <1>2 DEF Knows
<1>5. d.properties[name] = <<new>>
  BY <1>2
<1>6. IsContext(d)
  BY <1>2, <1>3, <1>4, <1>5 DEF IsContext
<1> QED
  BY <1>1, <1>2, <1>3, <1>4, <1>5, <1>6 DEF GrewBy, Knows, d, new

(* A context grows by another overload of a name. *)
LEMMA GrowsByOverload ==
  ASSUME NEW c, IsContext(c), NEW name, Knows(c, name), NEW type \in Types,
         ~HasOverload(Overloads(c, name), type)
  PROVE  \E K : GrewBy(c, Grown(c, name, Append(Overloads(c, name), NextSlot(c, type))),
                       name, K, type)
<1> DEFINE new == NextSlot(c, type)
           old == Overloads(c, name)
           both == Append(old, new)
           d == Grown(c, name, both)
           K == Len(old) + 1
<1>1. new \in Overload /\ new = [type |-> type, index |-> c.indexCounter]
  BY DEF IsContext, NextSlot, Overload
<1>2. /\ d.properties = [n \in DOMAIN c.properties \cup {name} |->
                           IF n = name THEN both ELSE c.properties[n]]
      /\ d.indexCounter = c.indexCounter + 1
      /\ DOMAIN d = DOMAIN c
  BY DEF IsContext, Grown
<1>3. old = c.properties[name] /\ name \in DOMAIN c.properties /\ old \in Seq(Overload)
  BY DEF IsContext, Overloads, Knows
<1>4. \A j \in DOMAIN old : ~SameType(old[j].type, type)
  BY DEF HasOverload
<1> HIDE DEF d, new, old
<1>5. /\ both \in Seq(Overload)
      /\ DOMAIN both = 1 .. K
      /\ DOMAIN old = 1 .. K - 1
      /\ K \in Nat
      /\ both[K] = new
      /\ \A k \in DOMAIN old : both[k] = old[k]
  BY <1>1, <1>3, AppendProperties
<1>6. \A n \in DOMAIN c.properties : n # name => d.properties[n] = c.properties[n]
  BY <1>2
<1>7. d.properties[name] = both
  BY <1>2
<1> HIDE DEF both
<1>8. IsContext(d)
  BY <1>2, <1>5, <1>6, <1>7 DEF IsContext
<1>9. K \in DOMAIN both /\ K \notin DOMAIN old /\ DOMAIN both = DOMAIN old \cup {K}
  BY <1>5
<1> HIDE DEF K
<1>10. DOMAIN d.properties = DOMAIN c.properties
  BY <1>2, <1>3
<1>11. GrewBy(c, d, name, K, type)
  BY <1>1, <1>2, <1>3, <1>4, <1>5, <1>6, <1>7, <1>8, <1>9, <1>10 DEF GrewBy
<1> QED
  BY <1>11 DEF d, both, old, new

(* Every declaration that is not refused leaves the context alone or grows *)
(* it.                                                                     *)
LEMMA DeclarationGrows ==
  ASSUME NEW c, IsContext(c), NEW name, NEW type \in Types, NEW overloadable \in BOOLEAN,
         ~Refuses(c, name, type, overloadable)
  PROVE  \/ AddProperty(c, name, type, overloadable) = c
         \/ \E K : GrewBy(c, AddProperty(c, name, type, overloadable), name, K, type)
<1>1. CASE ~Knows(c, name)
  BY <1>1, GrowsByName DEF AddProperty
<1>2. CASE Knows(c, name) /\ overloadable
  BY <1>2, GrowsByOverload DEF AddProperty, Refuses
<1>3. CASE Knows(c, name) /\ ~overloadable
  BY <1>3 DEF AddProperty
<1> QED
  BY <1>1, <1>2, <1>3

-----------------------------------------------------------------------------
(* What growth does to the invariants *)

(* A declaration that is there has a slot below the counter. *)
LEMMA SlotBounds ==
  ASSUME IsContext(context), SlotsDense, NEW n \in Names, NEW k \in DOMAIN context.properties[n]
  PROVE  /\ context.properties[n][k] \in Overload
         /\ SlotAt(n, k) \in Nat
         /\ SlotAt(n, k) < context.indexCounter
         /\ context.indexCounter \in Nat
<1>1. context.properties[n] \in Seq(Overload)
  BY DEF IsContext, Names
<1>2. context.properties[n][k] \in Overload
  BY <1>1, ElementOfSeq, LenProperties
<1> QED
  BY <1>2 DEF SlotAt, Overload, SlotsDense, IsContext

(* The new declaration has the next slot, which is above all others.       *)
LEMMA SlotsStayDistinct ==
  ASSUME IsContext(context), SlotsDistinct, SlotsDense,
         NEW name, NEW K, NEW type, GrewBy(context, context', name, K, type)
  PROVE  SlotsDistinct'
<1> SUFFICES ASSUME NEW m \in Names', NEW n \in Names',
                    NEW j \in DOMAIN context'.properties[m], NEW k \in DOMAIN context'.properties[n],
                    context'.properties[m][j].index = context'.properties[n][k].index
             PROVE  m = n /\ j = k
  BY DEF SlotsDistinct, SlotAt, Names
<1> DEFINE Old(a, i) == a \in Names /\ i \in DOMAIN context.properties[a]
           New(a, i) == a = name /\ i = K
           Slot(a, i) == context'.properties[a][i].index
<1>1. (Old(m, j) \/ New(m, j)) /\ (Old(n, k) \/ New(n, k))
  BY DEF GrewBy, Names
<1>2. ASSUME NEW a, NEW i, Old(a, i)
      PROVE  Slot(a, i) = SlotAt(a, i) /\ SlotAt(a, i) # context.indexCounter
  BY <1>2, SlotBounds DEF GrewBy, Names, SlotAt
<1>3. Slot(name, K) = context.indexCounter
  BY DEF GrewBy
<1>4. CASE Old(m, j) /\ Old(n, k)
  BY <1>2, <1>4 DEF SlotsDistinct
<1>5. CASE New(m, j) /\ New(n, k)
  BY <1>5
<1>6. ~(Old(m, j) /\ New(n, k)) /\ ~(New(m, j) /\ Old(n, k))
  BY <1>2, <1>3
<1> QED
  BY <1>1, <1>4, <1>5, <1>6

(* The next slot is where the numbering goes on.                           *)
LEMMA SlotsStayDense ==
  ASSUME IsContext(context), LayoutTypeOK, SlotsDense,
         NEW name, NEW K, NEW type, GrewBy(context, context', name, K, type)
  PROVE  SlotsDense'
<1> DEFINE P == context.properties
           Q == context'.properties
           N == context.indexCounter
<1>1. N \in Nat /\ context'.indexCounter = N + 1 /\ Names \subseteq Names'
  BY DEF IsContext, GrewBy, Names
<1>2. ASSUME NEW n \in Names, NEW k \in DOMAIN P[n]
      PROVE  n \in Names' /\ k \in DOMAIN Q[n] /\ Q[n][k].index = P[n][k].index
  BY <1>2 DEF GrewBy, Names
<1>3. name \in Names' /\ K \in DOMAIN Q[name] /\ Q[name][K].index = N
  BY DEF GrewBy, Names
<1>4. ASSUME NEW n \in Names', NEW k \in DOMAIN Q[n]
      PROVE  Q[n][k].index < N + 1
  <2>1. CASE n \in Names /\ k \in DOMAIN P[n]
    BY <1>1, <1>2, <2>1, SlotBounds DEF SlotAt
  <2>2. CASE n = name /\ k = K
    BY <1>1, <1>3, <2>2
  <2> QED
    BY <1>4, <2>1, <2>2 DEF GrewBy, Names
<1>5. ASSUME NEW s \in 0 .. N
      PROVE  \E n \in Names' : \E k \in DOMAIN Q[n] : Q[n][k].index = s
  <2>1. CASE s = N
    BY <1>3, <2>1
  <2>2. CASE s \in 0 .. N - 1
    <3>1. PICK n \in Names : \E k \in DOMAIN P[n] : P[n][k].index = s
      BY <2>2 DEF SlotsDense, SlotAt
    <3>2. PICK k \in DOMAIN P[n] : P[n][k].index = s
      BY <3>1
    <3> QED
      BY <1>2, <3>2
  <2> QED
    BY <1>1, <2>1, <2>2
<1>6. ParentName \in Names /\ P[ParentName][1].index = 0
  BY DEF SlotsDense, SlotAt
<1>7. Q[ParentName][1].index = 0
  <2>1. P[ParentName] \in Seq(Overload) /\ P[ParentName] # << >>
    BY <1>6 DEF LayoutTypeOK
  <2>2. 1 \in DOMAIN P[ParentName]
    BY <2>1, EmptySeq, LenProperties
  <2> QED
    BY <1>2, <1>6, <2>2
<1> QED
  BY <1>1, <1>4, <1>5, <1>6, <1>7 DEF SlotsDense, SlotAt, Names

(* Growth brings in no type its name has already.                          *)
LEMMA OverloadsStayDifferent ==
  ASSUME IsContext(context), OverloadsDiffer,
         NEW name, NEW K, NEW type, GrewBy(context, context', name, K, type)
  PROVE  OverloadsDiffer'
<1> DEFINE P == context.properties
           Q == context'.properties
<1> SUFFICES ASSUME NEW n \in Names', NEW j \in DOMAIN Q[n], NEW k \in DOMAIN Q[n],
                    SameType(Q[n][j].type, Q[n][k].type)
             PROVE  j = k
  BY DEF OverloadsDiffer
<1>1. Q[name][K].type = type
  BY DEF GrewBy
<1>2. ASSUME NEW i \in DOMAIN Q[n], ~(n = name /\ i = K)
      PROVE  n \in Names /\ i \in DOMAIN P[n] /\ Q[n][i] = P[n][i]
  BY <1>2 DEF GrewBy, Names
<1>3. CASE n = name /\ (j = K \/ k = K)
  <2>1. ASSUME NEW i \in DOMAIN Q[n], i # K
        PROVE  ~SameType(Q[n][i].type, type)
    BY <1>2, <1>3, <2>1 DEF GrewBy, Names
  <2> QED
    BY <1>1, <1>3, <2>1 DEF SameType
<1>4. CASE ~(n = name /\ (j = K \/ k = K))
  BY <1>2, <1>4 DEF OverloadsDiffer
<1> QED
  BY <1>3, <1>4

(* Where the declarations are after growth: the old ones where they were,  *)
(* the new one in the slot that was next.                                  *)
LEMMA OldSlots ==
  ASSUME IsContext(context), SlotsDense,
         NEW name, NEW K, NEW type, GrewBy(context, context', name, K, type),
         NEW n \in Names', NEW k \in DOMAIN context'.properties[n], ~(n = name /\ k = K)
  PROVE  /\ n \in Names
         /\ k \in DOMAIN context.properties[n]
         /\ SlotAt(n, k)' = SlotAt(n, k)
         /\ SlotAt(n, k) \in 0 .. context.indexCounter - 1
<1>1. n \in Names /\ k \in DOMAIN context.properties[n]
  BY DEF GrewBy, Names
<1>2. SlotAt(n, k)' = SlotAt(n, k)
  BY <1>1 DEF GrewBy, Names, SlotAt
<1> QED
  BY <1>1, <1>2, SlotBounds

(* The new declaration is in the context, in the slot that was next.       *)
LEMMA NewSlot ==
  ASSUME NEW name, NEW K, NEW type, GrewBy(context, context', name, K, type)
  PROVE  /\ name \in Names'
         /\ K \in DOMAIN context'.properties[name]
         /\ SlotAt(name, K)' = context.indexCounter
BY DEF GrewBy, Names, SlotAt

(* Growth keeps types, and keeps within the bound when there was room.     *)
LEMMA TypesStay ==
  ASSUME IsContext(context), LayoutTypeOK, HasRoom,
         NEW name \in NameType, NEW K, NEW type, GrewBy(context, context', name, K, type),
         temps' \in [DOMAIN temps' -> BOOLEAN], DOMAIN temps' \subseteq 1 .. MaxSlots,
         UNCHANGED <<phase, size>>
  PROVE  LayoutTypeOK'
<1>1. Names' \subseteq NameType
  BY DEF GrewBy, Names, LayoutTypeOK
<1>2. ASSUME NEW n \in Names'
      PROVE  /\ context'.properties[n] \in Seq(Overload)
             /\ context'.properties[n] # << >>
  <2>1. context'.properties[n] \in Seq(Overload)
    BY DEF GrewBy, IsContext, Names
  <2>2. CASE n = name
    BY <2>1, <2>2, EmptySeq, LenProperties DEF GrewBy
  <2>3. CASE n \in Names
    <3>1. context.properties[n] \in Seq(Overload) /\ context.properties[n] # << >>
      BY <2>3 DEF LayoutTypeOK
    <3>2. 1 \in DOMAIN context.properties[n]
      BY <3>1, EmptySeq, LenProperties
    <3>3. 1 \in DOMAIN context'.properties[n]
      BY <2>3, <3>2 DEF GrewBy, Names
    <3> QED
      BY <2>1, <3>3, EmptySeq, LenProperties
  <2> QED
    BY <2>1, <2>2, <2>3 DEF GrewBy, Names
<1>3. context'.indexCounter \in 1 .. MaxSlots
  BY MaxSlotsAssumption DEF GrewBy, LayoutTypeOK, HasRoom
<1>4. phase' = phase /\ size' = size
  OBVIOUS
<1> QED
  BY <1>1, <1>2, <1>3, <1>4 DEF LayoutTypeOK

(* The declarations of a function, its literals and arguments included. *)
LEMMA DeclarationKeepsLayout ==
  ASSUME Layout, NEW name \in NameType, ~IsTempName(name), NEW K, NEW type,
         GrewBy(context, context', name, K, type), HasRoom,
         phase = "extracting", UNCHANGED <<temps, phase, size>>
  PROVE  Layout'
<1> USE DEF Layout
<1>1. IsContext(context)'
  BY DEF GrewBy, IsContext
<1>2. LayoutTypeOK'
  <2>1. temps' = temps
    OBVIOUS
  <2>2. temps \in [DOMAIN temps -> BOOLEAN] /\ DOMAIN temps \subseteq 1 .. MaxSlots
    BY DEF LayoutTypeOK, TempsCounted
  <2> QED
    BY <2>1, <2>2, TypesStay
<1>3. SlotsDistinct' /\ SlotsDense' /\ OverloadsDiffer'
  BY SlotsStayDistinct, SlotsStayDense, OverloadsStayDifferent
<1>4. TemporariesPrivate'
  BY OldSlots, NewSlot DEF TemporariesPrivate, TempsCounted
<1>5. TempsCounted'
  <2>1. context'.indexCounter = context.indexCounter + 1 /\ context.indexCounter \in Nat
    BY DEF GrewBy, IsContext
  <2>2. DOMAIN temps \subseteq 1 .. context'.indexCounter - 1
    BY <2>1 DEF TempsCounted
  <2>3. \A k \in Nat : TempName(k) \in Names' <=> TempName(k) \in Names
    BY DEF GrewBy, Names, IsTempName, TempName
  <2> QED
    BY <2>2, <2>3 DEF TempsCounted
<1>6. SizeCounted'
  BY DEF SizeCounted
<1> QED
  BY <1>1, <1>2, <1>3, <1>4, <1>5, <1>6

(* A literal is a declaration that is also listed. *)
LEMMA ListingKeepsGrowth ==
  ASSUME NEW c, NEW d, NEW name, NEW K, NEW type, GrewBy(c, d, name, K, type), NEW list
  PROVE  GrewBy(c, [d EXCEPT !.immediates = list], name, K, type)
<1> DEFINE e == [d EXCEPT !.immediates = list]
<1>1. e.properties = d.properties /\ e.indexCounter = d.indexCounter /\ DOMAIN e = DOMAIN d
  BY DEF GrewBy, IsContext
<1> HIDE DEF e
<1>2. IsContext(e)
  BY <1>1 DEF GrewBy, IsContext
<1>3. GrewBy(c, e, name, K, type)
  BY <1>1, <1>2 DEF GrewBy
<1> QED
  BY <1>3 DEF e

(* A literal is listed once, when it is first met.                         *)
LEMMA ImmediateGrows ==
  ASSUME IsContext(context), NEW data \in Literals
  PROVE  LET d == AddImmediate(context, IntType, "int", data)
         IN  \/ d = context
             \/ \E K : GrewBy(context, d, ImmediateName("int", data), K, IntType)
<1> DEFINE name == ImmediateName("int", data)
           added == AddProperty(context, name, IntType, FALSE)
<1>1. CASE Knows(context, name)
  BY <1>1 DEF AddImmediate
<1>2. CASE ~Knows(context, name)
  <2>1. GrewBy(context, added, name, 1, IntType)
    BY <1>2, GrowsByName, TypesAssumption DEF AddProperty
  <2>2. PICK list : AddImmediate(context, IntType, "int", data)
                      = [added EXCEPT !.immediates = list]
    BY <1>2 DEF AddImmediate
  <2>3. GrewBy(context, [added EXCEPT !.immediates = list], name, 1, IntType)
    BY <2>1, ListingKeepsGrowth
  <2> QED
    BY <2>2, <2>3
<1> QED
  BY <1>1, <1>2

-----------------------------------------------------------------------------
(* Temporaries *)

(* There are no more temporaries than slots.                               *)
LEMMA TempsAreFew ==
  ASSUME Layout
  PROVE  Cardinality(DOMAIN temps) \in 0 .. MaxSlots
<1>1. IsFiniteSet(1 .. MaxSlots) /\ Cardinality(1 .. MaxSlots) = MaxSlots
  BY FS_Interval, MaxSlotsAssumption
<1>2. DOMAIN temps \in SUBSET (1 .. MaxSlots)
  BY DEF Layout, LayoutTypeOK
<1>3. Cardinality(DOMAIN temps) <= MaxSlots /\ Cardinality(DOMAIN temps) \in Nat
  BY <1>1, <1>2, FS_Subset, FS_CardinalityType
<1> QED
  BY <1>3, MaxSlotsAssumption

(* A free temporary is found when there is one. *)
LEMMA LowestFreeIsFree ==
  ASSUME Layout, FreeTemps(temps) # {}
  PROVE  LowestFree(temps) \in FreeTemps(temps)
<1>1. FreeTemps(temps) \in SUBSET Nat
  BY DEF Layout, LayoutTypeOK, FreeTemps
<1>2. \E t \in FreeTemps(temps) : \A u \in FreeTemps(temps) : t <= u
  BY <1>1, SmallestExists
<1> QED
  BY <1>2 DEF LowestFree

(* Taking and releasing a temporary there is changes neither the context   *)
(* nor which slots are temporaries.                                        *)
LEMMA OccupyingKeepsLayout ==
  ASSUME Layout, NEW t \in DOMAIN temps, NEW occupied \in BOOLEAN,
         temps' = Occupy(temps, t, occupied), UNCHANGED <<context, phase, size>>
  PROVE  Layout'
<1>1. DOMAIN temps' = DOMAIN temps /\ temps' \in [DOMAIN temps -> BOOLEAN]
  BY DEF Occupy, Layout, TempsCounted
<1>2. context' = context /\ phase' = phase /\ size' = size
  OBVIOUS
<1>3. IsContext(context)' /\ SlotsDistinct' /\ SlotsDense' /\ OverloadsDiffer' /\ SizeCounted'
  BY <1>2 DEF Layout, SlotsDistinct, SlotsDense, OverloadsDiffer, SizeCounted, Names, SlotAt
<1>4. LayoutTypeOK' /\ TemporariesPrivate' /\ TempsCounted'
  BY <1>1, <1>2 DEF Layout, LayoutTypeOK, TemporariesPrivate, TempsCounted, Names, SlotAt
<1> QED
  BY <1>3, <1>4 DEF Layout

(* A new temporary: the name is new because the temporaries are counted,   *)
(* and the slot the table of temporaries gets is the one the name gets.    *)
LEMMA NewTempKeepsLayout ==
  ASSUME Layout, HasRoom, phase = "generating",
         NEW name, name = TempName(Cardinality(DOMAIN temps)),
         GrewBy(context, context', name, 1, AnyType),
         temps' = Occupy(temps, context.indexCounter, TRUE),
         UNCHANGED <<phase, size>>
  PROVE  Layout'
<1> USE DEF Layout
<1> DEFINE T == DOMAIN temps
           N == context.indexCounter
<1>1. N \in 1 .. MaxSlots /\ N < MaxSlots /\ MaxSlots \in Nat /\ context'.indexCounter = N + 1
  BY MaxSlotsAssumption DEF LayoutTypeOK, HasRoom, GrewBy
<1>2. /\ DOMAIN temps' = T \cup {N}
      /\ temps' \in [T \cup {N} -> BOOLEAN]
  BY DEF Occupy, TempsCounted
<1>3. T \subseteq 1 .. N - 1 /\ N \notin T
  BY <1>1 DEF TempsCounted
<1>4. name \in NameType /\ IsTempName(name)
  BY TempsAreFew DEF NameType, TempName, IsTempName
<1>5. IsContext(context)'
  BY DEF GrewBy, IsContext
<1>6. LayoutTypeOK'
  <2>1. temps' \in [DOMAIN temps' -> BOOLEAN]
    BY <1>2
  <2>2. DOMAIN temps' \subseteq 1 .. MaxSlots
    <3>1. T \subseteq 1 .. MaxSlots /\ N \in 1 .. MaxSlots
      BY <1>1 DEF LayoutTypeOK
    <3> QED
      BY <1>2, <3>1
  <2> QED
    BY <1>4, <2>1, <2>2, TypesStay
<1>7. SlotsDistinct' /\ SlotsDense' /\ OverloadsDiffer'
  BY SlotsStayDistinct, SlotsStayDense, OverloadsStayDifferent
<1>8. TemporariesPrivate'
  <2> SUFFICES ASSUME NEW n \in Names', NEW k \in DOMAIN context'.properties[n]
               PROVE  SlotAt(n, k)' \in T \cup {N} <=> IsTempName(n)
    BY <1>2 DEF TemporariesPrivate
  <2>1. CASE n = name /\ k = 1
    BY <1>4, <2>1, NewSlot
  <2>2. CASE ~(n = name /\ k = 1)
    <3>1. /\ n \in Names /\ k \in DOMAIN context.properties[n]
          /\ SlotAt(n, k)' = SlotAt(n, k)
          /\ SlotAt(n, k) \in 0 .. N - 1
      BY <2>2, OldSlots
    <3>2. SlotAt(n, k) # N
      BY <1>1, <3>1
    <3> QED
      BY <3>1, <3>2 DEF TemporariesPrivate
  <2> QED
    BY <2>1, <2>2
<1>9. TempsCounted'
  <2>1. IsFiniteSet(T \cup {N}) /\ Cardinality(T \cup {N}) = Cardinality(T) + 1
    BY <1>3, FS_AddElement DEF TempsCounted
  <2>2. Cardinality(T) \in Nat
    BY TempsAreFew
  <2>3. ASSUME NEW k \in Nat
        PROVE  TempName(k) \in Names' <=> TempName(k) \in Names \/ k = Cardinality(T)
    BY DEF GrewBy, Names, TempName
  <2>4. ASSUME NEW k \in Nat
        PROVE  TempName(k) \in Names' <=> k < Cardinality(T) + 1
    BY <2>2, <2>3 DEF TempsCounted
  <2>5. T \cup {N} \subseteq 1 .. context'.indexCounter - 1
    BY <1>1, <1>3
  <2> QED
    BY <1>2, <2>1, <2>4, <2>5 DEF TempsCounted
<1>10. SizeCounted'
  BY DEF SizeCounted
<1> QED
  BY <1>5, <1>6, <1>7, <1>8, <1>9, <1>10

(* Both ways of getting a temporary keep the invariant.                    *)
LEMMA AllocKeepsLayout ==
  ASSUME Layout, AllocTemp
  PROVE  Layout'
<1>1. CASE FreeTemps(temps) # {}
  <2>1. LowestFree(temps) \in DOMAIN temps
    BY <1>1, LowestFreeIsFree DEF FreeTemps
  <2>2. /\ context' = context
        /\ temps' = Occupy(temps, LowestFree(temps), TRUE)
        /\ phase' = phase /\ size' = size
    BY <1>1 DEF AllocTemp, ContextWithTemp, NextTemp
  <2> QED
    BY <2>1, <2>2, OccupyingKeepsLayout
<1>2. CASE FreeTemps(temps) = {}
  <2> DEFINE name == TempName(Cardinality(DOMAIN temps))
  <2>1. ~Knows(context, name)
    BY TempsAreFew DEF Layout, TempsCounted, Knows, Names
  <2>2. GrewBy(context, Grown(context, name, <<NextSlot(context, AnyType)>>), name, 1, AnyType)
    BY <2>1, GrowsByName, TypesAssumption DEF Layout
  <2>3. /\ context' = Grown(context, name, <<NextSlot(context, AnyType)>>)
        /\ temps' = Occupy(temps, context.indexCounter, TRUE)
        /\ phase = "generating" /\ HasRoom
        /\ phase' = phase /\ size' = size
    BY <1>2, <2>1 DEF AllocTemp, ContextWithTemp, NextTemp, AddProperty
  <2> QED
    BY <2>2, <2>3, NewTempKeepsLayout
<1> QED
  BY <1>1, <1>2

-----------------------------------------------------------------------------
(* The size of the frame *)

(* The first slots of the names are distinct, so there are finitely many   *)
(* names; without overloads these are all the slots.                       *)
LEMMA NamesAreCounted ==
  ASSUME Layout
  PROVE  /\ IsFiniteSet(Names)
         /\ NoOverloads => Cardinality(Names) = context.indexCounter
<1> USE DEF Layout
<1> DEFINE N == context.indexCounter
           first == [n \in Names |-> SlotAt(n, 1)]
<1>1. N \in Nat /\ IsFiniteSet(0 .. N - 1) /\ Cardinality(0 .. N - 1) = N
  <2>1. N \in Nat
    BY DEF IsContext
  <2> HIDE DEF N
  <2>2. 0 \in Int /\ N - 1 \in Int
    BY <2>1
  <2> QED
    BY <2>1, <2>2, FS_Interval
<1>2. ASSUME NEW n \in Names
      PROVE  1 \in DOMAIN context.properties[n]
  BY EmptySeq, LenProperties DEF LayoutTypeOK
<1>3. first \in [Names -> 0 .. N - 1]
  BY <1>1, <1>2, SlotBounds
<1>4. first \in Injection(Names, 0 .. N - 1)
  <2>1. ASSUME NEW a \in Names, NEW b \in Names, first[a] = first[b]
        PROVE  a = b
    BY <1>2, <2>1 DEF SlotsDistinct
  <2> HIDE DEF first
  <2> QED
    BY <1>3, <2>1, Fun_IsInj
<1>5. ASSUME NoOverloads
      PROVE  first \in Surjection(Names, 0 .. N - 1)
  <2>1. ASSUME NEW s \in 0 .. N - 1
        PROVE  \E n \in Names : first[n] = s
    <3>1. PICK n \in Names : \E k \in DOMAIN context.properties[n] : SlotAt(n, k) = s
      BY DEF SlotsDense
    <3>2. DOMAIN context.properties[n] = {1}
      BY <1>5, LenProperties DEF NoOverloads, IsContext, Names
    <3> QED
      BY <3>1, <3>2
  <2> QED
    BY <1>3, <2>1, Fun_IsSurj
<1> QED
  BY <1>1, <1>4, <1>5, FS_Injection

-----------------------------------------------------------------------------
(* The steps *)

(* A new context has the parent, and nothing else.                         *)
LEMMA InitLayout ==
  ASSUME Init
  PROVE  Layout
<1> DEFINE first == [type |-> AnyType, index |-> 0]
<1>1. /\ context.properties = [n \in {ParentName} |-> <<first>>]
      /\ context.indexCounter = 1
      /\ DOMAIN context = {"properties", "indexCounter", "immediates", "typeArguments"}
  BY DEF Init, AddProperty, Knows, EmptyContext, Grown, NextSlot
<1>2. temps = [t \in {} |-> FALSE] /\ phase = "extracting" /\ size = 0
  BY DEF Init, NoTemps
<1>3. first \in Overload /\ <<first>> \in Seq(Overload) /\ <<first>> # << >>
  BY TypesAssumption DEF Overload
<1>4. Names = {ParentName} /\ DOMAIN context.properties[ParentName] = {1}
        /\ SlotAt(ParentName, 1) = 0
  BY <1>1 DEF Names, SlotAt
<1>5. IsContext(context)
  BY <1>1, <1>3 DEF IsContext
<1>6. LayoutTypeOK
  <2>1. ParentName \in NameType
    BY DEF ParentName, NameType
  <2> QED
    BY <1>1, <1>2, <1>3, <1>4, <2>1, MaxSlotsAssumption DEF LayoutTypeOK
<1>7. SlotsDistinct /\ SlotsDense /\ OverloadsDiffer
  BY <1>1, <1>4 DEF SlotsDistinct, SlotsDense, OverloadsDiffer
<1>8. TemporariesPrivate
  BY <1>2, <1>4 DEF TemporariesPrivate, IsTempName, ParentName, SourceName
<1>9. TempsCounted
  BY <1>1, <1>2, <1>4, FS_EmptySet DEF TempsCounted, ParentName, SourceName, TempName
<1>10. SizeCounted
  BY <1>2 DEF SizeCounted
<1> QED
  BY <1>5, <1>6, <1>7, <1>8, <1>9, <1>10 DEF Layout

(* Every action keeps the invariant.                                       *)
LEMMA StepLayout ==
  ASSUME Layout, [Next]_layout
  PROVE  Layout'
<1>1. ASSUME NEW ident \in Idents, NEW type \in Types, NEW overloadable \in BOOLEAN,
             Declare(SourceName(ident), type, overloadable)
      PROVE  Layout'
  <2> DEFINE name == SourceName(ident)
  <2>1. name \in NameType /\ ~IsTempName(name)
    BY DEF NameType, SourceName, IsTempName
  <2>2. \/ context' = context
        \/ \E K : GrewBy(context, context', name, K, type)
    BY <1>1, DeclarationGrows DEF Declare, Layout
  <2>3. phase = "extracting" /\ HasRoom /\ UNCHANGED <<temps, phase, size>>
    BY <1>1 DEF Declare
  <2>4. CASE context' = context
    BY <2>3, <2>4 DEF Layout, LayoutTypeOK, SlotsDistinct, SlotsDense, OverloadsDiffer,
       TemporariesPrivate, TempsCounted, SizeCounted, Names, SlotAt
  <2>5. CASE \E K : GrewBy(context, context', name, K, type)
    BY <2>1, <2>3, <2>5, DeclarationKeepsLayout
  <2> QED
    BY <2>2, <2>4, <2>5
<1>2. ASSUME NEW data \in Literals, UseLiteral(data)
      PROVE  Layout'
  <2> DEFINE name == ImmediateName("int", data)
  <2>1. name \in NameType /\ ~IsTempName(name)
    BY DEF NameType, ImmediateName, IsTempName
  <2>2. \/ context' = context
        \/ \E K : GrewBy(context, context', name, K, IntType)
    BY <1>2, ImmediateGrows DEF UseLiteral, Layout
  <2>3. phase = "extracting" /\ HasRoom /\ UNCHANGED <<temps, phase, size>>
    BY <1>2 DEF UseLiteral
  <2>4. CASE context' = context
    BY <2>3, <2>4 DEF Layout, LayoutTypeOK, SlotsDistinct, SlotsDense, OverloadsDiffer,
       TemporariesPrivate, TempsCounted, SizeCounted, Names, SlotAt
  <2>5. CASE \E K : GrewBy(context, context', name, K, IntType)
    BY <2>1, <2>3, <2>5, DeclarationKeepsLayout
  <2> QED
    BY <2>2, <2>4, <2>5
<1>3. ASSUME NEW ident \in Idents, NEW type \in Types, NEW overloadable \in BOOLEAN,
             RefuseDeclaration(SourceName(ident), type, overloadable)
      PROVE  Layout'
  BY <1>3 DEF RefuseDeclaration, Layout, LayoutTypeOK, SlotsDistinct, SlotsDense,
     OverloadsDiffer, TemporariesPrivate, TempsCounted, SizeCounted, Names, SlotAt
<1>4. CASE StartGenerating
  BY <1>4 DEF StartGenerating, Layout, LayoutTypeOK, SlotsDistinct, SlotsDense,
     OverloadsDiffer, TemporariesPrivate, TempsCounted, SizeCounted, Names, SlotAt
<1>5. CASE AllocTemp
  BY <1>5, AllocKeepsLayout
<1>6. ASSUME NEW t \in DOMAIN temps, ReleaseTemp(t)
      PROVE  Layout'
  BY <1>6, OccupyingKeepsLayout DEF ReleaseTemp
<1>7. CASE Finish
  <2>1. size' = Cardinality(Names) /\ size' = PropertyCount(context)
    BY <1>7 DEF Finish, PropertyCount, Names
  <2>2. size' \in Nat
    BY <2>1, NamesAreCounted, FS_CardinalityType
  <2>3. context' = context /\ temps' = temps /\ phase' = "finished"
    BY <1>7 DEF Finish
  <2>4. SizeCounted'
    BY <2>1, <2>3 DEF SizeCounted
  <2> QED
    BY <2>2, <2>3, <2>4 DEF Layout, LayoutTypeOK, SlotsDistinct, SlotsDense,
       OverloadsDiffer, TemporariesPrivate, TempsCounted, Names, SlotAt
<1>8. CASE UNCHANGED layout
  BY <1>8 DEF layout, Layout, LayoutTypeOK, SlotsDistinct, SlotsDense,
     OverloadsDiffer, TemporariesPrivate, TempsCounted, SizeCounted, Names, SlotAt
<1> QED
  BY <1>1, <1>2, <1>3, <1>4, <1>5, <1>6, <1>7, <1>8 DEF Next

(* The inductive invariant holds throughout. *)
THEOREM LayoutHolds == Spec => []Layout
BY InitLayout, StepLayout, PTL DEF Spec

-----------------------------------------------------------------------------
(* What a function may rely on *)

(* Everything in a context has its type, the size of the frame included.   *)
THEOREM TypesCorrect == Spec => []LayoutTypeOK
BY LayoutHolds, PTL DEF Layout

(* addProperty and alloc (type.cpp:62, bytecode_generator.cpp:22) never    *)
(* give a slot to two declarations, in whatever order variables, overloads,*)
(* literals and temporaries come.                                          *)
THEOREM NoSlotIsShared == Spec => []SlotsDistinct
BY LayoutHolds, PTL DEF Layout

(* Slots have no gaps, and the engines find the parent in slot 0.          *)
THEOREM NoSlotIsWasted == Spec => []SlotsDense
BY LayoutHolds, PTL DEF Layout

(* indexOfOverloadOrMinusOne finds the one overload that is meant.         *)
THEOREM OverloadsAreTold == Spec => []OverloadsDiffer
BY LayoutHolds, PTL DEF Layout

(* alloc never hands out the slot of a variable or a literal, nor gives    *)
(* two temporaries one name.                                               *)
THEOREM TemporariesAreApart == Spec => []TemporariesPrivate
BY LayoutHolds, PTL DEF Layout

(* The operand of FN_ENTER counts every slot of a function without         *)
(* overloads of its own.                                                   *)
THEOREM PlainFramesFit == Spec => []FrameHoldsPlainSlots
<1>1. Layout => FrameHoldsPlainSlots
  BY NamesAreCounted DEF Layout, SizeCounted, FrameHoldsPlainSlots, PropertyCount, Names
<1> QED
  BY <1>1, LayoutHolds, PTL

-----------------------------------------------------------------------------
(* Contexts implement slot tables *)

(* The declaration that has a slot is found there.                         *)
LEMMA PlaceFound ==
  ASSUME Layout, NEW n \in Names, NEW k \in DOMAIN context.properties[n]
  PROVE  PlaceOf(SlotAt(n, k)) = <<n, k>>
<1> DEFINE Places == UNION {{m} \X DOMAIN context.properties[m] : m \in Names}
           s == SlotAt(n, k)
<1>1. <<n, k>> \in Places
  OBVIOUS
<1>2. ASSUME NEW place \in Places, SlotAt(place[1], place[2]) = s
      PROVE  place = <<n, k>>
  <2>1. PICK m \in Names : place \in {m} \X DOMAIN context.properties[m]
    OBVIOUS
  <2>2. place[1] = m /\ place[2] \in DOMAIN context.properties[m] /\ place = <<m, place[2]>>
    BY <2>1
  <2> QED
    BY <1>2, <2>2 DEF Layout, SlotsDistinct
<1> HIDE DEF Places
<1>3. <<n, k>> \in Places /\ SlotAt(<<n, k>>[1], <<n, k>>[2]) = s
  BY <1>1
<1> QED
  BY <1>2, <1>3 DEF PlaceOf, Places

(* The owner of a slot is the declaration that has it.                     *)
LEMMA OwnerOfSlot ==
  ASSUME Layout, NEW n \in Names, NEW k \in DOMAIN context.properties[n]
  PROVE  /\ SlotAt(n, k) + 1 \in 1 .. context.indexCounter
         /\ Owners[SlotAt(n, k) + 1] = <<n, TextOf(context.properties[n][k].type)>>
         /\ Owners[SlotAt(n, k) + 1] \in Declarations
<1> DEFINE s == SlotAt(n, k)
<1>1. s \in Nat /\ s < context.indexCounter /\ context.indexCounter \in Nat
        /\ context.properties[n][k] \in Overload
  BY SlotBounds DEF Layout
<1> HIDE DEF s
<1>2. s + 1 \in 1 .. context.indexCounter /\ (s + 1) - 1 = s
  BY <1>1
<1>3. Declaration(PlaceOf(s)) = <<n, TextOf(context.properties[n][k].type)>>
  <2>1. PlaceOf(s) = <<n, k>>
    BY PlaceFound DEF s
  <2> QED
    BY <2>1 DEF Declaration
<1>4. Owners[s + 1] = Declaration(PlaceOf(s))
  BY <1>2 DEF Owners
<1>5. <<n, TextOf(context.properties[n][k].type)>> \in Declarations
  BY <1>1 DEF Declarations, Overload, Layout, LayoutTypeOK
<1> QED
  BY <1>2, <1>3, <1>4, <1>5 DEF s

(* Every slot has an owner, so the owners are a sequence.                  *)
LEMMA OwnersListed ==
  ASSUME Layout
  PROVE  /\ Owners \in Seq(Declarations)
         /\ Len(Owners) = context.indexCounter
         /\ \A i \in 1 .. context.indexCounter :
              \E n \in Names : \E k \in DOMAIN context.properties[n] : SlotAt(n, k) = i - 1
<1> DEFINE N == context.indexCounter
<1>1. N \in Nat
  BY DEF Layout, IsContext
<1>2. ASSUME NEW i \in 1 .. N
      PROVE  \E n \in Names : \E k \in DOMAIN context.properties[n] : SlotAt(n, k) = i - 1
  <2>1. i - 1 \in 0 .. N - 1
    BY <1>1
  <2> QED
    BY <2>1 DEF Layout, SlotsDense
<1>3. ASSUME NEW i \in 1 .. N
      PROVE  Owners[i] \in Declarations
  <2>1. PICK n \in Names : \E k \in DOMAIN context.properties[n] : SlotAt(n, k) = i - 1
    BY <1>2
  <2>2. PICK k \in DOMAIN context.properties[n] : SlotAt(n, k) = i - 1
    BY <2>1
  <2>3. SlotAt(n, k) + 1 = i
    BY <1>1, <2>2
  <2> QED
    BY <2>3, OwnerOfSlot
<1>4. DOMAIN Owners = 1 .. N
  BY DEF Owners
<1>5. Owners \in [1 .. N -> Declarations]
  BY <1>3, <1>4 DEF Owners
<1> HIDE DEF N
<1>6. Owners \in Seq(Declarations) /\ Len(Owners) = N
  BY <1>1, <1>5, <1>4, LenProperties
<1> QED
  BY <1>2, <1>6 DEF N

(* Every declaration owns its slot, now and after the next step.           *)
OwnersKnown ==
  /\ Owners \in Seq(Declarations)
  /\ Len(Owners) = context.indexCounter
  /\ \A n \in Names : \A k \in DOMAIN context.properties[n] :
       /\ SlotAt(n, k) + 1 \in 1 .. context.indexCounter
       /\ Owners[SlotAt(n, k) + 1] = <<n, TextOf(context.properties[n][k].type)>>
       /\ Owners[SlotAt(n, k) + 1] \in Declarations

(* The invariant gives every slot its owner.                               *)
LEMMA LayoutKnowsOwners == Layout => OwnersKnown
BY OwnersListed, OwnerOfSlot DEF OwnersKnown

(* The same after a step.                                                  *)
LEMMA LayoutKnowsOwnersThen == Layout' => OwnersKnown'
BY LayoutKnowsOwners, PTL

(* A context that grows gives the next slot to its new declaration.        *)
LEMMA GrowthGives ==
  ASSUME Layout, Layout', NEW name, NEW K, NEW type,
         GrewBy(context, context', name, K, type)
  PROVE  \E d \in Declarations : Table!Give(d)
<1> DEFINE N == context.indexCounter
           d == <<name, TextOf(type)>>
<1>1. N \in Nat /\ context'.indexCounter = N + 1
  BY DEF Layout, IsContext, GrewBy
<1>2. /\ Owners \in Seq(Declarations) /\ Len(Owners) = N
      /\ Owners' \in Seq(Declarations) /\ Len(Owners') = N + 1
  BY <1>1, LayoutKnowsOwners, LayoutKnowsOwnersThen DEF OwnersKnown
<1>3. name \in Names' /\ K \in DOMAIN context'.properties[name]
        /\ SlotAt(name, K)' = N /\ context'.properties[name][K].type = type
  BY NewSlot DEF GrewBy
<1>4. Owners'[N + 1] = d /\ d \in Declarations
  BY <1>3, LayoutKnowsOwnersThen DEF OwnersKnown
<1>5. ASSUME NEW n \in Names, NEW k \in DOMAIN context.properties[n]
      PROVE  /\ Owners[SlotAt(n, k) + 1] = <<n, TextOf(context.properties[n][k].type)>>
             /\ Owners'[SlotAt(n, k) + 1] = Owners[SlotAt(n, k) + 1]
  <2>1. n \in Names' /\ k \in DOMAIN context'.properties[n]
          /\ context'.properties[n][k] = context.properties[n][k]
    BY DEF GrewBy, Names
  <2>2. SlotAt(n, k)' = SlotAt(n, k)
    BY <2>1 DEF SlotAt
  <2> QED
    BY <2>1, <2>2, LayoutKnowsOwners, LayoutKnowsOwnersThen DEF OwnersKnown
<1>6. ASSUME NEW i \in 1 .. N
      PROVE  Owners'[i] = Owners[i] /\ Owners[i] # d
  <2>1. PICK n \in Names : \E k \in DOMAIN context.properties[n] : SlotAt(n, k) = i - 1
    BY OwnersListed
  <2>2. PICK k \in DOMAIN context.properties[n] : SlotAt(n, k) = i - 1
    BY <2>1
  <2>3. SlotAt(n, k) + 1 = i
    BY <1>1, <2>2
  <2>4. n # name \/ TextOf(context.properties[n][k].type) # TextOf(type)
    BY DEF GrewBy, SameType, Names
  <2> QED
    BY <1>5, <2>3, <2>4
<1> HIDE DEF d, N
<1>7. Owners' = Append(Owners, d)
  <2>1. /\ Append(Owners, d) \in Seq(Declarations)
        /\ Len(Append(Owners, d)) = N + 1
        /\ \A i \in 1 .. N : Append(Owners, d)[i] = Owners[i]
        /\ Append(Owners, d)[N + 1] = d
    BY <1>2, <1>4, AppendProperties
  <2>2. \A i \in 1 .. N + 1 : Owners'[i] = Append(Owners, d)[i]
    <3>1. \A i \in 1 .. N + 1 : i \in 1 .. N \/ i = N + 1
      BY <1>1 DEF N
    <3> QED
      BY <1>4, <1>6, <2>1, <3>1
  <2> QED
    BY <1>2, <2>1, <2>2, SeqEqual
<1>8. DOMAIN Owners = 1 .. N
  BY <1>2, LenProperties
<1>9. \A k \in DOMAIN Owners : Owners[k] # d
  BY <1>6, <1>8
<1> QED
  BY <1>4, <1>7, <1>9 DEF Table!Give

(* No step does anything to a context but let it grow.                     *)
LEMMA ContextOnlyGrows ==
  ASSUME Layout, [Next]_layout
  PROVE  \/ context' = context
         \/ \E name, K, type : GrewBy(context, context', name, K, type)
<1>1. ASSUME NEW ident \in Idents, NEW type \in Types, NEW overloadable \in BOOLEAN,
             Declare(SourceName(ident), type, overloadable)
      PROVE  \/ context' = context
             \/ \E K : GrewBy(context, context', SourceName(ident), K, type)
  BY <1>1, DeclarationGrows DEF Declare, Layout
<1>2. ASSUME NEW data \in Literals, UseLiteral(data)
      PROVE  \/ context' = context
             \/ \E K : GrewBy(context, context', ImmediateName("int", data), K, IntType)
  BY <1>2, ImmediateGrows DEF UseLiteral, Layout
<1>3. ASSUME AllocTemp
      PROVE  \/ context' = context
             \/ \E name : GrewBy(context, context', name, 1, AnyType)
  <2>1. CASE FreeTemps(temps) # {}
    BY <1>3, <2>1 DEF AllocTemp, ContextWithTemp
  <2>2. CASE FreeTemps(temps) = {}
    <3> DEFINE name == TempName(Cardinality(DOMAIN temps))
    <3>1. ~Knows(context, name)
      BY TempsAreFew DEF Layout, TempsCounted, Knows, Names
    <3>2. context' = Grown(context, name, <<NextSlot(context, AnyType)>>)
      BY <1>3, <2>2, <3>1 DEF AllocTemp, ContextWithTemp, AddProperty
    <3>3. GrewBy(context, context', name, 1, AnyType)
      BY <3>1, <3>2, GrowsByName, TypesAssumption DEF Layout
    <3> QED
      BY <3>3
  <2> QED
    BY <2>1, <2>2
<1>4. CASE UNCHANGED layout
  BY <1>4 DEF layout
<1>5. ASSUME NEW ident \in Idents, NEW type \in Types, NEW overloadable \in BOOLEAN,
             RefuseDeclaration(SourceName(ident), type, overloadable)
      PROVE  context' = context
  BY <1>5 DEF RefuseDeclaration
<1>6. CASE StartGenerating \/ Finish \/ \E t \in DOMAIN temps : ReleaseTemp(t)
  BY <1>6 DEF StartGenerating, Finish, ReleaseTemp
<1> QED
  BY <1>1, <1>2, <1>3, <1>4, <1>5, <1>6 DEF Next

(* At first the parent owns the only slot.                                 *)
LEMMA FirstOwner ==
  ASSUME Init
  PROVE  Table!Init
<1> DEFINE d == <<ParentName, TextOf(AnyType)>>
<1>1. Layout
  BY InitLayout
<1>2. /\ Names = {ParentName} /\ DOMAIN context.properties[ParentName] = {1}
      /\ context.properties[ParentName][1].type = AnyType
      /\ SlotAt(ParentName, 1) = 0
      /\ context.indexCounter = 1
  BY DEF Init, AddProperty, Knows, EmptyContext, Grown, NextSlot, Names, SlotAt
<1>3. /\ Owners \in Seq(Declarations) /\ Len(Owners) = 1
      /\ Owners[1] = d /\ d \in Declarations
  BY <1>1, <1>2, LayoutKnowsOwners DEF OwnersKnown
<1>4. <<d>> \in Seq(Declarations) /\ Len(<<d>>) = 1 /\ <<d>>[1] = d
  BY <1>3
<1> HIDE DEF d
<1>5. Owners = <<d>>
  <2>1. \A i \in 1 .. Len(Owners) : Owners[i] = <<d>>[i]
    BY <1>3, <1>4
  <2> QED
    BY <1>3, <1>4, <2>1, SeqEqual
<1> QED
  BY <1>3, <1>5 DEF Table!Init

(* Filling a context, in the extractor and in the generator, hands out     *)
(* slots one after the other and takes none back.                          *)
THEOREM ContextIsSlotTable == Spec => ImplementsSlotTable
<1>1. Init => Table!Init
  BY FirstOwner
<1>2. ASSUME Layout, Layout', [Next]_layout
      PROVE  [Table!Next]_Owners
  <2>1. CASE context' = context
    <3>1. Owners' = Owners
      BY <2>1 DEF Owners, Declaration, PlaceOf, Names, SlotAt
    <3> QED
      BY <3>1
  <2>2. CASE \E name, K, type : GrewBy(context, context', name, K, type)
    BY <1>2, <2>2, GrowthGives DEF Table!Next
  <2> QED
    BY <1>2, <2>1, <2>2, ContextOnlyGrows
<1> QED
  BY <1>1, <1>2, LayoutHolds, PTL DEF Spec, ImplementsSlotTable, Table!Spec

=============================================================================
