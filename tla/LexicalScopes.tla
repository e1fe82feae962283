--------------------------- MODULE LexicalScopes ---------------------------
(***************************************************************************)
(* Whose variables a closure sees.                                         *)
(*                                                                         *)
(* The compiler counts how many functions lie between the use of a         *)
(* variable and its declaration (type_extractor.cpp); the engines take as  *)
(* many steps along slot 0 of the contexts (GET_IN_PARENT, SET_IN_PARENT). *)
(* The contexts are linked when functions are called, so whether the two   *)
(* agree depends on every MOV_FNC, CALL and FN_ENTER before.               *)
(***************************************************************************)
EXTENDS Frames

ASSUME ScopesAssumption == \A p \in Programs : WellScoped(p)

(* The functions a context belongs to, by what is known of it while the    *)
(* program runs: the activations that have it for their own, and the       *)
(* closures that were made in it.                                          *)
OwnersOf(c) ==
  {frames[k].entry : k \in {j \in 1 .. Depth : Entered(j) /\ OwnContext(j) = c}}
    \cup {Outer(program, fn_refs[r].entry) : r \in {q \in DOMAIN fn_refs : fn_refs[q].parent = c}}

(* An access to an enclosing context reaches a context of the function the *)
(* compiler counted to, and of no other one, whoever called the closure    *)
(* and whether or not that function has returned since; the slot it names  *)
(* is in that context.                                                     *)
ScopesAreLexical ==
  program.code[ip].op \in ParentAccess =>
    LET context == Ancestor(program.code[ip].op1)
        scope == AskedScope(program, ip) IN
    /\ context \in HeapContexts
    /\ OwnersOf(context) = {scope}
    /\ Len(heap[context[2]]) = FrameSize(program, scope)
    /\ HasSlot(context, SlotInParent(program.code[ip]))

=============================================================================
