------------------------------ MODULE SlotTable ------------------------------
(***************************************************************************)
(* What a context promises the code that is generated from it: every       *)
(* declaration gets a slot of its own, the next one, and once given a slot *)
(* is never taken away or given to anything else.  An instruction with the *)
(* slot in it may be emitted at any time after.                            *)
(***************************************************************************)
EXTENDS Sequences, Naturals

CONSTANT Declarations

VARIABLE owner      \* the declaration slot s belongs to is owner[s + 1]

Init == \E d \in Declarations : owner = <<d>>

Give(d) ==
  /\ \A k \in DOMAIN owner : owner[k] # d
  /\ owner' = Append(owner, d)

Next == \E d \in Declarations : Give(d)

Spec == Init /\ [][Next]_owner

=============================================================================
