------------------------------- MODULE Program -------------------------------
(***************************************************************************)
(* The instruction list the generator fills and the image the machines run *)
(* (src/compiler/program/program.cpp).  In the list an address is a label: *)
(* the operand of a LABEL pseudo instruction, of MOV_FNC, and the          *)
(* destination of a jump.  The code identifies a label by the address of   *)
(* its string, so two labels are the same only if they are one object.     *)
(***************************************************************************)
EXTENDS Bytecode, SequencesExt

Label(name) == [op |-> "LABEL", op1 |-> name, op2 |-> 0, dest |-> 0]
IsLabel(i) == i.op = "LABEL"

(* merge: the instructions of the subroutines, one after the other. *)
Merge(lists) == FlattenSeq(lists)

(* Address of the instruction that follows the k-th entry of the list. *)
Position(list, k) == Len(SelectSeq(SubSeq(list, 1, k), LAMBDA i : ~IsLabel(i)))

(* labelPositions: a later LABEL overwrites an earlier one, and a label    *)
(* that is nowhere reads as address 0.                                     *)
LabelPosition(list, name) ==
  LET places == {k \in DOMAIN list : IsLabel(list[k]) /\ list[k].op1 = name}
  IN  IF places = {} THEN 0 ELSE Position(list, Max(places))

(* toBytes and getInstructions: drop the labels, turn their uses into      *)
(* addresses.                                                              *)
ToBytes(list) ==
  LET code == SelectSeq(list, LAMBDA i : ~IsLabel(i))
      resolve(i) ==
        [i EXCEPT !.op1 = IF i.op = "MOV_FNC" THEN LabelPosition(list, @) ELSE @,
                  !.dest = IF i.op \in Jumps THEN LabelPosition(list, @) ELSE @]
  IN  [a \in 0 .. Len(code) - 1 |-> resolve(code[a + 1])]

(* A runnable program: the image with the certificate of WellFormed, which *)
(* follows from the order in which the generator emits code.               *)
Loaded(list) ==
  LET code == ToBytes(list)
      entry[a \in DOMAIN code] ==
        IF code[a].op \in FnEnters \/ a = 0 THEN a ELSE entry[a - 1]
      height[a \in DOMAIN code] ==
        IF code[a].op \in FnEnters \/ a = 0 THEN 0
        ELSE HeightAfter(code[a - 1], height[a - 1])
  IN  [code |-> code, entry |-> entry, height |-> height]

=============================================================================
