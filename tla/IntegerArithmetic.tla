-------------------------- MODULE IntegerArithmetic --------------------------
(***************************************************************************)
(* What integer arithmetic should be, without saying how to compute it:    *)
(* the sum, difference and product modulo the size of the type, and the    *)
(* quotient and remainder with the sign rule of C; and that an engine      *)
(* computes this.                                                          *)
(***************************************************************************)
EXTENDS VMShared

IntRange == -INT_MAX - 1 .. INT_MAX
Congruent(r, n) == (r - n) % (2 * (INT_MAX + 1)) = 0

IsIntResult(opcode, m, n, r) ==
  CASE opcode = "ADD_INT" -> Congruent(r, m + n)
    [] opcode = "SUB_INT" -> Congruent(r, m - n)
    [] opcode = "MUL_INT" -> Congruent(r, m * n)
    [] opcode = "DIV_INT" ->
         \E rest \in -Magnitude(n) + 1 .. Magnitude(n) - 1 :
           m = n * r + rest /\ (rest # 0 => (rest < 0) = (m < 0))
    [] opcode = "MOD_INT" ->
         /\ Magnitude(r) < Magnitude(n)
         /\ r # 0 => (r < 0) = (m < 0)
         /\ \E q \in IntRange : m = n * q + r

-----------------------------------------------------------------------------

(* Two ints are about to be added, subtracted, multiplied or divided. *)
OnInts(i) ==
  /\ i.op \in IntArithmetic
  /\ Local(i.op1)[1] = "int"
  /\ Local(i.op2)[1] = "int"

IsResult(i, r) == IsIntResult(i.op, Local(i.op1)[2], Local(i.op2)[2], r)

(* An engine stores the mathematical result, an int in the range of the    *)
(* type, into the slot the instruction names, and traps if and only if     *)
(* there is none; whether it computes in a handler or in line, and also    *)
(* where the result takes the place of an operand.                         *)
IntegersExact ==
  [][status = "running" /\ OnInts(program.code[ip]) => \A i \in {program.code[ip]} :
       \/ status' = "undefined" /\ ~\E r \in IntRange : IsResult(i, r)
       \/ \E r \in IntRange : Local(i.dest)' = <<"int", r>> /\ IsResult(i, r)]_<<program, ip,
                                                                               machine, status>>

=============================================================================
