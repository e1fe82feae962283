------------------------------ MODULE Bytecode ------------------------------
(***************************************************************************)
(* Programs for the virtual machine (include/common/program.h): what an    *)
(* instruction is, the descriptor table the JIT compiles from, and what    *)
(* the engines rely on in the code they are given.                         *)
(*                                                                         *)
(* A program is a record                                                   *)
(*   code    address -> instruction, labels already resolved to addresses  *)
(*   entry   address -> address of the FN_ENTER of the function it is in   *)
(*   height  address -> values on the operand stack of the activation      *)
(*                      when the instruction starts                        *)
(* entry and height are not in the C++ Program: they are the certificate   *)
(* that WellFormed checks, like the stack maps of a byte code verifier.    *)
(***************************************************************************)
EXTENDS ZValue

NativeCount == 1                     \* native_print is the only native
WORD == 8                            \* sizeof(z_value_t)

FnEnters == {"FN_ENTER_HEAP", "FN_ENTER_STACK"}
Branches == {"JMP_TRUE", "JMP_FALSE"}
Jumps == Branches \cup {"JMP"}
Immediates == {"MOV_INT", "MOV_NULL", "MOV_BOOLEAN", "MOV_DECIMAL", "MOV_STRING"}
ObjectOpcodes == {"GET_IN_OBJECT", "SET_IN_OBJECT"}
Opcode == FnEnters \cup Jumps \cup Immediates \cup BinaryOpcodes \cup UnaryOpcodes
            \cup ObjectOpcodes
            \cup {"MOV", "MOV_FNC", "CALL", "CALL_NATIVE", "PUSH", "POP",
                  "ARG_READ", "GET_IN_PARENT", "SET_IN_PARENT", "RET"}

IsInstruction(i) ==
  /\ i.op \in Opcode
  /\ IF i.op = "MOV_STRING" THEN i.op1 \in Seq(STRING) ELSE i.op1 \in Int
  /\ i.op2 \in Nat
  /\ i.dest \in Nat

-----------------------------------------------------------------------------
(* instructionDescriptionTable, as far as its users read it: which         *)
(* operands are indexes into the current context.                          *)

Op1IsIndex(op) == op \in {"GET_IN_OBJECT", "PUSH", "POP", "CALL_NATIVE", "MOV"}
                           \cup Branches \cup BinaryOpcodes \cup UnaryOpcodes
(* Broken: the table entry of GET_IN_PARENT made like that of SET_IN_PARENT. *)
Op2IsIndexInParent(op) ==
  op \in {"SET_IN_PARENT", "GET_IN_PARENT", "GET_IN_OBJECT", "CALL_NATIVE"}
           \cup BinaryOpcodes
Op2IsIndex(op) == op \in {"SET_IN_PARENT", "GET_IN_OBJECT", "CALL_NATIVE"}
                           \cup BinaryOpcodes
DestIsIndex(op) == op \in {"SET_IN_OBJECT", "SET_IN_PARENT", "GET_IN_OBJECT",
                           "GET_IN_PARENT", "ARG_READ", "CALL_NATIVE", "MOV",
                           "MOV_FNC"}
                            \cup Immediates \cup BinaryOpcodes \cup UnaryOpcodes

-----------------------------------------------------------------------------
(* Functions of a program *)

Addresses(p) == DOMAIN p.code
EntriesOf(p) == {a \in Addresses(p) : p.code[a].op \in FnEnters}

(* A leaf function keeps its context on the value stack, any other one in  *)
(* the heap.                                                               *)
IsStackFunction(p, e) == p.code[e].op = "FN_ENTER_STACK"
FrameSize(p, e) == p.code[e].op1
StackWords(p, e) == IF IsStackFunction(p, e) THEN FrameSize(p, e) ELSE 0

(* Context slots an instruction reads and writes, as index operands. *)
WritesDest(op) == op \in {"MOV", "MOV_FNC", "CALL", "CALL_NATIVE", "POP",
                          "ARG_READ", "GET_IN_PARENT"}
                           \cup Immediates \cup BinaryOpcodes \cup UnaryOpcodes
SlotsRead(i) ==
  (IF i.op \in {"MOV", "CALL", "CALL_NATIVE", "PUSH"}
                 \cup Branches \cup BinaryOpcodes \cup UnaryOpcodes
     THEN {i.op1} ELSE {})
  \cup (IF i.op \in BinaryOpcodes \cup {"SET_IN_PARENT"} THEN {i.op2} ELSE {})
  \cup (IF i.op = "RET" THEN {i.dest} ELSE {})

(* Net effect of an instruction on the operand stack, up to its successor. *)
HeightAfter(i, h) ==
  CASE i.op = "PUSH" -> h + 1
    [] i.op \in {"POP", "CALL_NATIVE"} -> h - 1
    [] i.op = "CALL" -> h - i.op2
    [] OTHER -> h

WellFormedAt(p, a) ==
  LET i == p.code[a]
      e == p.entry[a]
      size == FrameSize(p, e)
  IN  /\ IsInstruction(i)
      /\ p.height[a] \in Nat
      /\ e \in EntriesOf(p)
      /\ i.op \in FnEnters <=> a = e
      /\ a = e => i.op1 \in Nat \ {0} /\ p.height[a] = 0
      /\ i.op \notin {"JMP", "RET"} =>
           /\ a + 1 \in Addresses(p)
           /\ p.entry[a + 1] = e
           /\ a + 1 # e
           /\ p.height[a + 1] = HeightAfter(i, p.height[a])
      /\ i.op \in Jumps =>
           /\ i.dest \in Addresses(p)
           /\ p.entry[i.dest] = e
           /\ i.dest # e
           /\ p.height[i.dest] = p.height[a]
      /\ SlotsRead(i) \subseteq 0 .. size - 1
      /\ WritesDest(i.op) => i.dest \in 1 .. size - 1
      /\ i.op = "CALL" => i.op2 <= p.height[a]
      /\ i.op \in {"CALL_NATIVE", "POP"} => p.height[a] > 0
      /\ i.op = "MOV_FNC" =>
           /\ ~IsStackFunction(p, e)
           /\ i.op1 \in EntriesOf(p) \ {0}
      /\ i.op \in {"GET_IN_PARENT", "SET_IN_PARENT"} => i.op1 \in Nat \ {0}
      /\ i.op = "SET_IN_PARENT" => i.dest > 0
      /\ i.op = "ARG_READ" => i.op1 \in Nat

(* What the engines rely on and ByteCodeGenerator provides for the trees   *)
(* of the runs: code starts with the root function, which has room for the *)
(* natives; control stays inside a function; operand stacks agree where    *)
(* control meets; slots are inside the frame; and a function that makes    *)
(* closures is not a leaf, so its context is on the heap.                  *)
WellFormed(p) ==
  /\ Addresses(p) \subseteq Nat
  /\ DOMAIN p.entry = Addresses(p)
  /\ DOMAIN p.height = Addresses(p)
  /\ 0 \in EntriesOf(p)
  /\ FrameSize(p, 0) > NativeCount
  /\ \A a \in Addresses(p) : WellFormedAt(p, a)

-----------------------------------------------------------------------------
(* Scopes *)

ParentAccess == {"GET_IN_PARENT", "SET_IN_PARENT"}
SlotInParent(i) == IF i.op = "GET_IN_PARENT" THEN i.op2 ELSE i.dest

(* The functions whose code makes closures of a function. *)
Creators(p, f) ==
  {p.entry[a] : a \in {b \in Addresses(p) : p.code[b].op = "MOV_FNC" /\ p.code[b].op1 = f}}

(* The function the text of f is in: the one that makes its closures. *)
Outer(p, f) == CHOOSE e \in EntriesOf(p) : Creators(p, f) # {} => e \in Creators(p, f)

(* The functions around e, from itself outwards. *)
Scopes(p, e, depth) ==
  LET scope[n \in 0 .. depth] == IF n = 0 THEN e ELSE Outer(p, scope[n - 1])
  IN  scope

(* The function whose variable an access to an enclosing context is about. *)
AskedScope(p, a) == Scopes(p, p.entry[a], p.code[a].op1)[p.code[a].op1]

(* What ByteCodeGenerator provides besides: the closures of a function are *)
(* made in one function, and an access to an enclosing context counts no   *)
(* further than there are functions around it and names a slot of the      *)
(* context it counts to.                                                   *)
WellScoped(p) ==
  /\ \A f \in EntriesOf(p) : \A d, e \in Creators(p, f) : d = e
  /\ \A a \in Addresses(p) : p.code[a].op \in ParentAccess =>
       LET depth == p.code[a].op1
           scope == Scopes(p, p.entry[a], depth) IN
       /\ \A n \in 0 .. depth - 1 : Creators(p, scope[n]) # {}
       /\ SlotInParent(p.code[a]) < FrameSize(p, scope[depth])

=============================================================================
