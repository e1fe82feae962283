------------------------------- MODULE Frames -------------------------------
(***************************************************************************)
(* The activations behind the memory of an engine.                         *)
(*                                                                         *)
(* Neither engine keeps a list of its activations: a return trusts a few   *)
(* words of the value stack, which share the array with operands,          *)
(* arguments and the contexts of leaf functions.  The history variable     *)
(* frames records what every CALL promised; the invariants say that the    *)
(* memory still says the same when it is needed.  The engines differ in    *)
(* the linkage words a CALL pushes, so those are recorded too.             *)
(***************************************************************************)
EXTENDS VMShared

VARIABLE frames   \* activations called and not yet returned, root first

(* base: base_pointer once the function is entered; ctx: the caller's      *)
(* context; dest: the caller's slot for the result; linkage: the words     *)
(* between the arguments and the base, the last of which is the parent,    *)
(* the context the function reference captured.                            *)
FrameRecord == [base : Nat, entry : Nat, resume : Nat, ctx : Context, dest : Nat,
                args : Seq(Value), linkage : Seq(Value), parent : Context]

RootFrame == [base |-> 1, entry |-> 0, resume |-> 0, ctx |-> nullptr, dest |-> 0,
              args |-> << >>, linkage |-> << >>, parent |-> nullptr]

CalledFrame(linkage) ==
  LET call == program.code[ip]
      callee == Callee(Local(call.op1))
  IN  [base |-> stack_pointer + Len(linkage),
       entry |-> callee.entry,
       resume |-> ip + 1,
       ctx |-> context_object,
       dest |-> call.dest,
       args |-> [n \in 1 .. call.op2 |-> value_stack[stack_pointer - call.op2 + n - 1]],
       linkage |-> linkage,
       parent |-> callee.parent]

RecordStart == frames = <<RootFrame>>
RecordCall(linkage) == frames' = Append(frames, CalledFrame(linkage))
RecordReturn == frames' = SubSeq(frames, 1, Len(frames) - 1)

-----------------------------------------------------------------------------
(* Reading the history *)

Depth == Len(frames)
Frame == frames[Depth]

(* Between a CALL and the FN_ENTER it jumps to, the callee has no context. *)
Entering == program.code[ip].op \in FnEnters
Entered(k) == k < Depth \/ ~Entering

OwnContext(k) == IF k < Depth THEN frames[k + 1].ctx ELSE context_object

ContextEnd(k) == frames[k].base + StackWords(program, frames[k].entry)
ArgumentsStart(k) == frames[k].base - Len(frames[k].linkage) - Len(frames[k].args)

MayBeParent == HeapContexts \cup {nullptr}

FramesTypeOK ==
  /\ SharedTypeOK
  /\ frames \in Seq(FrameRecord)
  /\ Depth > 0

-----------------------------------------------------------------------------
(* Invariants *)

(* The registers agree with the running activation: between instructions   *)
(* the stack pointer is exactly base + leaf context + operands, so nothing *)
(* a function pushed is lost or left behind, whatever path it took.        *)
RegistersMatchFrame ==
  /\ program.entry[ip] = Frame.entry
  /\ Entering =>
       /\ stack_pointer = Frame.base
       /\ base_pointer = IF Depth = 1 THEN 0 ELSE frames[Depth - 1].base
       /\ context_object = Frame.ctx
  /\ ~Entering =>
       /\ base_pointer = Frame.base
       /\ stack_pointer = ContextEnd(Depth) + program.height[ip]
  /\ status = "running" => call_depth = IF Entering THEN Depth - 1 ELSE Depth

(* The linkage and the arguments of every activation on the stack are the  *)
(* words its CALL pushed, in spite of everything written since; the last   *)
(* word of the linkage is the parent until FN_ENTER saves the base there.  *)
LinkageKept ==
  /\ value_stack[0] = nullptr
  /\ \A k \in 2 .. Depth :
       LET f == frames[k]
           words == Len(f.linkage) IN
       /\ words > 2
       /\ \A j \in 2 .. words : value_stack[f.base - j] = f.linkage[words - j + 1]
       /\ value_stack[f.base - 1] = IF Entered(k) THEN uvalue(frames[k - 1].base)
                                    ELSE f.parent
       /\ \A n \in 1 .. Len(f.args) : value_stack[ArgumentsStart(k) + n - 1] = f.args[n]

(* The root is the first activation and is never called again. *)
RootStays == frames[1] = RootFrame

(* A suspended activation will resume in its own function, after a CALL,   *)
(* with the operands it had below the arguments of that call.              *)
ResumesInCaller ==
  \A k \in 2 .. Depth :
    LET f == frames[k]  caller == frames[k - 1] IN
    /\ f.resume \in Addresses(program) \ EntriesOf(program)
    /\ program.code[f.resume - 1].op = "CALL"
    /\ program.entry[f.resume] = caller.entry
    /\ ArgumentsStart(k) = ContextEnd(k - 1) + program.height[f.resume]
    /\ f.dest \in 1 .. FrameSize(program, caller.entry) - 1

(* No two activations share a word of the stack. *)
FramesDisjoint ==
  \A j, k \in 1 .. Depth : j < k => ContextEnd(j) <= ArgumentsStart(k)

(* Every entered activation has its context where its function keeps it,   *)
(* with the size the function asked for.                                   *)
ContextsOwned ==
  \A k \in 1 .. Depth : Entered(k) =>
    IF IsStackFunction(program, frames[k].entry)
      THEN OwnContext(k) = <<"stack", frames[k].base>>
      ELSE /\ OwnContext(k) \in HeapContexts
           /\ Len(heap[OwnContext(k)[2]]) = FrameSize(program, frames[k].entry)

(* A context kept on the stack dies with its activation, so nothing that   *)
(* may outlive the activation points to it: no function reference, no      *)
(* other context.                                                          *)
NothingCapturesStack ==
  /\ \A r \in DOMAIN fn_refs : fn_refs[r].parent \in HeapContexts
  /\ \A n \in DOMAIN heap : Len(heap[n]) > 0 /\ heap[n][1] \in MayBeParent
  /\ \A k \in 1 .. Depth :
       /\ frames[k].parent \in MayBeParent
       /\ Entered(k) /\ IsStackFunction(program, frames[k].entry) =>
            value_stack[frames[k].base] \in MayBeParent

=============================================================================
