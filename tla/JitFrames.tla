----------------------------- MODULE JitFrames -----------------------------
(***************************************************************************)
(* The calling convention of the JIT: ContextThreadedVM with the history   *)
(* of Frames.                                                              *)
(***************************************************************************)
EXTENDS ContextThreadedVM, Frames

hvars == <<jvars, frames>>

HInit == Init /\ RecordStart
HCall == Call /\ RecordCall(JitLinkage)
HReturn == Return /\ IF call_depth = 1 THEN UNCHANGED frames ELSE RecordReturn
HWithin == WithinActivation /\ UNCHANGED frames
HHalted == Halted /\ UNCHANGED frames

HNext == HCall \/ HReturn \/ HWithin \/ HHalted
HSpec == HInit /\ [][HNext]_hvars

-----------------------------------------------------------------------------

(* The four words below the base of every activation and the address on    *)
(* the native stack say together how to return from it, in spite of        *)
(* everything either stack was used for since its CALL.                    *)
LinkageIntact ==
  /\ value_stack[0] = nullptr
  /\ status # "returned" => Len(returns) = Depth
  /\ \A k \in 2 .. Depth :
       LET f == frames[k] IN
       /\ value_stack[f.base - 4] = uvalue(Len(f.args))
       /\ value_stack[f.base - 3] = f.ctx
       /\ value_stack[f.base - 2] = uvalue(f.dest)
       /\ value_stack[f.base - 1] = IF Entered(k) THEN uvalue(frames[k - 1].base)
                                    ELSE f.parent
       /\ status # "returned" => returns[k] = f.resume
       /\ \A n \in 1 .. Len(f.args) : value_stack[ArgumentsStart(k) + n - 1] = f.args[n]

(* A return to an activation of the program gives it back its registers,   *)
(* removes the arguments and puts the result where the caller asked for    *)
(* it; the last one goes back to the host.                                 *)
ReturnRestoresCaller ==
  [][Return => \A f \in {Frame} :
       IF Depth = 1 THEN status' = "returned"
       ELSE /\ ip' = f.resume
            /\ status' = "running"
            /\ context_object' = f.ctx
            /\ base_pointer' = frames[Depth - 1].base
            /\ stack_pointer' = ArgumentsStart(Depth)
            /\ dest # 0 => Slot(f.ctx, f.dest)' = Local(dest)]_hvars

(* ARG_READ finds the argument the caller pushed. *)
ArgumentsArrive ==
  [][ArgRead /\ op1 < Len(Frame.args) => \A slot \in {program.code[ip].dest} :
       Local(slot)' = Frame.args[Len(Frame.args) - op1]]_hvars

=============================================================================
