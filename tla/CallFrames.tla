----------------------------- MODULE CallFrames -----------------------------
(***************************************************************************)
(* The calling convention of the interpreter: DirectThreadedVM with the    *)
(* history of Frames.                                                      *)
(***************************************************************************)
EXTENDS DirectThreadedVM, Frames

hvars == <<vars, frames>>

HInit == Init /\ RecordStart
HCall == Call /\ RecordCall(Linkage)
HReturn == Return /\ RecordReturn
HWithin == WithinActivation /\ UNCHANGED frames
HHalted == Halted /\ UNCHANGED frames

HNext == HCall \/ HReturn \/ HWithin \/ HHalted
HSpec == HInit /\ [][HNext]_hvars
HFairSpec == HSpec /\ WF_hvars(HCall \/ HReturn \/ HWithin)

-----------------------------------------------------------------------------

(* The five words below the base of every activation say how to return     *)
(* from it, in spite of everything written since its CALL.                 *)
LinkageIntact ==
  /\ value_stack[0] = nullptr
  /\ \A k \in 2 .. Depth :
       LET f == frames[k] IN
       /\ value_stack[f.base - 5] = uvalue(Len(f.args))
       /\ value_stack[f.base - 4] = <<"code", f.resume>>
       /\ value_stack[f.base - 3] = f.ctx
       /\ value_stack[f.base - 2] = uvalue(WORD * f.dest)
       /\ value_stack[f.base - 1] = IF Entered(k) THEN uvalue(frames[k - 1].base)
                                    ELSE f.parent
       /\ \A n \in 1 .. Len(f.args) : value_stack[ArgumentsStart(k) + n - 1] = f.args[n]

(* A return gives the caller back its registers, removes the arguments and *)
(* puts the result where the caller asked for it.                          *)
ReturnRestoresCaller ==
  [][Return => \A f \in {Frame} :
       /\ ip' = f.resume
       /\ context_object' = f.ctx
       /\ base_pointer' = frames[Depth - 1].base
       /\ stack_pointer' = ArgumentsStart(Depth)
       /\ destination # 0 => Slot(f.ctx, f.dest)' = Local(destination)]_hvars

(* ARG_READ finds the argument the caller pushed. *)
ArgumentsArrive ==
  [][ArgRead /\ op1 < Len(Frame.args) => \A slot \in {program.code[ip].dest} :
       Local(slot)' = Frame.args[Len(Frame.args) - op1]]_hvars

=============================================================================
