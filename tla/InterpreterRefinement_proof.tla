--------------------- MODULE InterpreterRefinement_proof ---------------------
(***************************************************************************)
(* The interpreter implements ActivationMachine, for every well formed     *)
(* program, every size of the stack and every width of the integers: the   *)
(* activations read back from the value stack are the ones that the        *)
(* history of CallFrames records, and every handler does to them what      *)
(* ActivationMachine promises.                                             *)
(***************************************************************************)
EXTENDS CallFrames_proof, Activations_proof, InterpreterRefinement, TypeSoundness

-----------------------------------------------------------------------------
(* Reading the activations back from the value stack *)

(* The decoder counts the activations as the history does. *)
LEMMA DecodedDepth ==
  ASSUME InterpreterConvention, status = "running"
  PROVE  /\ Stack!Activations = Depth
         /\ Stack!IsEntering <=> Entering
         /\ \A k \in 1 .. Depth : Stack!IsEntered(k) <=> Entered(k)
<1>1. CallingConvention /\ Depth \in Nat \ {0}
  BY FrameFacts DEF InterpreterConvention
<1>2. call_depth = IF Entering THEN Depth - 1 ELSE Depth
  BY <1>1 DEF CallingConvention, RegistersMatchFrame
<1>3. Stack!IsEntering <=> Entering
  BY DEF Stack!IsEntering, Entering, Stack!FnEnters, FnEnters
<1>4. Stack!Activations = Depth
  BY <1>1, <1>2, <1>3 DEF Stack!Activations
<1> QED
  BY <1>3, <1>4 DEF Stack!IsEntered, Entered

(* The chain of saved base pointers leads to the base of every activation. *)
LEMMA DecodedBases ==
  ASSUME InterpreterConvention, status = "running"
  PROVE  \A k \in 1 .. Depth : Stack!BaseOf(k) = frames[k].base
<1> DEFINE top == IF Stack!IsEntering THEN stack_pointer ELSE base_pointer
           Chain(base) == [j \in 1 .. Depth |->
             IF j = Depth THEN top
             ELSE IF j = Depth - 1 /\ Stack!IsEntering THEN base_pointer
             ELSE value_stack[base[j + 1] - 1][2]]
           base == CHOOSE base : base = Chain(base)
           bases == [j \in 1 .. Depth |-> frames[j].base]
<1>1. PICK d \in Nat : d = Depth /\ d > 0 /\ CallingConvention /\ LinkageIntact
  BY FrameFacts, LinkageFound DEF InterpreterConvention
<1>2. \A k \in 1 .. d : Stack!BaseOf(k) = base[k]
  BY <1>1, DecodedDepth DEF Stack!BaseOf
<1>3. ASSUME NEW j \in 1 .. d
      PROVE  /\ j = d => frames[j].base = top
             /\ j # d /\ j = d - 1 /\ Stack!IsEntering => frames[j].base = base_pointer
             /\ j # d /\ ~(j = d - 1 /\ Stack!IsEntering) =>
                  frames[j].base = value_stack[frames[j + 1].base - 1][2]
  <2>1. j = d => frames[j].base = top
    BY <1>1, DecodedDepth DEF CallingConvention, RegistersMatchFrame, Frame
  <2>2. j # d /\ j = d - 1 /\ Stack!IsEntering => frames[j].base = base_pointer
    BY <1>1, DecodedDepth DEF CallingConvention, RegistersMatchFrame
  <2>3. ASSUME j # d, ~(j = d - 1 /\ Stack!IsEntering)
        PROVE  frames[j].base = value_stack[frames[j + 1].base - 1][2]
    <3>1. PICK next : next = j + 1 /\ next \in 2 .. Depth /\ next - 1 = j
      BY <1>1, <2>3
    <3>2. Entered(next)
      <4>1. next < Depth \/ next = Depth
        BY <1>1, <3>1
      <4>2. next = Depth => ~Entering
        BY <1>1, <2>3, <3>1, DecodedDepth
      <4> QED
        BY <4>1, <4>2 DEF Entered
    <3>3. value_stack[frames[next].base - 1] = uvalue(frames[j].base)
      BY <1>1, <3>1, <3>2 DEF LinkageIntact
    <3> QED
      BY <3>1, <3>3 DEF uvalue
  <2> QED
    BY <2>1, <2>2, <2>3
<1>4. bases = Chain(bases)
  <2> HIDE DEF top
  <2>1. \A j \in 1 .. d : j # d => j + 1 \in 1 .. d /\ bases[j + 1] = frames[j + 1].base
    BY <1>1
  <2> QED
    BY <1>1, <1>3, <2>1
<1>5. base = Chain(base)
  <2> HIDE DEF bases, Chain
  <2> QED
    BY <1>4
<1>6. \A k \in 1 .. d : base[k] = frames[k].base
  <2> DEFINE wrong == {k \in 1 .. d : base[k] # frames[k].base}
  <2> HIDE DEF base, top
  <2>1. SUFFICES ASSUME wrong # {}
                 PROVE  FALSE
    OBVIOUS
  <2>2. PICK j \in wrong : \A k \in wrong : k <= j
    <3>1. wrong \subseteq 0 .. d
      OBVIOUS
    <3> HIDE DEF wrong
    <3> QED
      BY <2>1, <3>1, Greatest
  <2>3. j # d => j + 1 \in 1 .. d /\ base[j + 1] = frames[j + 1].base
    <3>1. j # d => j + 1 \in 1 .. d /\ ~(j + 1 <= j)
      OBVIOUS
    <3> QED
      BY <2>2, <3>1
  <2>4. base[j] = IF j = d THEN top
                  ELSE IF j = d - 1 /\ Stack!IsEntering THEN base_pointer
                  ELSE value_stack[base[j + 1] - 1][2]
    BY <1>1, <1>5
  <2> QED
    BY <1>3, <2>3, <2>4
<1> QED
  BY <1>1, <1>2, <1>6

(* A run of words read back from the stack. *)
LEMMA DecodedWords ==
  ASSUME NEW from, NEW to, NEW end, from \in Int, to \in Int, end = to + 1, from <= end
  PROVE  Stack!Words(from, to) = Words(value_stack, from, end)
<1>1. PICK words, n : /\ words = Words(value_stack, from, end) /\ n = end - from /\ n \in Nat
  OBVIOUS
<1>2. IsList(words, n)
  <2>1. words = [k \in 1 .. n |-> value_stack[from + k - 1]]
    BY <1>1 DEF Words
  <2> QED
    BY <2>1 DEF IsList
<1>3. << >> \o words = words
  BY <1>1, <1>2, SequenceOf
<1>4. [k \in 1 .. to - from + 1 |-> value_stack[from + k - 1]] = words
  <2>1. to - from + 1 = end - from
    OBVIOUS
  <2> QED
    BY <1>1, <2>1 DEF Words
<1>5. Stack!Words(from, to) = << >> \o words
  BY <1>4, Zenon DEF Stack!Words
<1> QED
  BY <1>1, <1>3, <1>5

(* The linkage of a suspended activation's callee says where it goes on    *)
(* and where its context is; its own linkage how many arguments it has     *)
(* and where its result goes.                                              *)
LEMMA DecodedLinkage ==
  ASSUME InterpreterConvention, status = "running", NEW k, k \in 1 .. Depth
  PROVE  /\ ResumeAddress(k) = ResumeOf(k)
         /\ Stack!PointerOf(k) = OwnContext(k)
         /\ Stack!BaseOf(k) = frames[k].base
         /\ k > 1 => /\ Stack!NumberOfArguments(k) = Len(frames[k].args)
                     /\ Stack!FirstArgument(k) = ArgumentsStart(k)
                     /\ ArgumentsStart(k) = frames[k].base - 5 - Len(frames[k].args)
                     /\ value_stack[frames[k].base - 2][2] \div WORD = frames[k].dest
         /\ Stack!OperandsEndOf(k) = OperandsEnd(k)
<1>1. PICK d \in Nat : d = Depth /\ d > 0 /\ CallingConvention /\ LinkageIntact
  BY FrameFacts, LinkageFound DEF InterpreterConvention
<1>2. /\ Stack!Activations = Depth
      /\ \A n \in 1 .. Depth : Stack!BaseOf(n) = frames[n].base
  BY DecodedDepth, DecodedBases
<1>3. ASSUME NEW n, n \in 1 .. Depth, n > 1
      PROVE  /\ Stack!NumberOfArguments(n) = Len(frames[n].args)
             /\ Stack!FirstArgument(n) = ArgumentsStart(n)
             /\ ArgumentsStart(n) = frames[n].base - 5 - Len(frames[n].args)
             /\ value_stack[frames[n].base - 2][2] \div WORD = frames[n].dest
             /\ value_stack[frames[n].base - 4][2] = frames[n].resume
             /\ value_stack[frames[n].base - 3] = frames[n].ctx
  <2>1. n \in 2 .. Depth
    BY <1>1, <1>3
  <2>2. /\ value_stack[frames[n].base - 5] = uvalue(Len(frames[n].args))
        /\ value_stack[frames[n].base - 4] = <<"code", frames[n].resume>>
        /\ value_stack[frames[n].base - 3] = frames[n].ctx
        /\ value_stack[frames[n].base - 2] = uvalue(WORD * frames[n].dest)
    BY <1>1, <2>1 DEF LinkageIntact
  <2>3. Len(frames[n].linkage) = 5
    <3>1. PICK words : words = frames[n].linkage
      OBVIOUS
    <3>2. words = <<uvalue(Len(frames[n].args)), <<"code", frames[n].resume>>, frames[n].ctx,
                    uvalue(WORD * frames[n].dest), frames[n].parent>>
      BY <2>1, <3>1 DEF InterpreterConvention, LinkageRecorded
    <3>3. Len(words) = 5
      BY <3>2
    <3> QED
      BY <3>1, <3>3
  <2>4. Stack!NumberOfArguments(n) = Len(frames[n].args)
    BY <1>2, <1>3, <2>2 DEF Stack!NumberOfArguments, LinkageWords, uvalue
  <2>5. Stack!FirstArgument(n) = ArgumentsStart(n)
    BY <1>2, <1>3, <2>3, <2>4 DEF Stack!FirstArgument, ArgumentsStart, LinkageWords
  <2>6. ArgumentsStart(n) = frames[n].base - 5 - Len(frames[n].args)
    BY <2>3 DEF ArgumentsStart
  <2>7. value_stack[frames[n].base - 2][2] \div WORD = frames[n].dest
    <3>1. frames[n].dest \in Nat
      <4>1. frames[n] \in FrameRecord
        BY <1>1, <1>3 DEF CallingConvention, FramesTypeOK, Depth
      <4> QED
        BY <4>1 DEF FrameRecord
    <3>2. value_stack[frames[n].base - 2][2] = WORD * frames[n].dest
      BY <2>2 DEF uvalue
    <3> QED
      BY <3>1, <3>2, Unscaled
  <2> QED
    BY <2>2, <2>4, <2>5, <2>6, <2>7
<1>4. CASE k = Depth
  <2>1. /\ ResumeAddress(k) = ResumeOf(k)
        /\ Stack!PointerOf(k) = OwnContext(k)
        /\ Stack!OperandsEndOf(k) = OperandsEnd(k)
    BY <1>1, <1>2, <1>4 DEF ResumeAddress, ResumeOf, Stack!PointerOf, OwnContext,
       Stack!OperandsEndOf, OperandsEnd
  <2> QED
    BY <1>2, <1>3, <2>1
<1>5. CASE k # Depth
  <2>1. k + 1 \in 1 .. Depth /\ k + 1 > 1 /\ k < Depth
    BY <1>1, <1>5
  <2>2. /\ Stack!FirstArgument(k + 1) = ArgumentsStart(k + 1)
        /\ Stack!BaseOf(k + 1) = frames[k + 1].base
        /\ value_stack[frames[k + 1].base - 4][2] = frames[k + 1].resume
        /\ value_stack[frames[k + 1].base - 3] = frames[k + 1].ctx
    BY <1>2, <1>3, <2>1
  <2>3. ResumeAddress(k) = ResumeOf(k)
    BY <1>2, <1>5, <2>2, Zenon DEF ResumeAddress, ResumeOf
  <2>4. Stack!PointerOf(k) = OwnContext(k)
    BY <1>2, <1>5, <2>1, <2>2, Zenon DEF Stack!PointerOf, OwnContext
  <2>5. Stack!OperandsEndOf(k) = OperandsEnd(k)
    BY <1>2, <1>5, <2>2, Zenon DEF Stack!OperandsEndOf, OperandsEnd
  <2> QED
    BY <1>2, <1>3, <2>3, <2>4, <2>5
<1> QED
  BY <1>4, <1>5

(* Every activation is read back as the history recorded it. *)
LEMMA DecodedActivation ==
  ASSUME InterpreterConvention, status = "running", NEW k, k \in 1 .. Depth
  PROVE  Stack!Activation(k, ResumeAddress(k)) = Recorded(k)
<1> DEFINE f == frames[k]
           pc == ResumeAddress(k)
           context == f.base + IF Entered(k) THEN StackWords(program, f.entry) ELSE 0
           leaf == Entered(k) /\ IsStackFunction(program, f.entry)
<1>1. PICK d \in Nat : d = Depth /\ d > 0 /\ CallingConvention /\ LinkageIntact
  BY FrameFacts, LinkageFound DEF InterpreterConvention
<1>2. /\ pc = ResumeOf(k)
      /\ Stack!PointerOf(k) = OwnContext(k)
      /\ Stack!BaseOf(k) = f.base
      /\ Stack!OperandsEndOf(k) = OperandsEnd(k)
      /\ Stack!IsEntered(k) <=> Entered(k)
  BY DecodedLinkage, DecodedDepth
<1>3. program.entry[pc] = f.entry
  <2>1. CASE k = Depth
    BY <1>1, <1>2, <2>1 DEF CallingConvention, RegistersMatchFrame, Frame, ResumeOf
  <2>2. CASE k # Depth
    <3>1. PICK next : next = k + 1 /\ next \in 2 .. Depth /\ next - 1 = k
      BY <1>1, <2>2
    <3>2. program.entry[frames[next].resume] = frames[k].entry
      BY <1>1, <3>1 DEF CallingConvention, ResumesInCaller
    <3> QED
      BY <1>2, <2>2, <3>1, <3>2 DEF ResumeOf
  <2> QED
    BY <2>1, <2>2
<1>4. Stack!ContextEndOf(k, pc) = context
  <2>1. Stack!StackWords(program, f.entry) = StackWords(program, f.entry)
    BY DEF Stack!StackWords, StackWords, Stack!IsStackFunction, IsStackFunction,
           Stack!FrameSize, FrameSize
  <2> QED
    BY <1>2, <1>3, <2>1 DEF Stack!ContextEndOf
<1>5. /\ f.base \in Nat /\ StackWords(program, f.entry) \in Nat
      /\ OperandsEnd(k) \in Nat
      /\ f.base <= context /\ context <= OperandsEnd(k) /\ context \in Nat
  <2>1. /\ f.base \in Nat /\ StackWords(program, f.entry) \in Nat /\ OperandsEnd(k) \in Nat
        /\ Entered(k) => ContextEnd(k) <= OperandsEnd(k)
        /\ ~Entered(k) => f.base = OperandsEnd(k)
    BY <1>1, OperandFacts
  <2>2. CASE Entered(k)
    BY <2>1, <2>2 DEF ContextEnd
  <2>3. CASE ~Entered(k)
    BY <2>1, <2>3
  <2> QED
    BY <2>2, <2>3
<1>6. Entered(k) => /\ OnStack(OwnContext(k)) <=> IsStackFunction(program, f.entry)
                    /\ leaf => OwnContext(k) = <<"stack", f.base>>
                    /\ ~leaf => OwnContext(k) \in HeapContexts
  <2>1. SUFFICES ASSUME Entered(k)
                 PROVE  /\ OnStack(OwnContext(k)) <=> IsStackFunction(program, f.entry)
                        /\ leaf => OwnContext(k) = <<"stack", f.base>>
                        /\ ~leaf => OwnContext(k) \in HeapContexts
    OBVIOUS
  <2>2. IF IsStackFunction(program, f.entry) THEN OwnContext(k) = <<"stack", f.base>>
        ELSE OwnContext(k) \in HeapContexts
    BY <1>1, <2>1 DEF CallingConvention, ContextsOwned
  <2> QED
    BY <1>1, <2>1, <2>2, HeapContextFacts DEF OnStack
<1>7. Stack!KeepsStack(k) <=> leaf
  BY <1>2, <1>6 DEF Stack!KeepsStack, Stack!OnStack, OnStack
<1>8. f.args = IF k = 1 THEN << >>
               ELSE Stack!Words(Stack!FirstArgument(k), Stack!BaseOf(k) - LinkageWords - 1)
  <2>1. CASE k = 1
    BY <1>1, <2>1 DEF CallingConvention, RootStays, RootFrame
  <2>2. CASE k # 1
    <3>1. k \in 2 .. Depth /\ k > 1
      BY <1>1, <2>2
    <3>2. PICK args : args = f.args
      OBVIOUS
    <3>3. args \in Seq(Value) /\ Len(args) \in Nat
      <4>1. f \in FrameRecord
        BY <1>1 DEF CallingConvention, FramesTypeOK, Depth
      <4> QED
        BY <3>2, <4>1 DEF FrameRecord
    <3>4. \A n \in 1 .. Len(args) : value_stack[ArgumentsStart(k) + n - 1] = args[n]
      BY <1>1, <3>1, <3>2 DEF LinkageIntact
    <3>5. PICK first, last, end : /\ first = ArgumentsStart(k)
                                  /\ last = f.base - LinkageWords - 1
                                  /\ end = f.base - LinkageWords
      OBVIOUS
    <3>6. /\ first \in Int /\ last \in Int /\ end = last + 1 /\ end = first + Len(args)
          /\ first <= end /\ end - first = Len(args)
      <4>1. ArgumentsStart(k) = f.base - 5 - Len(f.args)
        BY <3>1, DecodedLinkage
      <4>2. PICK base : base = f.base /\ base \in Nat
        BY <1>5
      <4>3. first = base - 5 - Len(args) /\ last = base - 5 - 1 /\ end = base - 5
        BY <3>2, <3>5, <4>1, <4>2 DEF LinkageWords
      <4>4. PICK size \in Nat : size = Len(args)
        BY <3>3
      <4>5. /\ first \in Int /\ last \in Int /\ end = last + 1 /\ end = first + size
            /\ first <= end /\ end - first = size
        <5>1. first = base - 5 - size
          BY <4>3, <4>4
        <5>2. last = base - 5 - 1 /\ end = base - 5
          BY <4>3
        <5>3. first \in Int /\ last \in Int /\ end = last + 1
          BY <4>2, <5>1, <5>2
        <5>4. end = first + size /\ first <= end /\ end - first = size
          BY <4>2, <5>1, <5>2
        <5> QED
          BY <5>3, <5>4
      <4> QED
        BY <4>4, <4>5
    <3>7. args = Words(value_stack, first, end)
      <4>1. args = [n \in 1 .. Len(args) |-> args[n]]
        BY <3>3
      <4>2. \A n \in 1 .. Len(args) : value_stack[first + n - 1] = args[n]
        BY <3>4, <3>5
      <4> QED
        BY <3>6, <4>1, <4>2 DEF Words
    <3>8. Stack!Words(first, last) = Words(value_stack, first, end)
      BY <3>6, DecodedWords
    <3>9. Stack!FirstArgument(k) = first
      BY <3>1, <3>5, DecodedLinkage
    <3> HIDE DEF f
    <3> QED
      BY <1>2, <2>2, <3>2, <3>5, <3>7, <3>8, <3>9
  <2> QED
    BY <2>1, <2>2
<1>9. Stack!Words(context, OperandsEnd(k) - 1) = Words(value_stack, context, OperandsEnd(k))
  <2>1. PICK end, last : end = OperandsEnd(k) /\ last = end - 1 /\ end = last + 1 /\ last \in Int
    BY <1>5
  <2> HIDE DEF context
  <2>2. Stack!Words(context, last) = Words(value_stack, context, end)
    BY <1>5, <2>1, DecodedWords
  <2> QED
    BY <2>1, <2>2, Zenon
<1>10. Stack!Words(f.base, context - 1) = Words(value_stack, f.base, context)
  <2>1. PICK base, last : base = f.base /\ last = context - 1 /\ context = last + 1 /\ last \in Int
    BY <1>5
  <2> HIDE DEF context
  <2>2. Stack!Words(base, last) = Words(value_stack, base, context)
    BY <1>5, <2>1, DecodedWords
  <2> QED
    BY <2>1, <2>2, Zenon
<1>11. /\ Entered(k) /\ leaf => Stack!Slot(OwnContext(k), 0) = value_stack[f.base]
       /\ Entered(k) /\ ~leaf => Stack!Slot(OwnContext(k), 0) = heap[OwnContext(k)[2]][1]
  <2>1. Entered(k) /\ leaf => Stack!Slot(OwnContext(k), 0) = value_stack[f.base]
    <3>1. f.base + 0 = f.base
      BY <1>5
    <3> QED
      BY <1>6, <3>1 DEF Stack!Slot, Stack!OnStack
  <2>2. Entered(k) /\ ~leaf => Stack!Slot(OwnContext(k), 0) = heap[OwnContext(k)[2]][1]
    BY <1>1, <1>6, HeapContextFacts DEF Stack!Slot, Stack!OnStack, OnStack
  <2> QED
    BY <2>1, <2>2
<1>12. ~Entered(k) => Stack!Top = f.parent
  <2>1. ~Entered(k) => k = Depth /\ Entering
    BY <1>1 DEF Entered
  <2> QED
    BY <1>1, <2>1, EnteringFacts DEF Stack!Top, Top, Frame
<1>13. f.dest = IF k = 1 THEN 0 ELSE value_stack[Stack!BaseOf(k) - 2][2] \div WORD
  <2>1. k = 1 => f.dest = 0
    BY <1>1 DEF CallingConvention, RootStays, RootFrame
  <2>2. k # 1 => value_stack[f.base - 2][2] \div WORD = f.dest
    BY <1>1, DecodedLinkage
  <2> QED
    BY <1>2, <2>1, <2>2
<1>14. Stack!nullptr = nullptr
  BY DEF Stack!nullptr, nullptr, Stack!uvalue, uvalue
<1> DEFINE parent == IF ~Entered(k) THEN f.parent
                     ELSE IF leaf THEN value_stack[f.base] ELSE heap[OwnContext(k)[2]][1]
           ctx == IF Entered(k) /\ ~leaf THEN OwnContext(k) ELSE nullptr
           locals == IF leaf THEN Words(value_stack, f.base, context) ELSE << >>
<1>15. Recorded(k) = Activation(pc, f.args, Words(value_stack, context, OperandsEnd(k)),
                                parent, ctx, locals, f.dest)
  BY <1>2 DEF Recorded, ActivationOf
<1>16. Stack!Activation(k, pc) = Activation(pc, f.args, Words(value_stack, context, OperandsEnd(k)),
                                            parent, ctx, locals, f.dest)
  <2>1. parent = IF Stack!IsEntered(k) THEN Stack!Slot(Stack!PointerOf(k), 0) ELSE Stack!Top
    BY <1>2, <1>11, <1>12
  <2>2. ctx = IF Stack!IsEntered(k) /\ ~Stack!KeepsStack(k) THEN Stack!PointerOf(k) ELSE Stack!nullptr
    BY <1>2, <1>7, <1>14
  <2>3. locals = IF Stack!KeepsStack(k)
                   THEN Stack!Words(Stack!BaseOf(k), Stack!ContextEndOf(k, pc) - 1) ELSE << >>
    BY <1>2, <1>4, <1>7, <1>10
  <2>4. Words(value_stack, context, OperandsEnd(k))
          = Stack!Words(Stack!ContextEndOf(k, pc), Stack!OperandsEndOf(k) - 1)
    BY <1>2, <1>4, <1>9
  <2> HIDE DEF parent, ctx, locals, context, f, pc
  <2> QED
    BY <1>8, <1>13, <2>1, <2>2, <2>3, <2>4 DEF Stack!Activation, Activation
<1> QED
  BY <1>15, <1>16

(* So the memory of the interpreter stands for the recorded activations. *)
LEMMA Decoded ==
  ASSUME InterpreterConvention, status = "running"
  PROVE  InterpreterActs = RecordedActs
<1>1. /\ CallingConvention /\ Depth \in Nat /\ Stack!Activations = Depth
  BY FrameFacts, DecodedDepth DEF InterpreterConvention
<1>2. PICK list : list = [k \in 1 .. Depth |-> Stack!Activation(k, ResumeAddress(k))]
  OBVIOUS
<1>3. list = RecordedActs
  BY <1>2, DecodedActivation DEF RecordedActs
<1>4. IsList(list, Depth)
  BY <1>2 DEF IsList
<1>5. << >> \o list = list
  BY <1>1, <1>4, SequenceOf
<1>6. InterpreterActs = << >> \o list
  BY <1>1, <1>2, Zenon DEF InterpreterActs
<1> QED
  BY <1>3, <1>5, <1>6

-----------------------------------------------------------------------------
(* The specification ActivationMachine is instantiated, and with it the    *)
(* words and the opcodes: they are the same.                               *)

(* Both specifications mean the same sets of opcodes. *)
LEMMA SameOpcodes ==
  /\ Abstract!FnEnters = FnEnters
  /\ Abstract!Jumps = Jumps
  /\ Abstract!Branches = Branches
  /\ Abstract!Immediates = Immediates
  /\ Abstract!ObjectOpcodes = ObjectOpcodes
  /\ Abstract!BinaryOpcodes = BinaryOpcodes
  /\ Abstract!UnaryOpcodes = UnaryOpcodes
  /\ Abstract!IntArithmetic = IntArithmetic
  /\ Abstract!DecimalArithmetic = DecimalArithmetic
  /\ Abstract!IntComparisons = IntComparisons
<1>1. Abstract!IntArithmetic = IntArithmetic
  BY DEF Abstract!IntArithmetic, IntArithmetic
<1>2. Abstract!DecimalArithmetic = DecimalArithmetic
  BY DEF Abstract!DecimalArithmetic, DecimalArithmetic
<1>3. Abstract!IntComparisons = IntComparisons
  BY DEF Abstract!IntComparisons, IntComparisons
<1>4. Abstract!DecimalComparisons = DecimalComparisons
  BY DEF Abstract!DecimalComparisons, DecimalComparisons
<1>5. Abstract!Comparisons = Comparisons
  BY <1>3, <1>4 DEF Abstract!Comparisons, Comparisons
<1>6. Abstract!BinaryOpcodes = BinaryOpcodes
  BY <1>1, <1>2, <1>5 DEF Abstract!BinaryOpcodes, BinaryOpcodes
<1>7. Abstract!UnaryOpcodes = UnaryOpcodes
  BY DEF Abstract!UnaryOpcodes, UnaryOpcodes
<1>8. Abstract!FnEnters = FnEnters
  BY DEF Abstract!FnEnters, FnEnters
<1>9. Abstract!Branches = Branches
  BY DEF Abstract!Branches, Branches
<1>10. Abstract!Jumps = Jumps
  BY <1>9 DEF Abstract!Jumps, Jumps
<1>11. Abstract!Immediates = Immediates
  BY DEF Abstract!Immediates, Immediates
<1>12. Abstract!ObjectOpcodes = ObjectOpcodes
  BY DEF Abstract!ObjectOpcodes, ObjectOpcodes
<1> QED
  BY <1>8, <1>10, <1>9, <1>11, <1>12, <1>6, <1>7, <1>1, <1>2, <1>3

(* And the same words, with the same operations on them. *)
LEMMA SameWords ==
  /\ Abstract!Value = Value
  /\ \A n : Abstract!uvalue(n) = uvalue(n)
  /\ \A n : Abstract!ivalue(n) = ivalue(n)
  /\ Abstract!nvalue = nvalue
  /\ \A d : Abstract!dvalue(d) = dvalue(d)
  /\ \A s : Abstract!svalue(s) = svalue(s)
  /\ Abstract!undef = undef
  /\ Abstract!nullptr = nullptr
  /\ \A v : Abstract!IsNull(v) = IsNull(v)
  /\ Abstract!NativeCount = NativeCount
  /\ \A v : Abstract!HighWords(v) = HighWords(v)
  /\ \A o, v1, v2 : Abstract!BinaryResults(o, v1, v2) = BinaryResults(o, v1, v2)
  /\ \A o, v : Abstract!UnaryResults(o, v) = UnaryResults(o, v)
<1>1. Abstract!Tag = Tag
  BY DEF Abstract!Tag, Tag
<1>2. Abstract!Value = Value
  BY <1>1 DEF Abstract!Value, Value
<1>3. Abstract!DecimalUnit = DecimalUnit
  BY DEF Abstract!DecimalUnit, DecimalUnit
<1>4. Abstract!Unspecified = Unspecified
  BY DEF Abstract!Unspecified, Unspecified
<1>5. \A n : Abstract!Wrap(n) = Wrap(n)
  BY DEF Abstract!Wrap, Wrap
<1>6. \A n : Abstract!uvalue(n) = uvalue(n)
  BY DEF Abstract!uvalue, uvalue
<1>7. \A n : Abstract!ivalue(n) = ivalue(n)
  BY <1>5 DEF Abstract!ivalue, ivalue
<1>8. Abstract!nvalue = nvalue
  BY DEF Abstract!nvalue, nvalue
<1>9. \A b : Abstract!bvalue(b) = bvalue(b)
  BY DEF Abstract!bvalue, bvalue
<1>10. \A d : Abstract!dvalue(d) = dvalue(d)
  BY DEF Abstract!dvalue, dvalue
<1>11. \A s : Abstract!svalue(s) = svalue(s)
  BY DEF Abstract!svalue, svalue
<1>12. Abstract!NonFinite = NonFinite
  BY DEF Abstract!NonFinite, NonFinite
<1>13. Abstract!undef = undef
  BY DEF Abstract!undef, undef
<1>14. Abstract!nullptr = nullptr
  BY <1>6 DEF Abstract!nullptr, nullptr
<1>15. \A v : Abstract!IsNull(v) = IsNull(v)
  BY DEF Abstract!IsNull, IsNull
<1>16. Abstract!MinNormalBits = MinNormalBits
  BY DEF Abstract!MinNormalBits, MinNormalBits
<1>17. \A d : Abstract!FloatBits(d) = FloatBits(d)
  BY <1>16 DEF Abstract!FloatBits, FloatBits
<1>18. /\ \A v : Abstract!HighWords(v) = HighWords(v)
       /\ Abstract!NegativeZero = NegativeZero
       /\ Abstract!AnyFloat = AnyFloat
  <2>1. Abstract!NegativeZeroBits = NegativeZeroBits /\ Abstract!NonFiniteBits = NonFiniteBits
    BY DEF Abstract!NegativeZeroBits, NegativeZeroBits, Abstract!NonFiniteBits, NonFiniteBits
  <2>2. \A v : Abstract!HighWords(v) = HighWords(v)
    BY <1>4, <1>17, <2>1 DEF Abstract!HighWords, HighWords
  <2>3. Abstract!NegativeZero = NegativeZero
    BY DEF Abstract!NegativeZero, NegativeZero
  <2>4. Abstract!AnyFloat = AnyFloat
    BY <1>10, <1>12, <2>3, Zenon DEF Abstract!AnyFloat, AnyFloat
  <2> QED
    BY <2>2, <2>3, <2>4
<1>19. \A v : Abstract!Decimals(v) = Decimals(v)
  <2>1. \A n : Abstract!FloatsOfBits(n) = FloatsOfBits(n)
    BY <1>10, <1>12, <1>16, <1>18 DEF Abstract!FloatsOfBits, FloatsOfBits
  <2> QED
    BY <1>10, <1>18, <2>1 DEF Abstract!Decimals, Decimals
<1>20. \A n : Abstract!Magnitude(n) = Magnitude(n)
  BY DEF Abstract!Magnitude, Magnitude
<1>21. \A m, n : Abstract!Quotient(m, n) = Quotient(m, n)
  BY <1>20 DEF Abstract!Quotient, Quotient
<1>22. \A m, n : Abstract!Remainder(m, n) = Remainder(m, n)
  BY <1>21 DEF Abstract!Remainder, Remainder
<1>23. \A m, n : Abstract!Traps(m, n) = Traps(m, n)
  BY DEF Abstract!Traps, Traps
<1>24. \A o, m, n : Abstract!IntResults(o, m, n) = IntResults(o, m, n)
  BY <1>21, <1>22, <1>23 DEF Abstract!IntResults, IntResults
<1>25. \A o, a, b : Abstract!DecimalResults(o, a, b) = DecimalResults(o, a, b)
  <2>1. \A o, x, y : Abstract!Exact(o, x, y) = Exact(o, x, y)
    BY <1>3, <1>21, <1>22 DEF Abstract!Exact, Exact
  <2>2. \A a : Abstract!IsNegative(a) <=> IsNegative(a)
    BY <1>18 DEF Abstract!IsNegative, IsNegative
  <2>3. \A o, a, b : Abstract!ZeroIsNegative(o, a, b) <=> ZeroIsNegative(o, a, b)
    BY <2>2 DEF Abstract!ZeroIsNegative, ZeroIsNegative
  <2>4. \A o, a, b : Abstract!DecimalResult(o, a, b) = DecimalResult(o, a, b)
    BY <1>10, <1>12, <1>18, <2>1, <2>3 DEF Abstract!DecimalResult, DecimalResult
  <2>5. \A o, a : Abstract!NonFiniteResults(o, a) = NonFiniteResults(o, a)
    BY <1>10, <1>12, <1>18 DEF Abstract!NonFiniteResults, NonFiniteResults
  <2> QED
    BY <1>12, <2>4, <2>5 DEF Abstract!DecimalResults, DecimalResults
<1>26. \A o, m, n : Abstract!IntCompare(o, m, n) = IntCompare(o, m, n)
  BY DEF Abstract!IntCompare, IntCompare
<1>27. \A o, a, b : Abstract!DecimalComparison(o, a, b) = DecimalComparison(o, a, b)
  <2>1. \A o, x, y : Abstract!DecimalCompare(o, x, y) = DecimalCompare(o, x, y)
    BY DEF Abstract!DecimalCompare, DecimalCompare
  <2>2. Abstract!Either = Either
    BY <1>9, Zenon DEF Abstract!Either, Either
  <2> QED
    BY <1>9, <1>12, <2>1, <2>2 DEF Abstract!DecimalComparison, DecimalComparison
<1>28. \A a, n : Abstract!DecimalGreater(a, n) = DecimalGreater(a, n)
  <2>1. \A x, n : Abstract!FloatExceedsInt(x, n) = FloatExceedsInt(x, n)
    BY <1>3 DEF Abstract!FloatExceedsInt, FloatExceedsInt
  <2>2. Abstract!Either = Either
    BY <1>9, Zenon DEF Abstract!Either, Either
  <2> QED
    BY <1>9, <1>12, <2>1, <2>2 DEF Abstract!DecimalGreater, DecimalGreater
<1>29. \A o, v1, v2 : Abstract!IntOutcomes(o, v1, v2) = IntOutcomes(o, v1, v2)
  BY <1>7, <1>18, <1>24, SMTT(60) DEF Abstract!IntOutcomes, IntOutcomes
<1>30. \A o, v1, v2 : Abstract!DecimalOutcomes(o, v1, v2) = DecimalOutcomes(o, v1, v2)
  BY <1>19, <1>25, SMTT(60) DEF Abstract!DecimalOutcomes, DecimalOutcomes
<1>31. \A o, v1, v2 : Abstract!IntComparisonOutcomes(o, v1, v2) = IntComparisonOutcomes(o, v1, v2)
  BY <1>9, <1>18, <1>26 DEF Abstract!IntComparisonOutcomes, IntComparisonOutcomes
<1>32. \A v1, v2 : Abstract!DecimalGreaterOutcomes(v1, v2) = DecimalGreaterOutcomes(v1, v2)
  BY <1>18, <1>19, <1>28, SMTT(60) DEF Abstract!DecimalGreaterOutcomes, DecimalGreaterOutcomes
<1>33. \A o, v1, v2 : Abstract!DecimalComparisonOutcomes(o, v1, v2) = DecimalComparisonOutcomes(o, v1, v2)
  BY <1>19, <1>27, SMTT(60) DEF Abstract!DecimalComparisonOutcomes, DecimalComparisonOutcomes
<1>34. \A v1, v2 : Abstract!Concatenation(v1, v2) = Concatenation(v1, v2)
  BY <1>11 DEF Abstract!Concatenation, Concatenation
<1>35. \A o, v1, v2 : Abstract!BinaryResults(o, v1, v2) = BinaryResults(o, v1, v2)
  BY SameOpcodes, <1>29, <1>30, <1>31, <1>32, <1>33, <1>34
  DEF Abstract!BinaryResults, BinaryResults
<1>36. \A o, v : Abstract!UnaryResults(o, v) = UnaryResults(o, v)
  <2>1. \A a : Abstract!Negation(a) = Negation(a)
    BY <1>10, <1>12, <1>18 DEF Abstract!Negation, Negation
  <2> QED
    BY <1>3, <1>7, <1>10, <1>18, <1>19, <2>1 DEF Abstract!UnaryResults, UnaryResults
<1>37. Abstract!NativeCount = NativeCount
  BY DEF Abstract!NativeCount, NativeCount
<1> QED
  BY <1>2, <1>6, <1>7, <1>8, <1>10, <1>11, <1>13, <1>14, <1>15, <1>37, <1>18, <1>35, <1>36

-----------------------------------------------------------------------------
(* The running activation and its context *)

(* What ActivationMachine calls running is the recorded current one, and   *)
(* the instruction is the one the handler is chosen by.                    *)
LEMMA RunningNow ==
  ASSUME InterpreterConvention, status = "running"
  PROVE  /\ InterpreterActs = RecordedActs
         /\ Abstract!ATop = Depth
         /\ Abstract!Running = Current
         /\ Abstract!Instr = program.code[ip]
<1>1. CallingConvention
  BY DEF InterpreterConvention
<1>2. InterpreterActs = RecordedActs
  BY Decoded
<1>3. Abstract!ATop = Depth /\ Abstract!Running = Current
  BY <1>1, <1>2, ActsFacts DEF Abstract!ATop, Abstract!Running
<1>4. Current.pc = ip
  <2>1. CASE Entering
    BY <1>1, <2>1, EnteringCurrent, ActivationFields
  <2>2. CASE ~Entering
    BY <1>1, <2>2, CurrentFacts, ActivationFields
  <2> QED
    BY <2>1, <2>2
<1> QED
  BY <1>2, <1>3, <1>4 DEF Abstract!Instr

(* After it is entered its fields are what the registers say, and its      *)
(* slots are those of context_object.                                      *)
LEMMA RunningFields ==
  ASSUME InterpreterConvention, status = "running", ~Entering
  PROVE  /\ Current = Activation(ip, Frame.args, OperandWords, Local(0), CurrentContext,
                                LocalWords, Frame.dest)
         /\ Current.args = Frame.args
         /\ Current.operands = OperandWords
         /\ Current.ctx = CurrentContext
         /\ Current.locals = LocalWords
         /\ Current.dest = Frame.dest
         /\ Abstract!IsLeaf <=> Leaf
         /\ ~Leaf => CurrentContext = context_object /\ context_object \in HeapContexts
         /\ \A s \in 0 .. FrameSize(program, Frame.entry) - 1 : Abstract!GetSlot(s) = Local(s)
<1>1. CallingConvention
  BY DEF InterpreterConvention
<1>2. Abstract!Running = Current
  BY RunningNow
<1>3. Current = Activation(ip, Frame.args, OperandWords, Local(0), CurrentContext,
                           LocalWords, Frame.dest)
  BY <1>1, CurrentFacts
<1>4. /\ Current.args = Frame.args
      /\ Current.operands = OperandWords
      /\ Current.ctx = CurrentContext
      /\ Current.locals = LocalWords
      /\ Current.dest = Frame.dest
  BY <1>3, ActivationFields
<1>5. ~Leaf => /\ CurrentContext = context_object
               /\ context_object \in HeapContexts
               /\ context_object # nullptr
  BY <1>1, ContextFacts, HeapContextFacts DEF Leaf, CurrentContext
<1>6. Leaf => CurrentContext = nullptr
  BY DEF CurrentContext
<1>7. Abstract!IsLeaf <=> Leaf
  BY <1>2, <1>4, <1>5, <1>6, SameWords DEF Abstract!IsLeaf
<1>8. ASSUME NEW s \in 0 .. FrameSize(program, Frame.entry) - 1
      PROVE  Abstract!GetSlot(s) = Local(s)
  <2>1. CASE Leaf
    BY <1>1, <1>2, <1>4, <1>7, <2>1, SlotsOfCurrent DEF Abstract!GetSlot
  <2>2. CASE ~Leaf
    BY <1>1, <1>2, <1>4, <1>5, <1>7, <2>2, SlotsOfCurrent DEF Abstract!GetSlot
  <2> QED
    BY <2>1, <2>2
<1> QED
  BY <1>3, <1>4, <1>5, <1>7, <1>8

(* The enclosing contexts are found by the numbers the engine's pointers   *)
(* have.                                                                   *)
LEMMA EnclosingFound ==
  ASSUME InterpreterConvention, status = "running", ~Entering,
         NEW depth, depth \in Nat, depth > 0
  PROVE  Abstract!Enclosing(depth) = IF Ancestor(depth) \in HeapContexts
                                       THEN Ancestor(depth)[2] ELSE 0
<1>1. CallingConvention
  BY DEF InterpreterConvention
<1>2. FrameSize(program, Frame.entry) \in Nat \ {0}
  BY <1>1, FrameFacts DEF Frame
<1>3. Abstract!GetSlot(0) = Local(0)
  BY <1>2, RunningFields
<1>4. Abstract!Enclosing(depth) = EnclosingNumber(Abstract!GetSlot(0), depth)
  BY DEF Abstract!Enclosing, EnclosingNumber, Abstract!ContextNumber, NumberOf
<1>5. Abstract!Enclosing(depth) = EnclosingNumber(Local(0), depth)
  BY <1>3, <1>4, Zenon
<1> QED
  BY <1>1, <1>5, WalkToAncestor

(* The words in use are those below the stack pointer.                     *)
LEMMA InUseFound ==
  ASSUME InterpreterConvention, status = "running"
  PROVE  Abstract!InUse = stack_pointer
<1>1. CallingConvention
  BY DEF InterpreterConvention
<1>2. LinkagesTake(LinkageWords)
  <2>1. SUFFICES ASSUME NEW k \in 2 .. Depth
                 PROVE  Len(frames[k].linkage) = 5
    BY DEF LinkagesTake, LinkageWords
  <2>2. PICK words : words = frames[k].linkage
    OBVIOUS
  <2>3. words = <<uvalue(Len(frames[k].args)), <<"code", frames[k].resume>>, frames[k].ctx,
                  uvalue(WORD * frames[k].dest), frames[k].parent>>
    BY <2>2 DEF InterpreterConvention, LinkageRecorded
  <2>4. Len(words) = 5
    BY <2>3
  <2> QED
    BY <2>2, <2>4
<1>3. WordsTaken(LinkageWords) = stack_pointer
  BY <1>1, <1>2, WordsInUse DEF LinkageWords
<1>4. Abstract!InUse = WordsTaken(LinkageWords)
  BY RunningNow DEF Abstract!InUse, WordsTaken
<1> QED
  BY <1>3, <1>4

-----------------------------------------------------------------------------
(* What the handlers read and compute *)

(* The operands of an instruction are slots of the running context.        *)
LEMMA OperandSlots ==
  ASSUME CallingConvention, ~Entering
  PROVE  LET i == program.code[ip] IN
         /\ op \in {"MOV", "CALL_NATIVE", "PUSH"} \cup Branches \cup BinaryOpcodes \cup UnaryOpcodes
              => /\ AtOffset(op1) = Local(i.op1)
                 /\ i.op1 \in 0 .. FrameSize(program, Frame.entry) - 1
         /\ op \in BinaryOpcodes => /\ AtOffset(op2) = Local(i.op2)
                                    /\ i.op2 \in 0 .. FrameSize(program, Frame.entry) - 1
<1> DEFINE i == program.code[ip]
           slots == 0 .. FrameSize(program, Frame.entry) - 1
<1>1. SlotsRead(i) \subseteq slots /\ op = i.op
  BY InstructionFacts, Decoding DEF WellFormedAt
<1>2. ASSUME op \in {"MOV", "CALL_NATIVE", "PUSH"} \cup Branches \cup BinaryOpcodes
                       \cup UnaryOpcodes
      PROVE  AtOffset(op1) = Local(i.op1) /\ i.op1 \in slots
  <2>1. i.op1 \in SlotsRead(i)
    BY <1>2, Decoding DEF SlotsRead
  <2>2. ~IsImmediate(op)
    BY <1>2 DEF IsImmediate, FnEnters, ObjectOpcodes, Branches, BinaryOpcodes, UnaryOpcodes,
       IntArithmetic, DecimalArithmetic, Comparisons, IntComparisons, DecimalComparisons
  <2>3. i.op1 \in Nat
    BY <2>1, SlotFacts
  <2> QED
    BY <1>1, <2>1, <2>2, <2>3, Decoding, Unscaled DEF AtOffset
<1>3. ASSUME op \in BinaryOpcodes
      PROVE  AtOffset(op2) = Local(i.op2) /\ i.op2 \in slots
  <2>1. i.op2 \in SlotsRead(i)
    BY <1>3, Decoding DEF SlotsRead
  <2>2. ~IsImmediate(op)
    BY <1>3 DEF IsImmediate, FnEnters, ObjectOpcodes, BinaryOpcodes,
       IntArithmetic, DecimalArithmetic, Comparisons, IntComparisons, DecimalComparisons
  <2>3. i.op2 \in Nat
    BY <2>1, SlotFacts
  <2> QED
    BY <1>1, <2>1, <2>2, <2>3, Decoding, Unscaled DEF AtOffset
<1> QED
  BY <1>2, <1>3

-----------------------------------------------------------------------------
(* The invariant *)

RefinementInvariant == InterpreterConvention /\ WordsKnown

(* A handler that computes a word computes a known one. *)
LEMMA ComputedKnown ==
  ASSUME CallingConvention, WordsKnown, NEW v, Computes(v), Known(v, fn_refs'),
         DOMAIN fn_refs \subseteq DOMAIN fn_refs'
  PROVE  WordsKnown'
<1>1. PICK i : StoreSlot(context_object, i, v)
  BY DEF Computes, Destination
<1> QED
  BY <1>1, StoresKnown

(* So does every handler. *)
LEMMA HandlersKnown ==
  ASSUME InterpreterConvention, WordsKnown, WithinActivation, UNCHANGED frames
  PROVE  WordsKnown'
<1> DEFINE i == program.code[ip]
<1>1. CallingConvention
  BY DEF InterpreterConvention
<1>2. CASE FnEnterHeap \/ FnEnterStack
  BY <1>1, <1>2, FnEnterEnters, EnterKnown
<1>3. CASE Jump \/ Branch \/ ObjectAccess \/ ReturnFromRoot \/ ErrorExit \/ UndefinedBehaviour
  <2>1. UNCHANGED <<value_stack, heap, fn_refs>>
    BY <1>3 DEF Jump, Branch, ObjectAccess, ReturnFromRoot, ErrorExit, UndefinedBehaviour, machine
  <2> QED
    BY <2>1 DEF WordsKnown
<1>4. CASE MoveImmediate
  <2>1. PICK v : v = ImmediateValue(op, op1)
    OBVIOUS
  <2>2. op \in Immediates /\ Computes(v) /\ fn_refs' = fn_refs
    BY <1>4, <2>1 DEF MoveImmediate, Executes
  <2>3. Known(v, fn_refs)
    <3>1. IsInstruction(i)
      BY <1>1, InstructionFacts
    <3>2. op = "MOV_INT" => op1 \in Int
      BY <2>2, <3>1, Decoding DEF IsInstruction, IsImmediate
    <3>3. Plain(v)
      BY <2>1, <2>2, <3>2, PlainWords DEF ImmediateValue, Immediates
    <3> QED
      BY <3>3, PlainKnown
  <2> QED
    BY <1>1, <2>2, <2>3, ComputedKnown
<1>5. CASE Move
  <2>1. PICK v : v = AtOffset(op1)
    OBVIOUS
  <2>2. op = "MOV" /\ Computes(v) /\ fn_refs' = fn_refs
    BY <1>5, <2>1 DEF Move, Executes
  <2>3. ~Entering
    BY <1>1, <2>2, Decoding, InstructionFacts DEF FnEnters
  <2>4. Known(v, fn_refs)
    BY <1>1, <2>1, <2>2, <2>3, OperandSlots, LocalsKnown
  <2> QED
    BY <1>1, <2>2, <2>4, ComputedKnown
<1>6. CASE MoveFunction
  <2>1. PICK v, new : /\ v = <<"fnref", Len(fn_refs) + 1>>
                      /\ new = [parent |-> context_object, entry |-> op1]
    OBVIOUS
  <2>2. Computes(v) /\ fn_refs' = Append(fn_refs, new)
    BY <1>6, <2>1 DEF MoveFunction
  <2>3. fn_refs \in Seq(FnRef)
    BY <1>1, StateFacts
  <2>4. DOMAIN fn_refs' = 1 .. Len(fn_refs) + 1
    BY <2>2, <2>3
  <2>5. Known(v, fn_refs') /\ DOMAIN fn_refs \subseteq DOMAIN fn_refs'
    BY <2>1, <2>3, <2>4 DEF Known, IntInRange
  <2> QED
    BY <1>1, <2>2, <2>5, ComputedKnown
<1>7. CASE Binary \/ Unary
  <2>1. PICK v : /\ Computes(v)
                 /\ \/ op \in BinaryOpcodes /\ v \in BinaryResults(op, AtOffset(op1), AtOffset(op2))
                    \/ op \in UnaryOpcodes /\ v \in UnaryResults(op, AtOffset(op1))
    BY <1>7 DEF Binary, Unary, Executes
  <2>2. fn_refs' = fn_refs
    BY <1>7 DEF Binary, Unary
  <2>3. Known(v, fn_refs)
    <3>1. ~Entering
      <4>1. op \in BinaryOpcodes \cup UnaryOpcodes
        BY <2>1
      <4>2. op \notin FnEnters
        BY <4>1 DEF FnEnters, BinaryOpcodes, UnaryOpcodes, IntArithmetic, DecimalArithmetic,
           Comparisons, IntComparisons, DecimalComparisons
      <4> QED
        BY <1>1, <4>2, Decoding, InstructionFacts
    <3>2. /\ AtOffset(op1) \in Value
          /\ op \in BinaryOpcodes => AtOffset(op2) \in Value
      BY <1>1, <2>1, <3>1, OperandsAreValues
    <3>3. Plain(v)
      BY <2>1, <3>2, OperatorsPlain
    <3> QED
      BY <3>3, PlainKnown
  <2> QED
    BY <1>1, <2>1, <2>2, <2>3, ComputedKnown
<1>8. CASE ArgRead
  <2>1. PICK v, a : v = StackWord(a) /\ Computes(v)
    BY <1>8 DEF ArgRead
  <2>2. fn_refs' = fn_refs
    BY <1>8 DEF ArgRead
  <2>3. Known(v, fn_refs)
    BY <2>1, PlainWords, PlainKnown DEF StackWord, WordsKnown
  <2> QED
    BY <1>1, <2>1, <2>2, <2>3, ComputedKnown
<1>9. CASE GetInParent
  <2>1. PICK v, c, n : v = Slot(c, n) /\ c = Ancestor(op1) /\ n = op2
    OBVIOUS
  <2>2. op = "GET_IN_PARENT" /\ ~IsUndefined /\ Computes(v) /\ fn_refs' = fn_refs
    BY <1>9, <2>1 DEF GetInParent, Executes
  <2>3. ~Entering
    BY <1>1, <2>2, Decoding, InstructionFacts DEF FnEnters
  <2>4. c \in Contexts /\ HasSlot(c, n)
    BY <2>1, <2>2 DEF IsUndefined, BinaryOpcodes, IntArithmetic, DecimalArithmetic, Comparisons,
       IntComparisons, DecimalComparisons
  <2>5. c \in HeapContexts
    BY <1>1, <2>1, <2>3, <2>4, AncestorFacts
  <2>6. v = heap[c[2]][n + 1] /\ c[2] \in DOMAIN heap /\ n + 1 \in DOMAIN heap[c[2]]
    BY <1>1, <2>1, <2>4, <2>5, HeapContextFacts DEF Slot, HasSlot
  <2>7. Known(v, fn_refs)
    BY <2>6 DEF WordsKnown
  <2> QED
    BY <1>1, <2>2, <2>7, ComputedKnown
<1>10. CASE CallNative
  <2>1. Computes(ivalue(0)) /\ fn_refs' = fn_refs
    BY <1>10 DEF CallNative
  <2>2. Known(ivalue(0), fn_refs)
    BY PlainWords, PlainKnown
  <2> QED
    BY <1>1, <2>1, <2>2, ComputedKnown
<1>11. CASE Pop
  <2>1. Computes(Top) /\ fn_refs' = fn_refs /\ op = "POP"
    BY <1>11 DEF Pop, Executes
  <2>2. stack_pointer - 1 \in StackIndexes
    BY <1>1, <2>1, Decoding, TopFacts
  <2>3. Known(Top, fn_refs)
    BY <2>2 DEF WordsKnown, Top
  <2> QED
    BY <1>1, <2>1, <2>3, ComputedKnown
<1>12. CASE Push
  <2>1. PICK v, words : v = AtOffset(op1) /\ words = <<v>>
    OBVIOUS
  <2>2. op = "PUSH" /\ PushWord(v)
    BY <1>12, <2>1 DEF Push, Executes
  <2>3. ~Entering
    BY <1>1, <2>2, Decoding, InstructionFacts DEF FnEnters
  <2>4. Known(v, fn_refs)
    BY <1>1, <2>1, <2>2, <2>3, OperandSlots, LocalsKnown
  <2>5. value_stack' = Pushed(value_stack, stack_pointer, words) /\ UNCHANGED <<heap, fn_refs>>
    BY <2>1, <2>2 DEF PushWord
  <2>6. Len(words) = 1 /\ words[1] = v
    BY <2>1
  <2>7. Len(words) \in Nat /\ \A j \in 1 .. Len(words) : Known(words[j], fn_refs)
    BY <2>4, <2>6
  <2> QED
    BY <1>1, <2>5, <2>7, PushesKnown
<1>13. CASE SetInParent
  <2>1. PICK c, n, v : v = Local(i.op2) /\ StoreSlot(c, n, v)
    BY <1>13, Decoding DEF SetInParent, Executes, IsImmediate
  <2>2. op = "SET_IN_PARENT" /\ fn_refs' = fn_refs
    BY <1>13 DEF SetInParent, Executes
  <2>3. ~Entering
    BY <1>1, <2>2, Decoding, InstructionFacts DEF FnEnters
  <2>4. i.op2 \in 0 .. FrameSize(program, Frame.entry) - 1
    BY <1>1, <2>2, Decoding, InstructionFacts DEF WellFormedAt, SlotsRead
  <2>5. Known(v, fn_refs)
    BY <1>1, <2>1, <2>3, <2>4, LocalsKnown
  <2> QED
    BY <1>1, <2>1, <2>2, <2>5, StoresKnown
<1> QED
  BY <1>2, <1>3, <1>4, <1>5, <1>6, <1>7, <1>8, <1>9, <1>10, <1>11, <1>12, <1>13
  DEF WithinActivation

(* The invariant of the refinement proof is preserved. *)
LEMMA RefinementStays ==
  ASSUME RefinementInvariant, [HNext]_hvars
  PROVE  RefinementInvariant'
<1>1. InterpreterConvention' /\ CallingConvention
  BY NextCorrect DEF RefinementInvariant, InterpreterConvention
<1>2. CASE HWithin
  <2>1. /\ InterpreterConvention /\ WordsKnown
        /\ WithinActivation /\ UNCHANGED frames
    BY <1>2 DEF HWithin, RefinementInvariant
  <2>2. WordsKnown'
    BY <2>1, HandlersKnown
  <2> QED
    BY <1>1, <2>2 DEF RefinementInvariant
<1>3. CASE HReturn
  BY <1>1, <1>3, ReturnReturns, ReturnKnown DEF HReturn, RefinementInvariant
<1>4. CASE HCall
  <2>1. PICK words : words = Linkage
    OBVIOUS
  <2>2. /\ CallStep(words)
        /\ words = <<uvalue(program.code[ip].op2), <<"code", ip + 1>>, context_object,
                     uvalue(WORD * program.code[ip].dest),
                     Callee(Local(program.code[ip].op1)).parent>>
    BY <1>1, <1>4, <2>1, CallCalls
  <2>3. /\ value_stack' = Pushed(value_stack, stack_pointer, words)
        /\ UNCHANGED <<heap, fn_refs>>
        /\ Len(words) = 5
    BY <2>2 DEF CallStep
  <2>4. /\ context_object \in Context
        /\ Callee(Local(program.code[ip].op1)).parent \in Context
    BY <1>1, <2>2, CallFacts DEF CallStep
  <2>5. \A j \in 1 .. Len(words) : Known(words[j], fn_refs)
    <3>1. /\ words[1] = uvalue(program.code[ip].op2) /\ words[2] = <<"code", ip + 1>>
          /\ words[3] = context_object /\ words[4] = uvalue(WORD * program.code[ip].dest)
          /\ words[5] = Callee(Local(program.code[ip].op1)).parent
      BY <2>2
    <3>2. \A j \in 1 .. 5 : j = 1 \/ j = 2 \/ j = 3 \/ j = 4 \/ j = 5
      OBVIOUS
    <3>3. Plain(words[3]) /\ Plain(words[5])
      BY <2>4, <3>1, PlainWords
    <3>4. Plain(words[1]) /\ Plain(words[2]) /\ Plain(words[4])
      BY <3>1, PlainWords
    <3> QED
      BY <2>3, <3>2, <3>3, <3>4, PlainKnown
  <2> QED
    BY <1>1, <2>3, <2>5, PushesKnown DEF RefinementInvariant
<1>5. CASE HHalted \/ UNCHANGED hvars
  <2>1. UNCHANGED <<value_stack, heap, fn_refs>> /\ WordsKnown
    BY <1>5 DEF HHalted, Halted, hvars, vars, machine, RefinementInvariant
  <2>2. WordsKnown'
    BY <2>1 DEF WordsKnown
  <2> QED
    BY <1>1, <2>2 DEF RefinementInvariant
<1> QED
  BY <1>1, <1>2, <1>3, <1>4, <1>5 DEF HNext, RefinementInvariant

(* And it holds at the start, when no reference and no int is anywhere. *)
LEMMA RefinementStarts ==
  ASSUME HInit
  PROVE  RefinementInvariant
<1>1. InterpreterConvention
  BY InitCorrect
<1>2. WordsKnown
  <2>1. /\ \A k \in StackIndexes : value_stack[k] \in {nullptr, undef}
        /\ heap = << >>
    BY DEF HInit, Init, SharedInit
  <2> QED
    BY <2>1, PlainWords, PlainKnown DEF WordsKnown
<1> QED
  BY <1>1, <1>2 DEF RefinementInvariant

-----------------------------------------------------------------------------
(* The steps of the running activation *)

(* While the program runs the activations are the recorded ones, so what   *)
(* the history says of a step is said of the refinement.                   *)
LEMMA BecomesCurrent ==
  ASSUME InterpreterConvention, status = "running",
         InterpreterConvention', status' = "running"
  PROVE  /\ InterpreterActs' = RecordedActs'
         /\ \A a : RecordedActs' = [RecordedActs EXCEPT ![Depth] = a] => Abstract!Becomes(a)
<1>1. InterpreterActs' = RecordedActs'
  <2>1. (InterpreterConvention /\ status = "running" => InterpreterActs = RecordedActs)'
    BY Decoded, PTL
  <2> QED
    BY <2>1
<1>2. InterpreterActs = RecordedActs /\ Abstract!ATop = Depth
  BY RunningNow
<1>3. ASSUME NEW a, RecordedActs' = [RecordedActs EXCEPT ![Depth] = a]
      PROVE  Abstract!Becomes(a)
  BY <1>1, <1>2, <1>3, Zenon DEF Abstract!Becomes
<1> QED
  BY <1>1, <1>3

(* The running activation at the next instruction, some operands used. *)
LEMMA Advanced ==
  ASSUME InterpreterConvention, status = "running", ~Entering
  PROVE  /\ Abstract!Advance(Abstract!Running)
              = Activation(ip + 1, Frame.args, OperandWords, Local(0), CurrentContext, LocalWords,
                           Frame.dest)
         /\ \A to : [Abstract!Running EXCEPT !.pc = to]
              = Activation(to, Frame.args, OperandWords, Local(0), CurrentContext, LocalWords,
                           Frame.dest)
         /\ \A n : Abstract!DropOperands(Abstract!Advance(Abstract!Running), n)
              = Activation(ip + 1, Frame.args, Part(OperandWords, 1, Len(OperandWords) - n),
                           Local(0), CurrentContext, LocalWords, Frame.dest)
<1>1. Abstract!Running = Activation(ip, Frame.args, OperandWords, Local(0), CurrentContext,
                                    LocalWords, Frame.dest)
  BY RunningNow, RunningFields
<1>2. \A to : [Abstract!Running EXCEPT !.pc = to]
              = Activation(to, Frame.args, OperandWords, Local(0), CurrentContext, LocalWords,
                           Frame.dest)
  BY <1>1, ActivationFields
<1>3. Abstract!Running.pc = ip
  BY <1>1, ActivationFields
<1>4. Abstract!Advance(Abstract!Running) = [Abstract!Running EXCEPT !.pc = ip + 1]
  BY <1>3, Zenon DEF Abstract!Advance
<1>5. Abstract!Advance(Abstract!Running)
        = Activation(ip + 1, Frame.args, OperandWords, Local(0), CurrentContext, LocalWords,
                     Frame.dest)
  BY <1>2, <1>4
<1>6. ASSUME NEW n
      PROVE  Abstract!DropOperands(Abstract!Advance(Abstract!Running), n)
               = Activation(ip + 1, Frame.args, Part(OperandWords, 1, Len(OperandWords) - n),
                            Local(0), CurrentContext, LocalWords, Frame.dest)
  <2>1. PICK a : a = Abstract!Advance(Abstract!Running)
    OBVIOUS
  <2>2. a.operands = OperandWords
    BY <1>5, <2>1, ActivationFields
  <2>3. Abstract!DropOperands(a, n) = [a EXCEPT !.operands = Part(a.operands, 1, Len(a.operands) - n)]
    BY Zenon DEF Abstract!DropOperands, Part
  <2>4. Abstract!DropOperands(a, n)
          = [a EXCEPT !.operands = Part(OperandWords, 1, Len(OperandWords) - n)]
    BY <2>2, <2>3
  <2> QED
    BY <1>5, <2>1, <2>4, ActivationFields
<1> QED
  BY <1>2, <1>5, <1>6

(* Jumps and branches move the program counter. *)
LEMMA JumpsRefine ==
  ASSUME InterpreterConvention, InterpreterConvention', Jump \/ Branch, UNCHANGED frames
  PROVE  Abstract!AJump
<1> DEFINE i == program.code[ip]
           moved(to) == Activation(to, Frame.args, OperandWords, Local(0), CurrentContext,
                                   LocalWords, Frame.dest)
<1>1. CallingConvention /\ LocalStep
  BY ControlLocal DEF InterpreterConvention
<1>2. /\ status = "running" /\ status' = "running" /\ ~Entering /\ program' = program
      /\ UNCHANGED <<value_stack, stack_pointer, heap, fn_refs, output>>
  BY <1>1 DEF Jump, Branch, Executes, LocalStep, machine
<1>3. Abstract!Becomes(moved(ip'))
  BY <1>1, <1>2, MovingActs, BecomesCurrent
<1>4. /\ Abstract!Instr = i
      /\ op = i.op /\ destination = i.dest
  <2>1. op \in Jumps
    BY DEF Jump, Branch, Executes, Jumps
  <2> QED
    BY <1>2, <2>1, RunningNow, Decoding DEF UsingDestinationOffset
<1>5. i.op \in Abstract!Jumps /\ Abstract!Runs(Abstract!Jumps)
  BY <1>2, <1>4, SameOpcodes DEF Jump, Branch, Executes, Jumps, Abstract!Runs
<1>6. CASE Jump
  <2>1. i.op = "JMP" /\ ip' = i.dest
    BY <1>4, <1>6 DEF Jump, Executes
  <2>2. Abstract!Becomes([Abstract!Running EXCEPT !.pc = i.dest])
    BY <1>2, <1>3, <2>1, Advanced
  <2> QED
    BY <1>2, <1>4, <1>5, <2>1, <2>2 DEF Abstract!AJump
<1>7. CASE Branch
  <2>1. op \in Branches /\ i.op # "JMP"
    BY <1>4, <1>7 DEF Branch, Executes, Branches
  <2>2. AtOffset(op1) = Local(i.op1) /\ Abstract!GetSlot(i.op1) = Local(i.op1)
    BY <1>1, <1>2, <2>1, OperandSlots, RunningFields
  <2>3. PICK n \in Abstract!HighWords(Abstract!GetSlot(i.op1)) :
          ip' = IF (n # 0) = (i.op = "JMP_TRUE") THEN i.dest ELSE ip + 1
    BY <1>4, <1>7, <2>2, SameWords DEF Branch
  <2>4. Abstract!Becomes(IF (n # 0) = (i.op = "JMP_TRUE")
                           THEN [Abstract!Running EXCEPT !.pc = i.dest]
                           ELSE Abstract!Advance(Abstract!Running))
    <3>1. CASE (n # 0) = (i.op = "JMP_TRUE")
      <4>1. Abstract!Becomes([Abstract!Running EXCEPT !.pc = i.dest])
        BY <1>2, <1>3, <2>3, <3>1, Advanced
      <4> QED
        BY <3>1, <4>1
    <3>2. CASE ~((n # 0) = (i.op = "JMP_TRUE"))
      <4>1. Abstract!Becomes(Abstract!Advance(Abstract!Running))
        BY <1>2, <1>3, <2>3, <3>2, Advanced
      <4> QED
        BY <3>2, <4>1
    <3> QED
      BY <3>1, <3>2
  <2> QED
    BY <1>2, <1>4, <1>5, <2>1, <2>3, <2>4 DEF Abstract!AJump
<1> QED
  BY <1>6, <1>7

(* Accesses to objects are skipped. *)
LEMMA SkipsRefine ==
  ASSUME InterpreterConvention, InterpreterConvention', ObjectAccess, UNCHANGED frames
  PROVE  Abstract!ASkip
<1>1. CallingConvention /\ LocalStep
  BY ControlLocal DEF InterpreterConvention
<1>2. /\ status = "running" /\ status' = "running" /\ ~Entering /\ program' = program
      /\ UNCHANGED <<value_stack, stack_pointer, heap, fn_refs, output>>
      /\ ip' = ip + 1 /\ op \in ObjectOpcodes
  BY <1>1 DEF ObjectAccess, Executes, LocalStep, machine, GotoNext
<1>3. Abstract!Becomes(Abstract!Advance(Abstract!Running))
  BY <1>1, <1>2, MovingActs, BecomesCurrent, Advanced
<1>4. Abstract!Instr = program.code[ip] /\ op = program.code[ip].op
  BY <1>2, RunningNow, Decoding
<1> QED
  BY <1>2, <1>3, <1>4, SameOpcodes DEF Abstract!ASkip, Abstract!Runs

(* PUSH appends to the operands. *)
LEMMA PushRefines ==
  ASSUME InterpreterConvention, InterpreterConvention', Push, UNCHANGED frames
  PROVE  Abstract!APush
<1> DEFINE i == program.code[ip]
<1>1. CallingConvention /\ LocalStep
  BY PushLocal DEF InterpreterConvention
<1>2. PICK word : word = AtOffset(op1)
  OBVIOUS
<1>3. /\ status = "running" /\ status' = "running" /\ ~Entering /\ program' = program
      /\ op = "PUSH" /\ PushWord(word) /\ ip' = ip + 1 /\ ~ExitsWithError
      /\ UNCHANGED <<heap, fn_refs, output>>
  BY <1>1, <1>2 DEF Push, Executes, LocalStep, GotoNext, PushWord
<1>4. word = Local(i.op1) /\ Abstract!GetSlot(i.op1) = word /\ word \in Value
  BY <1>1, <1>2, <1>3, OperandSlots, RunningFields, LocalsAreValues
<1>5. stack_pointer <= STACK_MAX
  <2>1. CanPush(stack_pointer, 1) /\ stack_pointer \in Nat
    BY <1>1, <1>3, StateFacts DEF ExitsWithError
  <2> QED
    BY <2>1, StackMaxAssumption DEF CanPush
<1>6. PICK operands : operands = Append(OperandWords, word)
  OBVIOUS
<1>7. RecordedActs' =
        [RecordedActs EXCEPT ![Depth] =
           Activation(ip + 1, Frame.args, operands, Local(0), CurrentContext, LocalWords,
                      Frame.dest)]
  BY <1>1, <1>3, <1>4, <1>5, <1>6, PushingActs
<1>8. Abstract!Becomes(Activation(ip + 1, Frame.args, operands, Local(0), CurrentContext,
                                  LocalWords, Frame.dest))
  BY <1>3, <1>7, BecomesCurrent
<1>9. PICK a : a = Abstract!Advance(Abstract!Running)
  OBVIOUS
<1>10. a.operands = OperandWords
  BY <1>3, <1>9, Advanced, ActivationFields
<1>11. [a EXCEPT !.operands = operands]
         = Activation(ip + 1, Frame.args, operands, Local(0), CurrentContext, LocalWords, Frame.dest)
  BY <1>3, <1>9, Advanced, ActivationFields
<1>12. Abstract!Becomes([a EXCEPT !.operands = operands])
  BY <1>8, <1>11
<1>13. Abstract!Becomes([a EXCEPT !.operands = Append(@, word)])
  BY <1>6, <1>10, <1>12, Zenon
<1>14. Abstract!Instr = i /\ i.op = "PUSH"
  BY <1>3, RunningNow, Decoding
<1> QED
  BY <1>3, <1>4, <1>9, <1>13, <1>14, Zenon DEF Abstract!APush, Abstract!Runs

(* SET_IN_PARENT writes the slot of the enclosing context it names. *)
LEMMA SetInParentRefines ==
  ASSUME InterpreterConvention, InterpreterConvention', SetInParent, UNCHANGED frames
  PROVE  Abstract!ASetInParent
<1> DEFINE i == program.code[ip]
<1>1. CallingConvention /\ LocalStep
  BY SetInParentLocal DEF InterpreterConvention
<1>2. /\ status = "running" /\ status' = "running" /\ ~Entering /\ program' = program
      /\ op = "SET_IN_PARENT" /\ ~IsUndefined /\ ip' = ip + 1
      /\ UNCHANGED <<stack_pointer, fn_refs, output>>
      /\ StoreSlot(Ancestor(op1), destination, Local(op2))
  BY <1>1 DEF SetInParent, Executes, LocalStep, GotoNext
<1>3. i.op = op /\ op1 = i.op1 /\ op2 = i.op2 /\ destination = i.dest
  BY <1>2, Decoding DEF IsImmediate, UsingDestinationOffset
<1>4. PICK c, v : c = Ancestor(i.op1) /\ v = Local(i.op2)
  OBVIOUS
<1>5. i.op1 \in Nat \ {0} /\ i.op2 \in 0 .. FrameSize(program, Frame.entry) - 1
  BY <1>1, <1>2, <1>3, InstructionFacts DEF WellFormedAt, SlotsRead
<1>6. Abstract!GetSlot(i.op2) = v
  BY <1>2, <1>4, <1>5, RunningFields
<1>7. c \in Contexts /\ HasSlot(c, i.dest)
  BY <1>2, <1>3, <1>4 DEF IsUndefined, BinaryOpcodes, IntArithmetic, DecimalArithmetic,
     Comparisons, IntComparisons, DecimalComparisons
<1>8. c \in HeapContexts
  BY <1>1, <1>2, <1>4, <1>7, AncestorFacts
<1>9. c[2] \in DOMAIN heap /\ ~OnStack(c)
  BY <1>1, <1>8, HeapContextFacts
<1>10. Abstract!Enclosing(i.op1) = c[2]
  BY <1>2, <1>4, <1>5, <1>8, EnclosingFound
<1>11. c[2] # 0 /\ i.dest + 1 \in DOMAIN heap[c[2]]
  BY <1>1, <1>7, <1>9, HeapFacts DEF HasSlot
<1>12. Abstract!EnclosingHas(i.op1, i.dest)
  BY <1>10, <1>11 DEF Abstract!EnclosingHas
<1>13. heap' = StoredInBlock(heap, c, i.dest, v) /\ value_stack' = value_stack
  BY <1>2, <1>3, <1>4, <1>9, Zenon DEF StoreSlot, StoredInBlock
<1>14. heap' = [heap EXCEPT ![Abstract!Enclosing(i.op1)][i.dest + 1] = Abstract!GetSlot(i.op2)]
  BY <1>6, <1>10, <1>13, Zenon DEF StoredInBlock
<1>15. Abstract!Becomes(Abstract!Advance(Abstract!Running))
  BY <1>1, <1>2, <1>13, MovingActs, BecomesCurrent, Advanced
<1>16. Abstract!Instr = i /\ i.op = "SET_IN_PARENT"
  BY <1>2, <1>3, RunningNow
<1> QED
  BY <1>2, <1>12, <1>14, <1>15, <1>16, Zenon DEF Abstract!ASetInParent, Abstract!Runs

(* A word stored into the running context is assigned to the slot of the   *)
(* running activation, wherever that is.                                   *)
LEMMA AssignsToSlot ==
  ASSUME InterpreterConvention, InterpreterConvention', status = "running", status' = "running",
         LocalStep, NEW slot, slot \in 1 .. FrameSize(program, Frame.entry) - 1, NEW word,
         StoreSlot(context_object, slot, word), ip' = ip + 1,
         NEW used, used \in Nat, stack_pointer' = stack_pointer - used
  PROVE  Abstract!Assigns(Abstract!DropOperands(Abstract!Advance(Abstract!Running), used),
                          slot, word)
<1>1. CallingConvention /\ ~Entering
  BY DEF InterpreterConvention, LocalStep
<1>2. PICK operands, a :
        /\ operands = Part(OperandWords, 1, Len(OperandWords) - used)
        /\ a = Abstract!DropOperands(Abstract!Advance(Abstract!Running), used)
  OBVIOUS
<1>3. a = Activation(ip + 1, Frame.args, operands, Local(0), CurrentContext, LocalWords, Frame.dest)
  BY <1>1, <1>2, Advanced
<1>4. PICK locals :
        /\ locals = IF Leaf THEN StoredIn(LocalWords, slot, word) ELSE LocalWords
        /\ RecordedActs' = [RecordedActs EXCEPT ![Depth] =
             Activation(ip + 1, Frame.args, operands, Local(0), CurrentContext, locals, Frame.dest)]
        /\ Leaf => heap' = heap
        /\ ~Leaf => heap' = StoredInBlock(heap, context_object, slot, word)
  BY <1>1, <1>2, ComputingActs
<1>5. Abstract!Becomes(Activation(ip + 1, Frame.args, operands, Local(0), CurrentContext,
                                  locals, Frame.dest))
  BY <1>4, BecomesCurrent
<1>6. WithLocals(a, locals) = Activation(ip + 1, Frame.args, operands, Local(0), CurrentContext,
                                         locals, Frame.dest)
  BY <1>3, ActivationFields DEF WithLocals
<1>7. a.locals = LocalWords
  BY <1>3, ActivationFields
<1>8. CASE Leaf
  <2>1. Abstract!Becomes(WithLocals(a, StoredIn(a.locals, slot, word)))
    BY <1>4, <1>5, <1>6, <1>7, <1>8
  <2>2. Abstract!Becomes([a EXCEPT !.locals[slot + 1] = word])
    BY <2>1, Zenon DEF WithLocals, StoredIn
  <2>3. Abstract!IsLeaf
    BY <1>1, <1>8, RunningFields
  <2> QED
    BY <1>2, <1>4, <1>8, <2>2, <2>3, Zenon DEF Abstract!Assigns
<1>9. CASE ~Leaf
  <2>1. ~Abstract!IsLeaf /\ Abstract!Running.ctx = context_object
    BY <1>1, <1>9, RunningNow, RunningFields
  <2>2. Abstract!Becomes(a)
    BY <1>3, <1>4, <1>5, <1>9
  <2>3. heap' = [heap EXCEPT ![Abstract!Running.ctx[2]][slot + 1] = word]
    BY <1>4, <1>9, <2>1, Zenon DEF StoredInBlock
  <2> QED
    BY <1>2, <2>1, <2>2, <2>3, Zenon DEF Abstract!Assigns
<1> QED
  BY <1>8, <1>9

(* What an instruction may compute, opcode by opcode. *)
LEMMA OutcomesOf ==
  ASSUME NEW i, Abstract!Instr = i, Abstract!Running = Current
  PROVE  /\ i.op = "MOV" => Abstract!Outcomes = {Abstract!GetSlot(i.op1)}
         /\ i.op \in Immediates => Abstract!Outcomes = {Abstract!ImmediateOf(i)}
         /\ i.op = "MOV_FNC" => Abstract!Outcomes = {<<"fnref", Len(fn_refs) + 1>>}
         /\ i.op \in BinaryOpcodes =>
              Abstract!Outcomes = BinaryResults(i.op, Abstract!GetSlot(i.op1), Abstract!GetSlot(i.op2))
         /\ i.op \in UnaryOpcodes =>
              Abstract!Outcomes = UnaryResults(i.op, Abstract!GetSlot(i.op1))
         /\ i.op = "ARG_READ" =>
              Abstract!Outcomes = IF i.op1 < Len(Current.args)
                                    THEN {Current.args[Len(Current.args) - i.op1]} ELSE Value
         /\ i.op = "GET_IN_PARENT" =>
              Abstract!Outcomes = IF Abstract!EnclosingHas(i.op1, i.op2)
                                    THEN {heap[Abstract!Enclosing(i.op1)][i.op2 + 1]} ELSE {}
         /\ i.op = "POP" => Abstract!Outcomes = {Abstract!LastOperand}
         /\ i.op = "CALL_NATIVE" =>
              Abstract!Outcomes = IF Abstract!GetSlot(i.op1) = uvalue(0) THEN {ivalue(0)} ELSE {}
<1> DEFINE others == {"MOV", "MOV_FNC", "ARG_READ", "GET_IN_PARENT", "POP", "CALL_NATIVE"}
<1>1. /\ Immediates \cap BinaryOpcodes = {}
      /\ Immediates \cap UnaryOpcodes = {}
      /\ BinaryOpcodes \cap UnaryOpcodes = {}
      /\ others \cap (Immediates \cup BinaryOpcodes \cup UnaryOpcodes) = {}
  BY DEF Immediates, BinaryOpcodes, UnaryOpcodes, IntArithmetic, DecimalArithmetic, Comparisons,
     IntComparisons, DecimalComparisons
<1> QED
  BY <1>1, SameOpcodes, SameWords DEF Abstract!Outcomes, Abstract!BinaryOutcomes,
     Abstract!ReplacesOther

(* So an instruction that stores one of its outcomes computes it. *)
LEMMA ComputesRefine ==
  ASSUME InterpreterConvention, InterpreterConvention', status = "running", LocalStep,
         NEW i, i = program.code[ip], i.op \in Abstract!Computing,
         NEW v, v \in Abstract!Outcomes, StoreSlot(context_object, i.dest, v), ip' = ip + 1,
         stack_pointer' = stack_pointer - (IF i.op \in {"POP", "CALL_NATIVE"} THEN 1 ELSE 0),
         fn_refs' = IF i.op # "MOV_FNC" THEN fn_refs
                    ELSE Append(fn_refs, [parent |-> Current.ctx, entry |-> i.op1]),
         output' = IF i.op # "CALL_NATIVE" THEN output
                   ELSE Append(output, Abstract!Written(Abstract!LastOperand))
  PROVE  Abstract!ACompute
<1>1. CallingConvention /\ ~Entering /\ status' = "running" /\ program' = program
  BY DEF InterpreterConvention, LocalStep
<1>2. Abstract!Instr = i /\ Abstract!Running = Current
  BY RunningNow
<1>3. WritesDest(i.op)
  BY SameOpcodes DEF Abstract!Computing, WritesDest
<1>4. i.dest \in 1 .. FrameSize(program, Frame.entry) - 1
  BY <1>1, <1>3, SlotFacts
<1>5. PICK used : used = IF i.op \in {"POP", "CALL_NATIVE"} THEN 1 ELSE 0
  OBVIOUS
<1>6. used \in Nat /\ stack_pointer' = stack_pointer - used
  BY <1>5
<1>7. Abstract!Assigns(Abstract!DropOperands(Abstract!Advance(Abstract!Running), used), i.dest, v)
  BY <1>1, <1>4, <1>6, AssignsToSlot
<1>8. Abstract!Runs(Abstract!Computing)
  BY <1>1, <1>2, Zenon DEF Abstract!Runs
<1> QED
  BY <1>2, <1>5, <1>7, <1>8, Zenon DEF Abstract!ACompute

(* Most of them use no operand and change nothing else. *)
LEMMA PlainComputesRefine ==
  ASSUME InterpreterConvention, InterpreterConvention', status = "running", LocalStep,
         NEW i, i = program.code[ip], i.op \in Abstract!Computing,
         i.op \notin {"POP", "CALL_NATIVE", "MOV_FNC"},
         NEW v, v \in Abstract!Outcomes, Computes(v),
         UNCHANGED <<stack_pointer, fn_refs, output>>
  PROVE  Abstract!ACompute
<1>1. CallingConvention
  BY DEF InterpreterConvention
<1>2. WritesDest(op)
  BY Decoding, SameOpcodes DEF Abstract!Computing, WritesDest
<1>3. StoreSlot(context_object, i.dest, v) /\ ip' = ip + 1
  BY <1>1, <1>2, DestinationSlot
<1>4. stack_pointer \in Nat
  BY <1>1, StateFacts
<1>5. stack_pointer' = stack_pointer - (IF i.op \in {"POP", "CALL_NATIVE"} THEN 1 ELSE 0)
  BY <1>4
<1> QED
  BY <1>3, <1>5, ComputesRefine

(* Moves of a constant and of a slot. *)
LEMMA MovesRefine ==
  ASSUME InterpreterConvention, InterpreterConvention', MoveImmediate \/ Move, UNCHANGED frames
  PROVE  Abstract!ACompute
<1> DEFINE i == program.code[ip]
<1>1. CallingConvention /\ LocalStep
  BY MoveImmediateLocal, MoveLocal DEF InterpreterConvention
<1>2. /\ status = "running" /\ UNCHANGED <<stack_pointer, fn_refs, output>> /\ ~Entering
      /\ op = i.op /\ Abstract!Instr = i /\ Abstract!Running = Current
  BY <1>1, Decoding, RunningNow DEF MoveImmediate, Move, Executes, LocalStep
<1>3. CASE MoveImmediate
  <2>1. PICK v : v = ImmediateValue(op, op1) /\ Computes(v)
    BY <1>3 DEF MoveImmediate
  <2>2. i.op \in Immediates
    BY <1>2, <1>3 DEF MoveImmediate, Executes
  <2>3. op = "MOV_NULL" \/ op1 = i.op1
    BY <1>2, <2>2, Decoding DEF Immediates, IsImmediate
  <2>4. v = Abstract!ImmediateOf(i)
    BY <1>2, <2>1, <2>2, <2>3, SameWords DEF ImmediateValue, Abstract!ImmediateOf, Immediates
  <2>5. v \in Abstract!Outcomes /\ i.op \in Abstract!Computing
    BY <1>2, <2>2, <2>4, OutcomesOf, SameOpcodes DEF Abstract!Computing
  <2>6. i.op \notin {"POP", "CALL_NATIVE", "MOV_FNC"}
    BY <2>2 DEF Immediates
  <2> QED
    BY <1>1, <1>2, <2>1, <2>5, <2>6, PlainComputesRefine
<1>4. CASE Move
  <2>1. PICK v : v = AtOffset(op1) /\ Computes(v)
    BY <1>4 DEF Move
  <2>2. i.op = "MOV"
    BY <1>2, <1>4 DEF Move, Executes
  <2>3. v = Abstract!GetSlot(i.op1)
    BY <1>1, <1>2, <2>1, <2>2, OperandSlots, RunningFields
  <2>4. v \in Abstract!Outcomes /\ i.op \in Abstract!Computing
    BY <1>2, <2>2, <2>3, OutcomesOf DEF Abstract!Computing
  <2>5. i.op \notin {"POP", "CALL_NATIVE", "MOV_FNC"}
    BY <2>2
  <2> QED
    BY <1>1, <1>2, <2>1, <2>4, <2>5, PlainComputesRefine
<1> QED
  BY <1>3, <1>4

(* Operators. *)
LEMMA OperatorsRefine ==
  ASSUME InterpreterConvention, InterpreterConvention', Binary \/ Unary, UNCHANGED frames
  PROVE  Abstract!ACompute
<1> DEFINE i == program.code[ip]
<1>1. CallingConvention /\ LocalStep
  BY OperatorLocal DEF InterpreterConvention
<1>2. /\ status = "running" /\ UNCHANGED <<stack_pointer, fn_refs, output>> /\ ~Entering
      /\ op = i.op /\ Abstract!Instr = i /\ Abstract!Running = Current
  BY <1>1, Decoding, RunningNow DEF Binary, Unary, Executes, LocalStep
<1>3. PICK v : /\ Computes(v)
               /\ \/ op \in BinaryOpcodes /\ v \in BinaryResults(op, AtOffset(op1), AtOffset(op2))
                  \/ op \in UnaryOpcodes /\ v \in UnaryResults(op, AtOffset(op1))
  BY DEF Binary, Unary, Executes
<1>4. /\ AtOffset(op1) = Abstract!GetSlot(i.op1)
      /\ op \in BinaryOpcodes => AtOffset(op2) = Abstract!GetSlot(i.op2)
  BY <1>1, <1>2, <1>3, OperandSlots, RunningFields
<1>5. v \in Abstract!Outcomes
  <2>1. op \in BinaryOpcodes => v \in Value
    BY <1>1, <1>2, <1>3, OperandsAreValues, BinaryResultsAreValues DEF BinaryOpcodes, UnaryOpcodes,
       IntArithmetic, DecimalArithmetic, Comparisons, IntComparisons, DecimalComparisons
  <2>2. CASE op \in BinaryOpcodes
    <3>1. v \in BinaryResults(i.op, Abstract!GetSlot(i.op1), Abstract!GetSlot(i.op2))
      BY <1>2, <1>3, <1>4, <2>2 DEF BinaryOpcodes, UnaryOpcodes, IntArithmetic, DecimalArithmetic,
         Comparisons, IntComparisons, DecimalComparisons
    <3> QED
      BY <1>2, <2>1, <2>2, <3>1, OutcomesOf
  <2>3. CASE op \notin BinaryOpcodes
    BY <1>2, <1>3, <1>4, <2>3, OutcomesOf
  <2> QED
    BY <2>2, <2>3
<1>6. i.op \in Abstract!Computing /\ i.op \notin {"POP", "CALL_NATIVE", "MOV_FNC"}
  BY <1>2, <1>3, SameOpcodes DEF Abstract!Computing, BinaryOpcodes, UnaryOpcodes, IntArithmetic,
     DecimalArithmetic, Comparisons, IntComparisons, DecimalComparisons
<1> QED
  BY <1>1, <1>2, <1>3, <1>5, <1>6, PlainComputesRefine

(* MOV_FNC captures the context of the running activation. *)
LEMMA MoveFunctionRefines ==
  ASSUME InterpreterConvention, InterpreterConvention', MoveFunction, UNCHANGED frames
  PROVE  Abstract!ACompute
<1> DEFINE i == program.code[ip]
<1>1. CallingConvention /\ LocalStep
  BY MoveFunctionLocal DEF InterpreterConvention
<1>2. PICK v : v = <<"fnref", Len(fn_refs) + 1>> /\ Computes(v)
  BY DEF MoveFunction
<1>3. /\ status = "running" /\ UNCHANGED <<stack_pointer, output>> /\ ~Entering
      /\ op = "MOV_FNC" /\ op = i.op /\ op1 = i.op1
      /\ Abstract!Instr = i /\ Abstract!Running = Current
      /\ fn_refs' = Append(fn_refs, [parent |-> context_object, entry |-> op1])
  BY <1>1, Decoding, RunningNow DEF MoveFunction, Executes, LocalStep, IsImmediate
<1>4. ~Leaf
  BY <1>1, <1>3, InstructionFacts DEF WellFormedAt, Leaf
<1>5. Current.ctx = context_object
  BY <1>3, <1>4, RunningFields
<1>6. v \in Abstract!Outcomes /\ i.op \in Abstract!Computing
  BY <1>2, <1>3, OutcomesOf DEF Abstract!Computing
<1>7. StoreSlot(context_object, i.dest, v) /\ ip' = ip + 1
  BY <1>1, <1>2, <1>3, DestinationSlot DEF WritesDest
<1>8. stack_pointer' = stack_pointer - (IF i.op \in {"POP", "CALL_NATIVE"} THEN 1 ELSE 0)
  BY <1>1, <1>3, StateFacts
<1> QED
  BY <1>1, <1>3, <1>5, <1>6, <1>7, <1>8, ComputesRefine

(* ARG_READ yields the argument that was passed, if there is one. *)
LEMMA ArgReadRefines ==
  ASSUME InterpreterConvention, InterpreterConvention', ArgRead, UNCHANGED frames
  PROVE  Abstract!ACompute
<1> DEFINE i == program.code[ip]
<1>1. CallingConvention /\ LocalStep
  BY ArgReadLocal DEF InterpreterConvention
<1>2. PICK v : v = StackWord(base_pointer - ArgumentOffset - op1) /\ Computes(v)
  BY DEF ArgRead
<1>3. /\ status = "running" /\ UNCHANGED <<stack_pointer, fn_refs, output>> /\ ~Entering
      /\ op = "ARG_READ" /\ op = i.op /\ op1 = i.op1
      /\ Abstract!Instr = i /\ Abstract!Running = Current
  BY <1>1, Decoding, RunningNow DEF ArgRead, Executes, LocalStep, IsImmediate
<1>4. Current.args = Frame.args
  BY <1>3, RunningFields
<1>5. v \in Value
  BY <1>1, <1>2, StateFacts, ConstructorsAreValues DEF StackWord
<1>6. op1 < Len(Frame.args) => v = Frame.args[Len(Frame.args) - op1]
  BY <1>2, <1>3, ArgumentRead
<1>7. v \in Abstract!Outcomes /\ i.op \in Abstract!Computing
  BY <1>3, <1>4, <1>5, <1>6, OutcomesOf DEF Abstract!Computing
<1>8. i.op \notin {"POP", "CALL_NATIVE", "MOV_FNC"}
  BY <1>3
<1> QED
  BY <1>1, <1>2, <1>3, <1>7, <1>8, PlainComputesRefine

(* GET_IN_PARENT yields the slot of the enclosing context it names. *)
LEMMA GetInParentRefines ==
  ASSUME InterpreterConvention, InterpreterConvention', GetInParent, UNCHANGED frames
  PROVE  Abstract!ACompute
<1> DEFINE i == program.code[ip]
<1>1. CallingConvention /\ LocalStep
  BY GetInParentLocal DEF InterpreterConvention
<1>2. PICK c, v : c = Ancestor(op1) /\ v = Slot(c, op2) /\ Computes(v)
  BY DEF GetInParent
<1>3. /\ status = "running" /\ UNCHANGED <<stack_pointer, fn_refs, output>> /\ ~Entering
      /\ op = "GET_IN_PARENT" /\ op = i.op /\ op1 = i.op1 /\ op2 = i.op2
      /\ Abstract!Instr = i /\ Abstract!Running = Current /\ ~IsUndefined
  BY <1>1, Decoding, RunningNow DEF GetInParent, Executes, LocalStep, IsImmediate
<1>4. i.op1 \in Nat \ {0}
  BY <1>1, <1>3, InstructionFacts DEF WellFormedAt
<1>5. c \in Contexts /\ HasSlot(c, i.op2)
  BY <1>2, <1>3 DEF IsUndefined, BinaryOpcodes, IntArithmetic, DecimalArithmetic,
     Comparisons, IntComparisons, DecimalComparisons
<1>6. c \in HeapContexts
  BY <1>1, <1>2, <1>3, <1>5, AncestorFacts
<1>7. c[2] \in DOMAIN heap /\ ~OnStack(c)
  BY <1>1, <1>6, HeapContextFacts
<1>8. Abstract!Enclosing(i.op1) = c[2]
  BY <1>2, <1>3, <1>4, <1>6, EnclosingFound
<1>9. c[2] # 0 /\ i.op2 + 1 \in DOMAIN heap[c[2]]
  BY <1>1, <1>5, <1>7, HeapFacts DEF HasSlot
<1>10. Abstract!EnclosingHas(i.op1, i.op2)
  BY <1>8, <1>9 DEF Abstract!EnclosingHas
<1>11. v = heap[Abstract!Enclosing(i.op1)][i.op2 + 1]
  BY <1>2, <1>3, <1>7, <1>8 DEF Slot
<1>12. v \in Abstract!Outcomes /\ i.op \in Abstract!Computing
  BY <1>3, <1>10, <1>11, OutcomesOf DEF Abstract!Computing
<1>13. i.op \notin {"POP", "CALL_NATIVE", "MOV_FNC"}
  BY <1>3
<1> QED
  BY <1>1, <1>2, <1>3, <1>12, <1>13, PlainComputesRefine

(* The word on top of the stack is the last operand. *)
LEMMA LastOperandIsTop ==
  ASSUME InterpreterConvention, status = "running", op \in {"POP", "CALL_NATIVE"}
  PROVE  Abstract!LastOperand = Top
<1>1. CallingConvention /\ program.code[ip].op \in {"POP", "CALL_NATIVE"}
  BY Decoding DEF InterpreterConvention
<1>2. ~Entering
  BY <1>1, TopFacts
<1>3. Abstract!Running.operands = OperandWords
  BY <1>2, RunningNow, RunningFields
<1>4. PICK size, end : size = Len(OperandWords) /\ end = ContextEnd(Depth)
  OBVIOUS
<1>5. /\ size = program.height[ip] /\ size \in Nat /\ size > 0
      /\ end \in Nat /\ stack_pointer \in Nat /\ stack_pointer = end + size
  <2>1. program.height[ip] > 0
    BY <1>1, InstructionFacts DEF WellFormedAt
  <2>2. size = program.height[ip] /\ end \in Nat
    BY <1>1, <1>2, <1>4, CurrentFacts
  <2>3. program.height[ip] \in Nat /\ stack_pointer \in Nat
        /\ stack_pointer = end + program.height[ip]
    BY <1>1, <1>2, <1>4, StateFacts
  <2> QED
    BY <2>1, <2>2, <2>3
<1>6. \A n \in 1 .. stack_pointer - end : OperandWords[n] = value_stack[end + n - 1]
  BY <1>4, <1>5, WordsFacts DEF OperandWords
<1>7. OperandWords[size] = value_stack[stack_pointer - 1]
  <2>1. size \in 1 .. stack_pointer - end /\ end + size - 1 = stack_pointer - 1
    BY <1>5
  <2> QED
    BY <1>6, <2>1
<1> QED
  BY <1>3, <1>4, <1>7 DEF Abstract!LastOperand, Top

(* POP takes it, CALL_NATIVE prints it. *)
LEMMA TopRefines ==
  ASSUME InterpreterConvention, InterpreterConvention', Pop \/ CallNative, UNCHANGED frames
  PROVE  Abstract!ACompute
<1> DEFINE i == program.code[ip]
<1>1. CallingConvention /\ LocalStep
  BY TopLocal DEF InterpreterConvention
<1>2. /\ status = "running" /\ fn_refs' = fn_refs /\ ~Entering
      /\ op \in {"POP", "CALL_NATIVE"} /\ op = i.op /\ ~IsUndefined
      /\ stack_pointer' = stack_pointer - 1
      /\ Abstract!Instr = i /\ Abstract!Running = Current
  BY <1>1, Decoding, RunningNow DEF Pop, CallNative, Executes, LocalStep
<1>3. Abstract!LastOperand = Top
  BY <1>2, LastOperandIsTop
<1>4. \A v : Abstract!Written(v) = Printed(v)
  BY DEF Abstract!Written, Printed
<1>5. i.op \in Abstract!Computing /\ i.op # "MOV_FNC" /\ WritesDest(op)
  BY <1>2 DEF Abstract!Computing, WritesDest
<1>6. CASE Pop
  <2>1. op = "POP" /\ Computes(Top) /\ output' = output
    BY <1>6 DEF Pop, Executes
  <2>2. Top \in Abstract!Outcomes
    BY <1>2, <1>3, <2>1, OutcomesOf
  <2>3. StoreSlot(context_object, i.dest, Top) /\ ip' = ip + 1
    BY <1>1, <1>2, <1>5, <2>1, DestinationSlot
  <2> QED
    BY <1>1, <1>2, <1>5, <2>1, <2>2, <2>3, ComputesRefine
<1>7. CASE CallNative
  <2>1. op = "CALL_NATIVE" /\ Computes(ivalue(0)) /\ output' = Append(output, Printed(Top))
    BY <1>7 DEF CallNative, Executes
  <2>2. AtOffset(op1) = uvalue(0)
    <3>1. AtOffset(op1) \in {uvalue(n) : n \in 0 .. NativeCount - 1}
      BY <1>2, <2>1 DEF IsUndefined, BinaryOpcodes, IntArithmetic, DecimalArithmetic,
         Comparisons, IntComparisons, DecimalComparisons
    <3> QED
      BY <3>1 DEF NativeCount
  <2>3. AtOffset(op1) = Abstract!GetSlot(i.op1)
    BY <1>1, <1>2, <2>1, OperandSlots, RunningFields
  <2>4. ivalue(0) \in Abstract!Outcomes
    BY <1>2, <2>1, <2>2, <2>3, OutcomesOf
  <2>5. StoreSlot(context_object, i.dest, ivalue(0)) /\ ip' = ip + 1
    BY <1>1, <1>2, <1>5, <2>1, DestinationSlot
  <2>6. output' = Append(output, Abstract!Written(Abstract!LastOperand))
    BY <1>3, <1>4, <2>1
  <2> QED
    BY <1>1, <1>2, <1>5, <2>1, <2>4, <2>5, <2>6, ComputesRefine
<1> QED
  BY <1>6, <1>7

-----------------------------------------------------------------------------
(* Entering, calling and returning *)

(* FN_ENTER gives the running activation its context. *)
LEMMA EntersRefine ==
  ASSUME InterpreterConvention, InterpreterConvention', FnEnterHeap \/ FnEnterStack,
         UNCHANGED frames
  PROVE  Abstract!AEnter
<1> DEFINE i == program.code[ip]
<1>1. CallingConvention /\ CallingConvention' /\ EnterStep
  BY FnEnterEnters DEF InterpreterConvention
<1>2. /\ status = "running" /\ status' = "running" /\ program' = program
      /\ op \in FnEnters /\ op = i.op /\ op1 = i.op1
      /\ Abstract!Instr = i /\ Abstract!Running = Current /\ Abstract!ATop = Depth
  BY Decoding, RunningNow DEF FnEnterHeap, FnEnterStack, Executes, FnEnters, IsImmediate
<1>3. Entering
  BY <1>2 DEF Entering
<1>4. Leaf <=> i.op = "FN_ENTER_STACK"
  <2>1. Frame.entry = program.entry[ip] /\ program \in Programs /\ ip \in Addresses(program)
    BY <1>1, FrameFacts
  <2>2. ip = program.entry[ip]
    BY <1>2, <2>1, AddressFacts
  <2> QED
    BY <2>1, <2>2 DEF Leaf, IsStackFunction
<1>5. i.op1 = FrameSize(program, Frame.entry) /\ Top = Frame.parent
  BY <1>1, <1>3, EnteringFacts
<1>6. PICK locals, ctx, block :
        locals = LocalWords' /\ ctx = <<"heap", Len(heap) + 1>>
        /\ block = NewHeapContext(i.op1, Frame.parent)
  OBVIOUS
<1>7. /\ RecordedActs' =
           [RecordedActs EXCEPT ![Depth] =
              Activation(ip + 1, Frame.args, << >>, Frame.parent, IF Leaf THEN nullptr ELSE ctx,
                         locals, Frame.dest)]
      /\ locals \in Seq(Value)
      /\ Leaf => Len(locals) = i.op1 /\ locals[1] = Frame.parent
      /\ ~Leaf => locals = << >>
  BY <1>1, <1>5, <1>6, EnterActs
<1>8. Abstract!Becomes(Activation(ip + 1, Frame.args, << >>, Frame.parent,
                                  IF Leaf THEN nullptr ELSE ctx, locals, Frame.dest))
  BY <1>2, <1>7, BecomesCurrent
<1>9. Current = Activation(ip, Frame.args, << >>, Frame.parent, nullptr, << >>, Frame.dest)
  BY <1>1, <1>3, EnteringCurrent
<1>10. PICK a : a = Abstract!Advance(Abstract!Running)
  OBVIOUS
<1>11. a = Activation(ip + 1, Frame.args, << >>, Frame.parent, nullptr, << >>, Frame.dest)
  <2>1. Current.pc = ip /\ a = [Current EXCEPT !.pc = Current.pc + 1]
    BY <1>2, <1>9, <1>10, ActivationFields DEF Abstract!Advance
  <2> QED
    BY <1>9, <2>1, ActivationFields
<1>12. Abstract!Running.parent = Frame.parent
  BY <1>2, <1>9, ActivationFields
<1>13. Abstract!Runs(Abstract!FnEnters)
  BY <1>2, SameOpcodes DEF Abstract!Runs
<1>14. CASE FnEnterHeap
  <2>1. i.op = "FN_ENTER_HEAP" /\ EnterHeap(i.op1) /\ ~Leaf
    BY <1>2, <1>4, <1>14 DEF FnEnterHeap, Executes
  <2>2. [a EXCEPT !.ctx = ctx]
          = Activation(ip + 1, Frame.args, << >>, Frame.parent, ctx, << >>, Frame.dest)
    BY <1>11, ActivationFields
  <2>3. Abstract!Becomes([a EXCEPT !.ctx = ctx])
    BY <1>7, <1>8, <2>1, <2>2
  <2>4. heap' = Append(heap, block) /\ UNCHANGED <<fn_refs, output>>
    BY <1>5, <1>6, <2>1 DEF EnterHeap
  <2>5. block = [n \in 1 .. i.op1 |-> Abstract!NewSlot(n - 1, Frame.parent)]
    BY <1>6, SameWords DEF NewHeapContext, InitCallContext, Abstract!NewSlot
  <2> QED
    BY <1>2, <1>6, <1>10, <1>12, <1>13, <2>1, <2>3, <2>4, <2>5, Zenon DEF Abstract!AEnter
<1>15. CASE FnEnterStack
  <2>1. i.op = "FN_ENTER_STACK" /\ EnterStack(i.op1) /\ Leaf
    BY <1>2, <1>4, <1>15 DEF FnEnterStack, Executes
  <2>2. UNCHANGED <<heap, fn_refs, output>>
    BY <2>1 DEF EnterStack
  <2>3. [a EXCEPT !.locals = locals]
          = Activation(ip + 1, Frame.args, << >>, Frame.parent, nullptr, locals, Frame.dest)
    BY <1>11, ActivationFields
  <2>4. Abstract!Becomes([a EXCEPT !.locals = locals])
    BY <1>7, <1>8, <2>1, <2>3
  <2>5. InterpreterActs'[Abstract!ATop].locals = locals
    <3>1. Depth \in DOMAIN InterpreterActs
      BY <1>1, <1>2, ActsFacts, RunningNow
    <3>2. InterpreterActs' = [InterpreterActs EXCEPT ![Depth] = [a EXCEPT !.locals = locals]]
      BY <1>2, <2>4, Zenon DEF Abstract!Becomes
    <3>3. [a EXCEPT !.locals = locals].locals = locals
      BY <2>3, ActivationFields
    <3>4. PICK b : b = [a EXCEPT !.locals = locals]
      OBVIOUS
    <3>5. InterpreterActs'[Depth] = b
      BY <3>1, <3>2, <3>4
    <3> QED
      BY <1>2, <3>3, <3>4, <3>5
  <2> QED
    BY <1>2, <1>7, <1>10, <1>12, <1>13, <2>1, <2>2, <2>4, <2>5, SameWords, Zenon
    DEF Abstract!AEnter
<1> QED
  BY <1>14, <1>15

(* CALL turns the last operands into the arguments of a new activation. *)
LEMMA CallRefines ==
  ASSUME InterpreterConvention, InterpreterConvention', HCall
  PROVE  Abstract!ACall
<1> DEFINE i == program.code[ip]
<1>1. CallingConvention /\ CallStep(Linkage)
  BY CallCalls DEF InterpreterConvention
<1>2. /\ status = "running" /\ status' = "running" /\ program' = program
      /\ i.op = "CALL" /\ IsFnRef(Local(i.op1)) /\ UNCHANGED <<heap, fn_refs, output>>
  BY <1>1 DEF CallStep
<1>3. ~Entering /\ i.op1 \in 0 .. FrameSize(program, Frame.entry) - 1
  BY <1>1, <1>2, CallFacts, InstructionFacts DEF WellFormedAt, SlotsRead
<1>4. Abstract!Instr = i /\ Abstract!Running = Current /\ Abstract!ATop = Depth
      /\ InterpreterActs = RecordedActs /\ InterpreterActs' = RecordedActs'
  BY <1>2, RunningNow, BecomesCurrent
<1>5. PICK f, v, size :
        v = Local(i.op1) /\ f = Callee(v) /\ size = Len(OperandWords) - i.op2
  OBVIOUS
<1>6. Abstract!GetSlot(i.op1) = v /\ v[1] = "fnref" /\ f = fn_refs[v[2]]
  BY <1>2, <1>3, <1>5, RunningFields DEF IsFnRef, Callee
<1>7. PICK caller, callee, operands :
        /\ operands = OperandWords
        /\ caller = Activation(ip + 1, Frame.args, Part(operands, 1, size), Local(0),
                               CurrentContext, LocalWords, Frame.dest)
        /\ callee = Activation(f.entry, Part(operands, size + 1, Len(operands)), << >>, f.parent,
                               nullptr, << >>, i.dest)
  OBVIOUS
<1>8. RecordedActs' = Added([RecordedActs EXCEPT ![Depth] = caller], callee)
  BY <1>1, <1>5, <1>7, CallActs
<1>9. caller = Abstract!DropOperands(Abstract!Advance(Abstract!Running), i.op2)
  BY <1>2, <1>3, <1>5, <1>7, Advanced
<1>10. Abstract!Running.operands = operands
  BY <1>2, <1>3, <1>4, <1>7, RunningFields
<1>11. callee = [pc |-> f.entry,
                 args |-> SubSeq(operands, size + 1, Len(operands)),
                 operands |-> << >>, parent |-> f.parent,
                 ctx |-> Abstract!nullptr, locals |-> << >>, dest |-> i.dest]
  BY <1>7, SameWords, Zenon DEF Activation, Part
<1>12. InterpreterActs' = Append([InterpreterActs EXCEPT ![Abstract!ATop] = caller], callee)
  BY <1>4, <1>8, Zenon DEF Added
<1>13. Abstract!Runs({"CALL"})
  BY <1>2, <1>4 DEF Abstract!Runs
<1>14. InterpreterActs' =
         Append([InterpreterActs EXCEPT ![Abstract!ATop] =
                   Abstract!DropOperands(Abstract!Advance(Abstract!Running), i.op2)],
                [pc |-> f.entry,
                 args |-> SubSeq(Abstract!Running.operands, Len(Abstract!Running.operands) - i.op2 + 1,
                                 Len(Abstract!Running.operands)),
                 operands |-> << >>, parent |-> f.parent,
                 ctx |-> Abstract!nullptr, locals |-> << >>, dest |-> i.dest])
  BY <1>5, <1>7, <1>9, <1>10, <1>11, <1>12, Zenon
<1> QED
  BY <1>2, <1>4, <1>6, <1>13, <1>14, Zenon DEF Abstract!ACall

(* RET drops the running activation and hands the result to its caller. *)
LEMMA ReturnRefines ==
  ASSUME InterpreterConvention, InterpreterConvention', HReturn
  PROVE  Abstract!AReturn
<1> DEFINE i == program.code[ip]
<1>1. CallingConvention /\ CallingConvention' /\ ReturnStep /\ Depth \in 2 .. Depth
  BY ReturnReturns DEF InterpreterConvention, HReturn
<1>2. /\ status = "running" /\ status' = "running" /\ program' = program
      /\ i.op = "RET" /\ Depth > 1 /\ UNCHANGED <<fn_refs, output>>
  BY <1>1 DEF ReturnStep
<1>3. ~Entering /\ i.dest \in 0 .. FrameSize(program, Frame.entry) - 1
  BY <1>1, <1>2, ReturnFacts, InstructionFacts DEF WellFormedAt, SlotsRead
<1>4. /\ Abstract!Instr = i /\ Abstract!Running = Current /\ Abstract!ATop = Depth
      /\ InterpreterActs = RecordedActs /\ InterpreterActs' = RecordedActs'
  BY <1>2, RunningNow, BecomesCurrent
<1>5. Abstract!GetSlot(i.dest) = Local(i.dest) /\ Current.dest = Frame.dest
  BY <1>2, <1>3, RunningFields
<1>6. PICK d, caller, rest, leaf :
        /\ d = Depth - 1
        /\ caller = RecordedActs[d]
        /\ rest = Part(RecordedActs, 1, d)
        /\ leaf = IF IsStackFunction(program, frames[d].entry) THEN 1 ELSE 0
  OBVIOUS
<1>7. PICK result, slot : result = Local(i.dest) /\ slot = Frame.dest
  OBVIOUS
<1>8. /\ d \in 1 .. Depth
      /\ caller.ctx = IF leaf = 1 THEN nullptr ELSE Frame.ctx
      /\ leaf # 1 => Frame.ctx \in HeapContexts
      /\ i.dest = 0 => RecordedActs' = rest /\ heap' = heap
      /\ i.dest # 0 /\ leaf = 1 =>
           /\ RecordedActs' = [rest EXCEPT ![d] = WithLocals(caller,
                                 StoredIn(caller.locals, slot, result))]
           /\ heap' = heap
      /\ i.dest # 0 /\ leaf # 1 =>
           /\ RecordedActs' = rest
           /\ heap' = StoredInBlock(heap, Frame.ctx, slot, result)
  BY <1>1, <1>6, <1>7, ReturnActs
<1>9. rest[d] = caller
  <2>1. DOMAIN RecordedActs = 1 .. Depth /\ Depth \in Nat
    BY <1>1, ActsFacts
  <2> QED
    BY <1>6, <1>8, <2>1 DEF Part
<1>10. rest = SubSeq(InterpreterActs, 1, Abstract!ATop - 1)
  BY <1>4, <1>6, Zenon DEF Part
<1>11. Abstract!Runs({"RET"}) /\ Abstract!ATop > 1
  BY <1>2, <1>4 DEF Abstract!Runs
<1>12. caller = InterpreterActs[Abstract!ATop - 1] /\ d = Abstract!ATop - 1
  BY <1>4, <1>6
<1>13. result = Abstract!GetSlot(Abstract!Instr.dest) /\ slot = Abstract!Running.dest
  BY <1>4, <1>5, <1>7
<1>14. CASE i.dest = 0
  <2>1. InterpreterActs' = rest /\ heap' = heap
    BY <1>4, <1>8, <1>14
  <2> QED
    BY <1>2, <1>4, <1>10, <1>11, <1>14, <2>1, Zenon DEF Abstract!AReturn
<1>15. CASE i.dest # 0 /\ leaf = 1
  <2>1. caller.ctx = Abstract!nullptr
    BY <1>8, <1>15, SameWords
  <2>2. InterpreterActs' = [rest EXCEPT ![d] = WithLocals(rest[d],
                                           StoredIn(rest[d].locals, slot, result))]
    BY <1>4, <1>8, <1>9, <1>15
  <2>3. InterpreterActs' = [rest EXCEPT ![d].locals[slot + 1] = result]
    BY <2>2, Zenon DEF WithLocals, StoredIn
  <2>4. heap' = heap
    BY <1>8, <1>15
  <2> QED
    BY <1>2, <1>4, <1>10, <1>11, <1>12, <1>13, <1>15, <2>1, <2>3, <2>4, Zenon
    DEF Abstract!AReturn
<1>16. CASE i.dest # 0 /\ leaf # 1
  <2>1. caller.ctx = Frame.ctx /\ caller.ctx # Abstract!nullptr
    BY <1>1, <1>8, <1>16, HeapContextFacts, SameWords
  <2>2. InterpreterActs' = rest
    BY <1>4, <1>8, <1>16
  <2>3. heap' = [heap EXCEPT ![caller.ctx[2]][slot + 1] = result]
    BY <1>8, <1>16, <2>1, Zenon DEF StoredInBlock
  <2> QED
    BY <1>2, <1>4, <1>10, <1>11, <1>12, <1>13, <1>16, <2>1, <2>2, <2>3, Zenon
    DEF Abstract!AReturn
<1> QED
  BY <1>14, <1>15, <1>16

-----------------------------------------------------------------------------
(* Ends *)

(* What the memory stands for depends on it and on the number of           *)
(* activations.                                                            *)
LEMMA SameMemorySameActs ==
  ASSUME UNCHANGED <<program, ip, value_stack, stack_pointer, base_pointer, context_object, heap>>,
         Stack!Activations' = Stack!Activations
  PROVE  InterpreterActs' = InterpreterActs
<1>1. Stack!IsEntering' = Stack!IsEntering
  BY DEF Stack!IsEntering, Stack!FnEnters
<1>2. \A k : Stack!BaseOf(k)' = Stack!BaseOf(k)
  BY <1>1 DEF Stack!BaseOf
<1>3. \A k : /\ Stack!IsEntered(k)' = Stack!IsEntered(k)
             /\ Stack!PointerOf(k)' = Stack!PointerOf(k)
             /\ Stack!KeepsStack(k)' = Stack!KeepsStack(k)
             /\ Stack!NumberOfArguments(k)' = Stack!NumberOfArguments(k)
             /\ Stack!FirstArgument(k)' = Stack!FirstArgument(k)
             /\ Stack!OperandsEndOf(k)' = Stack!OperandsEndOf(k)
             /\ ResumeAddress(k)' = ResumeAddress(k)
  BY <1>1, <1>2
  DEF Stack!IsEntered, Stack!PointerOf, Stack!KeepsStack, Stack!NumberOfArguments,
      Stack!FirstArgument, Stack!OperandsEndOf, ResumeAddress, Stack!OnStack
<1>4. \A from, to : Stack!Words(from, to)' = Stack!Words(from, to)
  BY DEF Stack!Words
<1>5. \A k, pc : Stack!ContextEndOf(k, pc)' = Stack!ContextEndOf(k, pc)
  BY <1>2, <1>3 DEF Stack!ContextEndOf, Stack!StackWords, Stack!IsStackFunction, Stack!FrameSize
<1>6. \A k, pc : Stack!Activation(k, pc)' = Stack!Activation(k, pc)
  BY <1>2, <1>3, <1>4, <1>5, Zenon DEF Stack!Activation, Stack!Slot, Stack!Top, Stack!OnStack
<1>7. \A k : Stack!Activation(k, ResumeAddress(k))' = Stack!Activation(k, ResumeAddress(k))
  BY <1>3, <1>6
<1> QED
  BY <1>7 DEF InterpreterActs

(* The root returns, and nothing is left to do. *)
LEMMA FinishRefines ==
  ASSUME InterpreterConvention, ReturnFromRoot
  PROVE  Abstract!AFinish
<1>1. CallingConvention /\ status = "running" /\ op = "RET" /\ op = program.code[ip].op
      /\ status' = "returned" /\ call_depth = 1 /\ call_depth' = 0
      /\ UNCHANGED <<program, ip, value_stack, stack_pointer, base_pointer, context_object, heap,
                     fn_refs, output>>
  BY Decoding DEF InterpreterConvention, ReturnFromRoot
<1>2. ~Entering
  BY <1>1, InstructionFacts DEF FnEnters
<1>3. Depth = 1
  BY <1>1, <1>2 DEF CallingConvention, RegistersMatchFrame
<1>4. ~Stack!IsEntering
  BY <1>1, <1>2, DecodedDepth
<1>5. Stack!Activations = 1 /\ Stack!Activations' = 1
  BY <1>1, <1>4 DEF Stack!Activations, Stack!IsEntering, Stack!FnEnters
<1>6. InterpreterActs' = InterpreterActs
  BY <1>1, <1>5, SameMemorySameActs
<1>7. Abstract!Instr = program.code[ip] /\ Abstract!ATop = 1
  BY <1>1, <1>3, RunningNow
<1> QED
  BY <1>1, <1>6, <1>7 DEF Abstract!AFinish

(* An engine exits when the memory is full or the callee is null: nothing  *)
(* else a handler checks can fail.                                         *)
LEMMA ExitCause ==
  ASSUME InterpreterConvention, status = "running", ExitsWithError
  PROVE  ErrorCause(LinkageWords)
<1> DEFINE i == program.code[ip]
<1>1. CallingConvention /\ op = i.op
  BY Decoding DEF InterpreterConvention
<1>2. stack_pointer \in Nat /\ STACK_MAX \in Nat
  BY <1>1, StateFacts, StackMaxAssumption
<1>3. CASE op = "FN_ENTER_HEAP"
  <2>1. Entering
    BY <1>1, <1>3, InstructionFacts DEF FnEnters
  <2>2. stack_pointer \in Nat \ {0}
    BY <1>1, <2>1, EnteringFacts
  <2> QED
    BY <1>3, <2>2 DEF ExitsWithError, CanPop
<1>4. CASE op = "FN_ENTER_STACK"
  <2>1. Entering /\ op1 = i.op1
    BY <1>1, <1>4, InstructionFacts, Decoding DEF FnEnters, IsImmediate
  <2>2. stack_pointer \in Nat \ {0}
    BY <1>1, <2>1, EnteringFacts
  <2>3. stack_pointer + i.op1 > STACK_MAX
    BY <1>4, <2>1, <2>2 DEF ExitsWithError, CanPop
  <2> QED
    BY <1>1, <1>4, <2>3 DEF ErrorCause
<1>5. CASE op = "PUSH"
  <2>1. stack_pointer > STACK_MAX
    BY <1>2, <1>5 DEF ExitsWithError, CanPush
  <2> QED
    BY <1>1, <1>5, <2>1 DEF ErrorCause
<1>6. CASE op \in {"POP", "CALL_NATIVE"}
  <2>1. stack_pointer - 1 \in StackIndexes
    BY <1>1, <1>6, TopFacts
  <2>2. stack_pointer - 1 >= 0
    BY <1>2, <2>1 DEF StackIndexes
  <2> QED
    BY <1>6, <2>2 DEF ExitsWithError, CanPop
<1>7. CASE op = "CALL"
  <2>1. op1 = i.op1
    BY <1>7, Decoding DEF IsImmediate
  <2>2. ~CanPush(stack_pointer, LinkageWords) => stack_pointer + LinkageWords - 1 > STACK_MAX
    BY <1>2 DEF CanPush, LinkageWords
  <2> QED
    BY <1>1, <1>7, <2>1, <2>2 DEF ErrorCause, ExitsWithError
<1>8. CASE op = "RET"
  <2>1. call_depth # 1 /\ ~CanPop(base_pointer, LinkageWords)
    BY <1>8 DEF ExitsWithError
  <2>2. ~Entering
    BY <1>1, <1>8, InstructionFacts DEF FnEnters
  <2>3. call_depth = Depth /\ base_pointer = Frame.base
    BY <1>1, <2>2 DEF InterpreterConvention, CallingConvention, RegistersMatchFrame
  <2>4. Depth > 1 /\ Depth \in 1 .. Depth /\ Depth \in 2 .. Depth
    BY <1>1, <2>1, <2>3, FrameFacts
  <2>5. Len(Frame.linkage) = 5
    BY <2>4, LinkageLength
  <2>6. \A j \in 1 .. 5 : Frame.base - j \in 0 .. Frame.base - 1
    BY <1>1, <2>4, <2>5, BelowBase DEF Frame
  <2>7. Frame.base \in Nat
    BY <1>1, <2>4, FrameFacts DEF Frame
  <2>8. 5 \in 1 .. 5
    OBVIOUS
  <2>9. Frame.base - 5 >= 0
    BY <2>6, <2>7, <2>8
  <2> QED
    BY <2>1, <2>3, <2>9 DEF CanPop, LinkageWords
<1> QED
  BY <1>3, <1>4, <1>5, <1>6, <1>7, <1>8 DEF ExitsWithError

(* There ActivationMachine may exit too. *)
LEMMA ErrorRefines ==
  ASSUME InterpreterConvention, ErrorExit
  PROVE  Abstract!AError
<1> DEFINE i == program.code[ip]
<1>1. CallingConvention /\ status = "running" /\ status' = "error" /\ ExitsWithError
      /\ op = i.op /\ UNCHANGED <<program, ip, machine>>
  BY Decoding DEF InterpreterConvention, ErrorExit
<1>2. Abstract!Instr = i /\ Abstract!InUse = stack_pointer
  BY <1>1, RunningNow, InUseFound
<1>3. stack_pointer \in Nat /\ STACK_MAX \in Nat
  BY <1>1, StateFacts, StackMaxAssumption
<1>4. InterpreterActs' = InterpreterActs
  <2>1. UNCHANGED <<program, ip, value_stack, stack_pointer, base_pointer, context_object, heap,
                    call_depth>>
    BY <1>1 DEF machine
  <2>2. Stack!Activations' = Stack!Activations
    BY <2>1 DEF Stack!Activations, Stack!IsEntering, Stack!FnEnters
  <2> QED
    BY <2>1, <2>2, SameMemorySameActs
<1>5. \/ Abstract!InUse + Abstract!Needed > STACK_MAX
      \/ i.op = "CALL" /\ Abstract!IsNull(Abstract!GetSlot(i.op1))
  <2>1. ErrorCause(LinkageWords)
    BY <1>1, ExitCause
  <2>2. CASE i.op = "PUSH" /\ stack_pointer > STACK_MAX
    <3>1. Abstract!Needed = 1
      BY <1>2, <2>2 DEF Abstract!Needed
    <3> QED
      BY <1>2, <1>3, <2>2, <3>1
  <2>3. CASE i.op = "FN_ENTER_STACK" /\ stack_pointer + i.op1 > STACK_MAX
    <3>1. Abstract!Needed = i.op1
      BY <1>2, <2>3 DEF Abstract!Needed
    <3> QED
      BY <1>2, <2>3, <3>1
  <2>4. CASE i.op = "CALL" /\ IsNull(Local(i.op1))
    <3>1. ~Entering
      BY <1>1, <2>4, InstructionFacts DEF FnEnters
    <3>2. i.op1 \in 0 .. FrameSize(program, Frame.entry) - 1
      BY <1>1, <2>4, InstructionFacts DEF WellFormedAt, SlotsRead
    <3>3. Abstract!GetSlot(i.op1) = Local(i.op1)
      BY <1>1, <3>1, <3>2, RunningFields
    <3> QED
      BY <2>4, <3>3, SameWords
  <2>5. CASE i.op = "CALL" /\ stack_pointer + LinkageWords - 1 > STACK_MAX
    <3>1. Abstract!Needed = LinkageWords
      BY <1>2, <2>5 DEF Abstract!Needed
    <3> QED
      BY <1>2, <1>3, <2>5, <3>1 DEF LinkageWords
  <2> QED
    BY <2>1, <2>2, <2>3, <2>4, <2>5 DEF ErrorCause
<1>6. UNCHANGED <<program, heap, fn_refs, output>>
  BY <1>1 DEF machine
<1> QED
  BY <1>1, <1>2, <1>4, <1>5, <1>6, Zenon DEF Abstract!AError

(* The two walks agree on whether there is the slot that is asked for. *)
LEMMA EnclosingSlot ==
  ASSUME InterpreterConvention, status = "running", ~Entering,
         NEW depth, depth \in Nat, depth > 0, NEW n
  PROVE  Abstract!EnclosingHas(depth, n)
           <=> Ancestor(depth) \in Contexts /\ HasSlot(Ancestor(depth), n)
<1>1. CallingConvention
  BY DEF InterpreterConvention
<1>2. PICK c : c = Ancestor(depth)
  OBVIOUS
<1>3. Abstract!Enclosing(depth) = IF c \in HeapContexts THEN c[2] ELSE 0
  BY <1>2, EnclosingFound
<1>4. c \in Contexts <=> c \in HeapContexts
  BY <1>1, <1>2, AncestorFacts DEF Contexts
<1>5. CASE c \in HeapContexts
  <2>1. c[2] \in DOMAIN heap /\ ~OnStack(c)
    BY <1>1, <1>5, HeapContextFacts
  <2>2. c[2] # 0
    BY <1>1, <2>1, HeapFacts
  <2> QED
    BY <1>2, <1>3, <1>4, <1>5, <2>1, <2>2 DEF HasSlot, Abstract!EnclosingHas
<1>6. CASE c \notin HeapContexts
  BY <1>2, <1>3, <1>4, <1>6 DEF Abstract!EnclosingHas
<1> QED
  BY <1>5, <1>6

(* Undefined behaviour is where ActivationMachine makes no promise. *)
LEMMA UndefinedRefines ==
  ASSUME InterpreterConvention, WordsKnown, UndefinedBehaviour
  PROVE  Abstract!AUndefined
<1> DEFINE i == program.code[ip]
<1>1. CallingConvention /\ status = "running" /\ status' = "undefined" /\ IsUndefined
      /\ op = i.op /\ UNCHANGED <<program, ip, machine>>
  BY Decoding DEF InterpreterConvention, UndefinedBehaviour
<1>2. Abstract!Instr = i /\ Abstract!Running = Current
  BY <1>1, RunningNow
<1>3. InterpreterActs' = InterpreterActs
  <2>1. UNCHANGED <<program, ip, value_stack, stack_pointer, base_pointer, context_object, heap,
                    call_depth>>
    BY <1>1 DEF machine
  <2>2. Stack!Activations' = Stack!Activations
    BY <2>1 DEF Stack!Activations, Stack!IsEntering, Stack!FnEnters
  <2> QED
    BY <2>1, <2>2, SameMemorySameActs
<1>4. op \in {"CALL", "CALL_NATIVE", "GET_IN_PARENT", "SET_IN_PARENT"} \cup BinaryOpcodes
  BY <1>1 DEF IsUndefined
<1>5. ~Entering
  BY <1>1, <1>4, InstructionFacts DEF FnEnters, BinaryOpcodes, IntArithmetic, DecimalArithmetic,
     Comparisons, IntComparisons, DecimalComparisons
<1>6. \/ i.op \in Abstract!Computing /\ Abstract!Outcomes = {}
      \/ i.op = "SET_IN_PARENT" /\ ~Abstract!EnclosingHas(i.op1, i.dest)
      \/ i.op = "CALL" /\ Abstract!GetSlot(i.op1)[1] \notin {"fnref", "null"}
  <2>1. CASE op = "CALL"
    <3>1. op1 = i.op1
      BY <1>1, <2>1, Decoding DEF IsImmediate
    <3>2. i.op1 \in 0 .. FrameSize(program, Frame.entry) - 1
      BY <1>1, <2>1, InstructionFacts DEF WellFormedAt, SlotsRead
    <3>3. PICK v : v = Local(i.op1)
      OBVIOUS
    <3>4. Abstract!GetSlot(i.op1) = v /\ Known(v, fn_refs)
      BY <1>1, <1>5, <3>2, <3>3, RunningFields, LocalsKnown
    <3>5. ~IsNull(v) /\ ~IsFnRef(v)
      BY <1>1, <2>1, <3>1, <3>3 DEF IsUndefined, BinaryOpcodes, IntArithmetic,
         DecimalArithmetic, Comparisons, IntComparisons, DecimalComparisons
    <3>6. v[1] \notin {"fnref", "null"}
      BY <3>4, <3>5 DEF Known, IsNull, IsFnRef
    <3> QED
      BY <1>1, <2>1, <3>4, <3>6
  <2>2. CASE op = "CALL_NATIVE"
    <3>1. AtOffset(op1) \notin {uvalue(n) : n \in 0 .. NativeCount - 1}
      BY <1>1, <2>2 DEF IsUndefined, BinaryOpcodes, IntArithmetic, DecimalArithmetic,
         Comparisons, IntComparisons, DecimalComparisons
    <3>2. AtOffset(op1) # uvalue(0)
      BY <3>1 DEF NativeCount
    <3>3. AtOffset(op1) = Abstract!GetSlot(i.op1)
      BY <1>1, <1>5, <2>2, OperandSlots, RunningFields
    <3> QED
      BY <1>1, <1>2, <2>2, <3>2, <3>3, OutcomesOf DEF Abstract!Computing
  <2>3. CASE op \in BinaryOpcodes
    <3>1. BinaryResults(op, AtOffset(op1), AtOffset(op2)) = {}
      BY <1>1, <2>3 DEF IsUndefined, BinaryOpcodes, IntArithmetic, DecimalArithmetic,
         Comparisons, IntComparisons, DecimalComparisons
    <3>2. AtOffset(op1) = Abstract!GetSlot(i.op1) /\ AtOffset(op2) = Abstract!GetSlot(i.op2)
      BY <1>1, <1>5, <2>3, OperandSlots, RunningFields
    <3>3. Abstract!Outcomes = {}
      BY <1>1, <1>2, <2>3, <3>1, <3>2, OutcomesOf, Zenon
    <3> QED
      BY <1>1, <2>3, <3>3, SameOpcodes DEF Abstract!Computing
  <2>4. CASE op = "GET_IN_PARENT"
    <3>1. op1 = i.op1 /\ op2 = i.op2
      BY <1>1, <2>4, Decoding DEF IsImmediate
    <3>2. i.op1 \in Nat \ {0}
      BY <1>1, <2>4, InstructionFacts DEF WellFormedAt
    <3>3. Ancestor(i.op1) \notin Contexts \/ ~HasSlot(Ancestor(i.op1), i.op2)
      BY <1>1, <2>4, <3>1 DEF IsUndefined, BinaryOpcodes, IntArithmetic, DecimalArithmetic,
         Comparisons, IntComparisons, DecimalComparisons
    <3>4. ~Abstract!EnclosingHas(i.op1, i.op2)
      BY <1>1, <1>5, <3>2, <3>3, EnclosingSlot
    <3> QED
      BY <1>1, <1>2, <2>4, <3>4, OutcomesOf DEF Abstract!Computing
  <2>5. CASE op = "SET_IN_PARENT"
    <3>1. op1 = i.op1 /\ destination = i.dest
      BY <1>1, <2>5, Decoding DEF IsImmediate, UsingDestinationOffset
    <3>2. i.op1 \in Nat \ {0}
      BY <1>1, <2>5, InstructionFacts DEF WellFormedAt
    <3>3. Ancestor(i.op1) \notin Contexts \/ ~HasSlot(Ancestor(i.op1), i.dest)
      BY <1>1, <2>5, <3>1 DEF IsUndefined, BinaryOpcodes, IntArithmetic, DecimalArithmetic,
         Comparisons, IntComparisons, DecimalComparisons
    <3>4. ~Abstract!EnclosingHas(i.op1, i.dest)
      BY <1>1, <1>5, <3>2, <3>3, EnclosingSlot
    <3> QED
      BY <1>1, <2>5, <3>4
  <2> QED
    BY <1>4, <2>1, <2>2, <2>3, <2>4, <2>5
<1>7. UNCHANGED <<program, heap, fn_refs, output>>
  BY <1>1 DEF machine
<1> QED
  BY <1>1, <1>2, <1>3, <1>6, <1>7, Zenon DEF Abstract!AUndefined

-----------------------------------------------------------------------------
(* The refinement *)

(* The interpreter starts as ActivationMachine does. *)
LEMMA StartRefines ==
  ASSUME HInit
  PROVE  Abstract!AInit
<1>1. InterpreterConvention
  BY RefinementStarts DEF RefinementInvariant
<1>2. CallingConvention /\ status = "running"
  BY <1>1 DEF InterpreterConvention, HInit, Init, SharedInit
<1>3. /\ program \in Programs /\ ip = 0 /\ heap = << >> /\ fn_refs = << >> /\ output = << >>
      /\ frames = <<RootFrame>>
  BY DEF HInit, Init, SharedInit, RecordStart
<1>4. Depth = 1 /\ Frame = RootFrame
  BY <1>3 DEF Depth, Frame
<1>5. Entering
  BY <1>2, <1>3, RootFacts, FrameFacts
<1>6. Current = Activation(0, << >>, << >>, nullptr, nullptr, << >>, 0)
  BY <1>2, <1>3, <1>4, <1>5, EnteringCurrent DEF RootFrame
<1>7. RecordedActs = <<Current>>
  <2>1. RecordedActs = [k \in 1 .. 1 |-> Recorded(k)]
    BY <1>4 DEF RecordedActs
  <2>2. \A k \in 1 .. 1 : Recorded(k) = Current
    BY <1>4 DEF Current
  <2>3. PICK a : a = Current
    OBVIOUS
  <2>4. RecordedActs = [k \in 1 .. 1 |-> a]
    BY <2>1, <2>2, <2>3
  <2> QED
    BY <2>3, <2>4
<1>8. InterpreterActs = <<Current>>
  BY <1>1, <1>2, <1>7, Decoded
<1>9. Current = [pc |-> 0, args |-> << >>, operands |-> << >>, parent |-> Abstract!nullptr,
                 ctx |-> Abstract!nullptr, locals |-> << >>, dest |-> 0]
  BY <1>6, SameWords, Zenon DEF Activation
<1>10. InterpreterActs = <<[pc |-> 0, args |-> << >>, operands |-> << >>,
                            parent |-> Abstract!nullptr, ctx |-> Abstract!nullptr,
                            locals |-> << >>, dest |-> 0]>>
  BY <1>8, <1>9, Zenon
<1> QED
  BY <1>2, <1>3, <1>10, Zenon DEF Abstract!AInit

(* A step that leaves the memory leaves what it stands for. *)
LEMMA HaltRefines ==
  ASSUME HHalted \/ UNCHANGED hvars
  PROVE  UNCHANGED Abstract!avars
<1>1. UNCHANGED <<program, ip, value_stack, stack_pointer, base_pointer, context_object, heap,
                  call_depth, fn_refs, output, status>>
  BY DEF HHalted, Halted, hvars, vars, machine
<1>2. Stack!Activations' = Stack!Activations
  BY <1>1 DEF Stack!Activations, Stack!IsEntering, Stack!FnEnters
<1>3. InterpreterActs' = InterpreterActs
  BY <1>1, <1>2, SameMemorySameActs
<1> QED
  BY <1>1, <1>3 DEF Abstract!avars

(* What a handler does inside its activation, handler by handler. *)
LEMMA HandlersRefine ==
  ASSUME InterpreterConvention, InterpreterConvention', WordsKnown,
         WithinActivation, UNCHANGED frames
  PROVE  Abstract!ANext
<1>1. CASE FnEnterHeap \/ FnEnterStack
  BY <1>1, EntersRefine DEF Abstract!ANext
<1>2. CASE Jump \/ Branch
  BY <1>2, JumpsRefine DEF Abstract!ANext
<1>3. CASE MoveImmediate \/ Move \/ MoveFunction \/ Binary \/ Unary \/ ArgRead \/ GetInParent
             \/ CallNative \/ Pop
  BY <1>3, MovesRefine, MoveFunctionRefines, OperatorsRefine, ArgReadRefines,
     GetInParentRefines, TopRefines DEF Abstract!ANext
<1>4. CASE Push
  BY <1>4, PushRefines DEF Abstract!ANext
<1>5. CASE SetInParent
  BY <1>5, SetInParentRefines DEF Abstract!ANext
<1>6. CASE ObjectAccess
  BY <1>6, SkipsRefine DEF Abstract!ANext
<1>7. CASE ReturnFromRoot
  BY <1>7, FinishRefines DEF Abstract!ANext
<1>8. CASE ErrorExit
  BY <1>8, ErrorRefines DEF Abstract!ANext
<1>9. CASE UndefinedBehaviour
  BY <1>9, UndefinedRefines DEF Abstract!ANext
<1> QED
  BY <1>1, <1>2, <1>3, <1>4, <1>5, <1>6, <1>7, <1>8, <1>9 DEF WithinActivation

(* Every step of the interpreter is one of ActivationMachine, or none.     *)
LEMMA StepRefines ==
  ASSUME RefinementInvariant, [HNext]_hvars
  PROVE  [Abstract!ANext]_(Abstract!avars)
<1>1. InterpreterConvention /\ InterpreterConvention' /\ WordsKnown
  BY RefinementStays DEF RefinementInvariant
<1>2. CASE HCall
  BY <1>1, <1>2, CallRefines DEF Abstract!ANext
<1>3. CASE HReturn
  BY <1>1, <1>3, ReturnRefines DEF Abstract!ANext
<1>4. CASE HWithin
  BY <1>1, <1>4, HandlersRefine DEF HWithin
<1>5. CASE HHalted \/ UNCHANGED hvars
  BY <1>5, HaltRefines
<1> QED
  BY <1>2, <1>3, <1>4, <1>5 DEF HNext

(* The words of the value stack always stand for activations, and every    *)
(* handler of vm_interpret does to them what ActivationMachine promises: a *)
(* CALL passes exactly the pushed values, a RET continues the caller with  *)
(* all it had, closures see the variables of their creators, and the       *)
(* interpreter gives up only when the stack is full or the callee is null. *)
THEOREM InterpreterImplements == HSpec => ImplementsActivations
<1>1. HInit => Abstract!AInit
  BY StartRefines
<1>2. HInit => RefinementInvariant
  BY RefinementStarts
<1>3. RefinementInvariant /\ [HNext]_hvars => RefinementInvariant'
  BY RefinementStays
<1>4. RefinementInvariant /\ [HNext]_hvars => [Abstract!ANext]_(Abstract!avars)
  BY StepRefines
<1> QED
  BY <1>1, <1>2, <1>3, <1>4, PTL DEF HSpec, ImplementsActivations, Abstract!ASpec

-----------------------------------------------------------------------------
(* Scopes *)

(* Every handler keeps the contexts linked as the functions are nested. *)
LEMMA ScopesKept ==
  ASSUME InterpreterConvention, ContextsScoped, [HNext]_hvars
  PROVE  ContextsScoped'
<1>1. CallingConvention
  BY DEF InterpreterConvention
<1>2. FrameStep
  BY InterpreterSteps DEF FrameStep, CallStep
<1> QED
  BY <1>1, <1>2, ScopeSteps

(* Whoever calls a closure and whenever, also after the function that made *)
(* it has returned, GET_IN_PARENT and SET_IN_PARENT walk to a context of   *)
(* the function the compiler counted to.                                   *)
THEOREM ClosuresSeeTheirScopes == HSpec => []ScopesAreLexical
<1>1. HInit => InterpreterConvention /\ ContextsScoped
  BY InitCorrect, ScopesStart DEF HInit, Init
<1>2. InterpreterConvention /\ ContextsScoped /\ [HNext]_hvars => (InterpreterConvention /\ ContextsScoped)'
  BY NextCorrect, ScopesKept
<1>3. InterpreterConvention /\ ContextsScoped => ScopesAreLexical
  BY WalksAreLexical DEF InterpreterConvention
<1> QED
  BY <1>1, <1>2, <1>3, PTL DEF HSpec

-----------------------------------------------------------------------------
(* Undefined behaviour *)

(* What a handler takes from the two slots of an operator. *)
LEMMA OperandsFetched ==
  ASSUME CallingConvention, op \in BinaryOpcodes \cup {"CALL_NATIVE"}
  PROVE  /\ AtOffset(op1) = Local(program.code[ip].op1)
         /\ op \in BinaryOpcodes => AtOffset(op2) = Local(program.code[ip].op2)
<1>1. ~IsImmediate(op)
  BY DEF IsImmediate, FnEnters, ObjectOpcodes, BinaryOpcodes, IntArithmetic,
     DecimalArithmetic, Comparisons, IntComparisons, DecimalComparisons
<1>2. program.code[ip].op1 \in Nat /\ program.code[ip].op2 \in Nat
  <2>1. op = "CALL_NATIVE" \/ op \in BinaryOpcodes => program.code[ip].op1 \in SlotsRead(program.code[ip])
    BY Decoding DEF SlotsRead
  <2>2. op \notin FnEnters
    BY DEF FnEnters, BinaryOpcodes, IntArithmetic, DecimalArithmetic, Comparisons,
       IntComparisons, DecimalComparisons
  <2>3. ~Entering
    BY <2>2, Decoding, InstructionFacts
  <2> QED
    BY <2>1, <2>3, SlotFacts, InstructionFacts
<1> QED
  BY <1>1, <1>2, Decoding, Unscaled DEF AtOffset

(* A handler whose behaviour is undefined was given the wrong operand; its *)
(* access to an enclosing context is never to blame.                       *)
LEMMA OperandToBlame ==
  ASSUME RefinementInvariant, ScopesAreLexical, IsUndefined
  PROVE  OperandAtFault
<1>1. CallingConvention /\ WordsKnown
  BY DEF RefinementInvariant, InterpreterConvention
<1>2. op = program.code[ip].op
  BY Decoding
<1>3. CASE op = "CALL"
  <2>1. ~IsNull(Local(program.code[ip].op1)) /\ ~IsFnRef(Local(program.code[ip].op1))
    BY <1>3, Decoding DEF IsUndefined, IsImmediate, BinaryOpcodes, IntArithmetic,
       DecimalArithmetic, Comparisons, IntComparisons, DecimalComparisons
  <2> QED
    BY <1>1, <1>2, <1>3, <2>1, CalledKnown DEF OperandAtFault
<1>4. CASE op = "CALL_NATIVE"
  <2>1. AtOffset(op1) \notin {uvalue(n) : n \in 0 .. NativeCount - 1}
    BY <1>4 DEF IsUndefined, BinaryOpcodes, IntArithmetic, DecimalArithmetic, Comparisons,
       IntComparisons, DecimalComparisons
  <2>2. AtOffset(op1) = Local(program.code[ip].op1)
    BY <1>1, <1>4, OperandsFetched
  <2> QED
    BY <1>2, <1>4, <2>1, <2>2 DEF OperandAtFault
<1>5. CASE op \in BinaryOpcodes
  <2>1. BinaryResults(op, AtOffset(op1), AtOffset(op2)) = {}
    BY <1>5 DEF IsUndefined, BinaryOpcodes, IntArithmetic, DecimalArithmetic, Comparisons,
       IntComparisons, DecimalComparisons
  <2>2. PICK v, w : /\ v = Local(program.code[ip].op1)
                    /\ w = Local(program.code[ip].op2)
                    /\ BinaryResults(op, v, w) = {}
    BY <1>1, <1>5, <2>1, OperandsFetched
  <2>3. \/ op \in {"DIV_INT", "MOD_INT"} /\ \A m \in HighWords(v), n \in HighWords(w) : Traps(m, n)
        \/ op = "ADD_STRING" /\ ~(v[1] = "str" /\ w[1] = "str")
    BY <1>5, <2>2, NoResult
  <2> QED
    BY <1>2, <2>2, <2>3 DEF OperandAtFault
<1>6. CASE op \in ParentAccess
  <2>1. /\ Ancestor(program.code[ip].op1) \in Contexts
        /\ HasSlot(Ancestor(program.code[ip].op1), SlotInParent(program.code[ip]))
    BY <1>1, <1>2, <1>6, EnclosingSlotThere
  <2>2. CASE op = "GET_IN_PARENT"
    <3>1. IsImmediate(op)
      BY <2>2 DEF IsImmediate
    <3>2. op1 = program.code[ip].op1 /\ op2 = SlotInParent(program.code[ip])
      BY <1>2, <2>2, <3>1, Decoding DEF SlotInParent
    <3> QED
      BY <2>1, <2>2, <3>2 DEF IsUndefined
  <2>3. CASE op = "SET_IN_PARENT"
    <3>1. IsImmediate(op) /\ ~UsingDestinationOffset(op)
      BY <2>3 DEF IsImmediate, UsingDestinationOffset
    <3>2. op1 = program.code[ip].op1 /\ destination = SlotInParent(program.code[ip])
      BY <1>2, <2>3, <3>1, Decoding DEF SlotInParent
    <3> QED
      BY <2>1, <2>3, <3>2 DEF IsUndefined
  <2> QED
    BY <1>6, <2>2, <2>3 DEF ParentAccess
<1> QED
  BY <1>3, <1>4, <1>5, <1>6 DEF IsUndefined, ParentAccess

(* It depends on nothing but the instruction and the words. *)
LEMMA UndefinedStays ==
  ASSUME UNCHANGED <<program, ip, machine>>
  PROVE  IsUndefined' <=> IsUndefined
<1>1. /\ op' = op /\ op1' = op1 /\ op2' = op2 /\ destination' = destination
  BY DEF op, op1, op2, destination, instruction
<1>2. /\ UNCHANGED <<context_object, value_stack, heap, fn_refs>>
  BY DEF machine
<1>3. Local(op1)' = Local(op1)
  BY <1>1, <1>2 DEF Local, Slot, OnStack
<1>4. AtOffset(op1)' = AtOffset(op1) /\ AtOffset(op2)' = AtOffset(op2)
  BY <1>1, <1>2 DEF AtOffset, Local, Slot, OnStack
<1>5. Contexts' = Contexts
  BY <1>2 DEF Contexts, HeapContexts
<1>6. Ancestor(op1)' = Ancestor(op1)
  BY <1>1, <1>2, <1>5 DEF Ancestor, ParentOf, Slot, OnStack
<1>7. /\ HasSlot(Ancestor(op1), op2)' <=> HasSlot(Ancestor(op1), op2)
      /\ HasSlot(Ancestor(op1), destination)' <=> HasSlot(Ancestor(op1), destination)
  BY <1>1, <1>2, <1>6 DEF HasSlot, OnStack
<1>8. IsFnRef(Local(op1))' <=> IsFnRef(Local(op1))
  BY <1>2, <1>3 DEF IsFnRef
<1> QED
  BY <1>1, <1>3, <1>4, <1>5, <1>6, <1>7, <1>8 DEF IsUndefined, IsNull

(* The status turns undefined only where a handler's behaviour is. *)
LEMMA UndefinedHere ==
  ASSUME status = "undefined" => IsUndefined, [HNext]_hvars
  PROVE  status' = "undefined" => IsUndefined'
<1>1. CASE HWithin /\ ~UndefinedBehaviour
  <2>1. status' \in {"running", "returned", "error"}
    BY <1>1 DEF HWithin, WithinActivation, FnEnterHeap, FnEnterStack, Jump, Branch,
       MoveImmediate, Move, MoveFunction, Binary, Unary, ArgRead, GetInParent, CallNative,
       Pop, Push, SetInParent, ObjectAccess, ReturnFromRoot, ErrorExit, Executes
  <2> QED
    BY <2>1
<1>2. CASE UndefinedBehaviour
  <2>1. UNCHANGED <<program, ip, machine>> /\ IsUndefined
    BY <1>2 DEF UndefinedBehaviour
  <2> QED
    BY <2>1, UndefinedStays
<1>3. CASE HCall \/ HReturn
  BY <1>3 DEF HCall, HReturn, Call, Return, Executes
<1>4. CASE HHalted \/ UNCHANGED hvars
  <2>1. UNCHANGED <<program, ip, machine>> /\ UNCHANGED status
    BY <1>4 DEF HHalted, Halted, hvars, vars
  <2> QED
    BY <2>1, UndefinedStays
<1> QED
  BY <1>1, <1>2, <1>3, <1>4 DEF HNext, HWithin

(* Behaviour of vm_interpret is undefined only where a word is not what    *)
(* its handler takes it for: an int division that traps, a concatenation   *)
(* of what are no strings, a CALL of a number, a CALL_NATIVE of what is no *)
(* native.  No walk along the parents, no POP and no access to a slot ever *)
(* leaves the contexts, so what remains is for the types to prevent.       *)
THEOREM UndefinedOnlyByOperands == HSpec => [](status = "undefined" => OperandAtFault)
<1>1. HInit => RefinementInvariant /\ (status = "undefined" => IsUndefined)
  BY RefinementStarts DEF HInit, Init, SharedInit
<1>2. RefinementInvariant /\ (status = "undefined" => IsUndefined) /\ [HNext]_hvars
        => (RefinementInvariant /\ (status = "undefined" => IsUndefined))'
  BY RefinementStays, UndefinedHere
<1>3. RefinementInvariant /\ ScopesAreLexical /\ (status = "undefined" => IsUndefined)
        => (status = "undefined" => OperandAtFault)
  BY OperandToBlame
<1> QED
  BY <1>1, <1>2, <1>3, ClosuresSeeTheirScopes, PTL DEF HSpec

-----------------------------------------------------------------------------
(* Types *)

(* What is left if the operands are of the right kinds: a division by zero *)
(* or of the smallest int by -1, and a CALL_NATIVE of a word that is the   *)
(* number of no native.                                                    *)
LeftByTypes ==
  LET i == program.code[ip] IN
  \/ i.op \in {"DIV_INT", "MOD_INT"} /\ Traps(Local(i.op1)[2], Local(i.op2)[2])
  \/ i.op = "CALL_NATIVE" /\ Local(i.op1) \notin {uvalue(n) : n \in 0 .. NativeCount - 1}

LEMMA KindsLeave ==
  ASSUME RefinementInvariant, ScopesAreLexical, IsUndefined, KindsRight
  PROVE  LeftByTypes
<1> DEFINE i == program.code[ip]
<1>1. OperandAtFault
  BY OperandToBlame
<1>2. CallingConvention /\ op = i.op
  BY Decoding DEF RefinementInvariant, InterpreterConvention
<1>3. CASE /\ i.op \in {"DIV_INT", "MOD_INT"}
           /\ \A m \in HighWords(Local(i.op1)), n \in HighWords(Local(i.op2)) : Traps(m, n)
  <2>1. op \in IntArithmetic /\ op \in BinaryOpcodes /\ op \in ReadsInt
    BY <1>2, <1>3 DEF IntArithmetic, BinaryOpcodes, ReadsInt
  <2>2. AtOffset(op1) = Local(i.op1) /\ AtOffset(op2) = Local(i.op2)
    BY <1>2, <2>1, OperandsFetched
  <2>3. Local(i.op1)[1] = "int" /\ Local(i.op2)[1] = "int"
    BY <2>1, <2>2 DEF KindsRight, HaveTags, WordsRead, IntTags
  <2>4. Local(i.op1)[2] \in HighWords(Local(i.op1)) /\ Local(i.op2)[2] \in HighWords(Local(i.op2))
    BY <2>3 DEF HighWords
  <2> QED
    BY <1>3, <2>4 DEF LeftByTypes
<1>4. CASE i.op = "ADD_STRING" /\ ~(Local(i.op1)[1] = "str" /\ Local(i.op2)[1] = "str")
  <2>1. op = "ADD_STRING" /\ op \in BinaryOpcodes
    BY <1>2, <1>4 DEF BinaryOpcodes
  <2>2. AtOffset(op1) = Local(i.op1) /\ AtOffset(op2) = Local(i.op2)
    BY <1>2, <2>1, OperandsFetched
  <2> QED
    BY <1>4, <2>1, <2>2 DEF KindsRight, HaveTags, WordsRead
<1>5. CASE i.op = "CALL" /\ Local(i.op1)[1] \notin {"fnref", "null"}
  <2>1. op = "CALL" /\ op1 = i.op1
    BY <1>2, <1>5, Decoding DEF IsImmediate
  <2> QED
    BY <1>5, <2>1 DEF KindsRight, HaveTags
<1>6. CASE i.op = "CALL_NATIVE" /\ Local(i.op1) \notin {uvalue(n) : n \in 0 .. NativeCount - 1}
  BY <1>6 DEF LeftByTypes
<1> QED
  BY <1>1, <1>3, <1>4, <1>5, <1>6 DEF OperandAtFault

(* Kinds depend on nothing but the instruction and the words. *)
LEMMA KindsStay ==
  ASSUME UNCHANGED <<program, ip, machine>>
  PROVE  KindsRight' <=> KindsRight
<1>1. op' = op /\ op1' = op1 /\ op2' = op2
  BY DEF op, op1, op2, instruction
<1>2. UNCHANGED <<context_object, value_stack, heap>>
  BY DEF machine
<1>3. Local(op1)' = Local(op1)
  BY <1>1, <1>2 DEF Local, Slot, OnStack
<1>4. AtOffset(op1)' = AtOffset(op1) /\ AtOffset(op2)' = AtOffset(op2)
  BY <1>1, <1>2 DEF AtOffset, Local, Slot, OnStack
<1>5. WordsRead' = WordsRead
  BY <1>1, <1>4 DEF WordsRead
<1> QED
  BY <1>1, <1>3, <1>4, <1>5 DEF KindsRight, HaveTags

(* Behaviour turns undefined on the operands the running machine had. *)
LEMMA KindsHere ==
  ASSUME OperandsHaveTheirKind, status = "undefined" => KindsRight, [HNext]_hvars
  PROVE  status' = "undefined" => KindsRight'
<1>1. CASE UndefinedBehaviour
  <2>1. UNCHANGED <<program, ip, machine>> /\ status = "running"
    BY <1>1 DEF UndefinedBehaviour
  <2> QED
    BY <2>1, KindsStay DEF OperandsHaveTheirKind
<1>2. CASE HWithin /\ ~UndefinedBehaviour
  <2>1. status' \in {"running", "returned", "error"}
    BY <1>2 DEF HWithin, WithinActivation, FnEnterHeap, FnEnterStack, Jump, Branch,
       MoveImmediate, Move, MoveFunction, Binary, Unary, ArgRead, GetInParent, CallNative,
       Pop, Push, SetInParent, ObjectAccess, ReturnFromRoot, ErrorExit, Executes
  <2> QED
    BY <2>1
<1>3. CASE HCall \/ HReturn
  BY <1>3 DEF HCall, HReturn, Call, Return, Executes, OperandsHaveTheirKind
<1>4. CASE HHalted \/ UNCHANGED hvars
  <2>1. UNCHANGED <<program, ip, machine>> /\ UNCHANGED status
    BY <1>4 DEF HHalted, Halted, hvars, vars
  <2> QED
    BY <2>1, KindsStay
<1> QED
  BY <1>1, <1>2, <1>3, <1>4 DEF HNext

(* If what the extractor promises about the operands is true of a program  *)
(* - OperandsHaveTheirKind, which the compiled samples are checked for -   *)
(* nothing vm_interpret does with it is undefined but the division that    *)
(* has no result and the CALL_NATIVE of what never was a native.           *)
THEOREM SoundTypesLeaveTraps ==
  HSpec /\ []OperandsHaveTheirKind => [](status = "undefined" => LeftByTypes)
<1> DEFINE Inv == /\ RefinementInvariant
                  /\ status = "undefined" => IsUndefined
                  /\ status = "undefined" => KindsRight
<1>1. HInit => Inv
  BY RefinementStarts DEF HInit, Init, SharedInit
<1>2. Inv /\ OperandsHaveTheirKind /\ [HNext]_hvars => Inv'
  BY RefinementStays, UndefinedHere, KindsHere
<1>3. Inv /\ ScopesAreLexical => (status = "undefined" => LeftByTypes)
  BY KindsLeave
<1> HIDE DEF Inv
<1> QED
  BY <1>1, <1>2, <1>3, ClosuresSeeTheirScopes, PTL DEF HSpec

-----------------------------------------------------------------------------
(* Integers *)

(* An instruction on two ints stores the exact result, or traps for want   *)
(* of one.                                                                 *)
LEMMA IntegerSteps ==
  ASSUME RefinementInvariant, [HNext]_hvars, status = "running",
         NEW i, i = program.code[ip], OnInts(i), ~UNCHANGED <<program, ip, machine, status>>
  PROVE  \/ status' = "undefined" /\ ~\E r \in IntRange : IsResult(i, r)
         \/ \E r \in IntRange : Local(i.dest)' = <<"int", r>> /\ IsResult(i, r)
<1>1. CallingConvention /\ WordsKnown
  BY DEF RefinementInvariant, InterpreterConvention
<1>2. /\ ~Entering
      /\ i.op \in IntArithmetic /\ i.op \in BinaryOpcodes /\ WritesDest(i.op)
      /\ Local(i.op1)[1] = "int" /\ Local(i.op2)[1] = "int"
  BY <1>1, IntOperands
<1>3. op = i.op
  BY Decoding
<1>4. op \in IntArithmetic /\ op \in BinaryOpcodes /\ WritesDest(op)
  BY <1>2, <1>3
<1>5. AtOffset(op1) = Local(i.op1) /\ AtOffset(op2) = Local(i.op2)
  BY <1>1, <1>4, OperandsFetched
<1>6. CASE Binary
  <2>1. PICK v \in BinaryResults(op, AtOffset(op1), AtOffset(op2)) : Computes(v)
    BY <1>6 DEF Binary
  <2>2. v \in BinaryResults(i.op, Local(i.op1), Local(i.op2))
    BY <1>3, <1>5, <2>1
  <2> QED
    BY <1>1, <1>3, <1>4, <2>1, <2>2, DestinationSlot, StoredExactly
<1>7. CASE UndefinedBehaviour
  <2>1. IsUndefined /\ status' = "undefined"
    BY <1>7 DEF UndefinedBehaviour
  <2>2. BinaryResults(op, AtOffset(op1), AtOffset(op2)) = {}
    BY <1>4, <2>1 DEF IsUndefined, IntArithmetic
  <2>3. BinaryResults(i.op, Local(i.op1), Local(i.op2)) = {}
    BY <1>3, <1>5, <2>2
  <2> QED
    BY <1>1, <2>1, <2>3, NothingToStore
<1>8. ~ErrorExit
  BY <1>4 DEF ErrorExit, ExitsWithError, IntArithmetic
<1>9. HWithin => Binary \/ UndefinedBehaviour
  BY <1>4, <1>8 DEF HWithin, WithinActivation, IntArithmetic,
     FnEnterHeap, FnEnterStack, Jump, Branch, Branches, MoveImmediate, Immediates,
     Move, MoveFunction, Unary, UnaryOpcodes, ArgRead, GetInParent, CallNative, Pop, Push,
     SetInParent, ObjectAccess, ObjectOpcodes, ReturnFromRoot, Executes
<1>10. ~HCall /\ ~HReturn
  BY <1>4 DEF HCall, HReturn, Call, Return, Executes, IntArithmetic
<1>11. ~HHalted /\ ~UNCHANGED hvars
  BY DEF HHalted, Halted, hvars, vars
<1> QED
  BY <1>6, <1>7, <1>9, <1>10, <1>11 DEF HNext

(* vm_interpret computes with ints as arithmetic says, modulo the size of  *)
(* the type and with the sign rule of C, for every program and every       *)
(* width: because every int in memory is in range, no sum, product or      *)
(* quotient of two of them is misread, and a division traps exactly where  *)
(* the type has no result.                                                 *)
THEOREM IntegersAreExact == HSpec => IntegersExact
<1>1. HInit => RefinementInvariant
  BY RefinementStarts
<1>2. RefinementInvariant /\ [HNext]_hvars => RefinementInvariant'
  BY RefinementStays
<1>3. RefinementInvariant /\ [HNext]_hvars =>
        [status = "running" /\ OnInts(program.code[ip]) => \A i \in {program.code[ip]} :
           \/ status' = "undefined" /\ ~\E r \in IntRange : IsResult(i, r)
           \/ \E r \in IntRange : Local(i.dest)' = <<"int", r>> /\ IsResult(i, r)
        ]_<<program, ip, machine, status>>
  BY IntegerSteps
<1> QED
  BY <1>1, <1>2, <1>3, PTL DEF HSpec, IntegersExact

-----------------------------------------------------------------------------
(* Variables *)

(* No handler gives an activation the context of another one. *)
LEMMA ApartKept ==
  ASSUME InterpreterConvention, ContextsApart, [HNext]_hvars
  PROVE  ContextsApart'
<1>1. CallingConvention
  BY DEF InterpreterConvention
<1>2. FrameStep
  BY InterpreterSteps DEF FrameStep, CallStep
<1> QED
  BY <1>1, <1>2, ApartSteps

(* The words of the current context a handler touches: what it finds under *)
(* its prepared operands and where it puts what it computes.  (CALL stores *)
(* nothing itself, RET into the context of the caller.)                    *)
SlotsAccessed ==
  (IF op \in {"MOV", "CALL_NATIVE", "PUSH"} \cup Branches \cup BinaryOpcodes \cup UnaryOpcodes
     THEN {op1 \div WORD} ELSE {})
  \cup (IF op = "CALL" THEN {op1} ELSE {})
  \cup (IF op \in BinaryOpcodes THEN {op2 \div WORD} ELSE {})
  \cup (IF op = "SET_IN_PARENT" THEN {op2} ELSE {})
  \cup (IF op = "RET" THEN {destination} ELSE {})
  \cup (IF WritesDest(op) /\ op # "CALL" THEN {destination \div WORD} ELSE {})

(* They are the slots the instruction names. *)
LEMMA AccessesInFrame ==
  ASSUME CallingConvention, ~Entering
  PROVE  SlotsAccessed \subseteq 0 .. FrameSize(program, Frame.entry) - 1
<1> DEFINE i == program.code[ip]
<1>1. PICK slots : /\ slots = 0 .. FrameSize(program, Frame.entry) - 1
                   /\ SlotsRead(i) \subseteq slots
                   /\ \A s \in slots : s \in Nat
  <2>1. SlotsRead(i) \subseteq 0 .. FrameSize(program, Frame.entry) - 1
    BY InstructionFacts DEF WellFormedAt
  <2>2. FrameSize(program, Frame.entry) \in Nat
    BY FrameFacts DEF Frame
  <2> QED
    BY <2>1, <2>2
<1>2. op = i.op
  BY Decoding
<1>3. ASSUME op \in {"MOV", "CALL_NATIVE", "PUSH"} \cup Branches \cup BinaryOpcodes
                       \cup UnaryOpcodes
      PROVE  op1 \div WORD \in slots
  <2>1. i.op1 \in SlotsRead(i)
    BY <1>2, <1>3 DEF SlotsRead
  <2>2. ~IsImmediate(op)
    BY <1>3 DEF IsImmediate, FnEnters, ObjectOpcodes, Branches, BinaryOpcodes, UnaryOpcodes,
       IntArithmetic, DecimalArithmetic, Comparisons, IntComparisons, DecimalComparisons
  <2> QED
    BY <1>1, <2>1, <2>2, Decoding, Unscaled
<1>4. ASSUME op \in BinaryOpcodes
      PROVE  op2 \div WORD \in slots
  <2>1. i.op2 \in SlotsRead(i)
    BY <1>2, <1>4 DEF SlotsRead
  <2>2. ~IsImmediate(op)
    BY <1>4 DEF IsImmediate, FnEnters, ObjectOpcodes, BinaryOpcodes,
       IntArithmetic, DecimalArithmetic, Comparisons, IntComparisons, DecimalComparisons
  <2> QED
    BY <1>1, <2>1, <2>2, Decoding, Unscaled
<1>5. op = "CALL" => op1 \in slots
  BY <1>1, <1>2, Decoding DEF SlotsRead, IsImmediate
<1>6. op = "SET_IN_PARENT" => op2 \in slots
  BY <1>1, <1>2, Decoding DEF SlotsRead, IsImmediate
<1>7. op = "RET" => destination \in slots
  BY <1>1, <1>2, Decoding DEF SlotsRead, UsingDestinationOffset
<1>8. ASSUME WritesDest(op)
      PROVE  destination \div WORD \in slots
  <2>1. i.dest \in 1 .. FrameSize(program, Frame.entry) - 1
    BY <1>2, <1>8, SlotFacts
  <2>2. UsingDestinationOffset(op)
    BY <1>8 DEF UsingDestinationOffset, WritesDest, FnEnters, Jumps, Branches, Immediates,
       BinaryOpcodes, UnaryOpcodes, IntArithmetic, DecimalArithmetic, Comparisons,
       IntComparisons, DecimalComparisons
  <2>3. i.dest \in Nat /\ i.dest \in slots
    BY <1>1, <2>1, FrameFacts DEF Frame
  <2> QED
    BY <2>2, <2>3, Decoding, Unscaled
<1> QED
  BY <1>1, <1>3, <1>4, <1>5, <1>6, <1>7, <1>8 DEF SlotsAccessed

(* Every slot a handler of vm_interpret reads or writes is a variable of   *)
(* the running activation: in its part of the value stack, above all that  *)
(* belongs to its callers and below the operands, or in a heap context     *)
(* that is no other activation's.  Nothing a handler computes overwrites a *)
(* linkage, an argument, an operand or the variable of someone else.       *)
THEOREM OwnVariablesOnly ==
  HSpec => [](status = "running" /\ ~Entering => \A s \in SlotsAccessed : OwnSlot(s))
<1>1. HInit => InterpreterConvention /\ ContextsApart
  BY InitCorrect, ApartStart DEF HInit, Init
<1>2. InterpreterConvention /\ ContextsApart /\ [HNext]_hvars => (InterpreterConvention /\ ContextsApart)'
  BY NextCorrect, ApartKept
<1>3. InterpreterConvention /\ ContextsApart
        => (status = "running" /\ ~Entering => \A s \in SlotsAccessed : OwnSlot(s))
  BY AccessesInFrame, SlotsOfFrame DEF InterpreterConvention
<1> QED
  BY <1>1, <1>2, <1>3, PTL DEF HSpec

-----------------------------------------------------------------------------
(* Errors *)

(* The status turns to error only where there is a cause. *)
LEMMA ErrorHere ==
  ASSUME InterpreterConvention, status = "error" => ErrorCause(LinkageWords), [HNext]_hvars
  PROVE  status' = "error" => ErrorCause(LinkageWords)'
<1>1. CASE ErrorExit
  <2>1. UNCHANGED <<program, ip, machine>> /\ status = "running" /\ ExitsWithError
    BY <1>1 DEF ErrorExit
  <2> QED
    BY <2>1, ExitCause, CauseStays
<1>2. CASE HWithin /\ ~ErrorExit
  <2>1. status' \in {"running", "returned", "undefined"}
    BY <1>2 DEF HWithin, WithinActivation, FnEnterHeap, FnEnterStack, Jump, Branch,
       MoveImmediate, Move, MoveFunction, Binary, Unary, ArgRead, GetInParent, CallNative,
       Pop, Push, SetInParent, ObjectAccess, ReturnFromRoot, UndefinedBehaviour, Executes
  <2> QED
    BY <2>1
<1>3. CASE HCall \/ HReturn
  BY <1>3 DEF HCall, HReturn, Call, Return, Executes
<1>4. CASE HHalted \/ UNCHANGED hvars
  <2>1. UNCHANGED <<program, ip, machine>> /\ UNCHANGED status
    BY <1>4 DEF HHalted, Halted, hvars, vars
  <2> QED
    BY <2>1, CauseStays
<1> QED
  BY <1>1, <1>2, <1>3, <1>4 DEF HNext

(* vm_interpret calls exit(1) only where the stack is full or the callee   *)
(* is null.  The checks of pop in FN_ENTER, RET, POP and CALL_NATIVE never *)
(* fail: what a handler takes has always been pushed.                      *)
THEOREM ErrorsHaveACause == HSpec => [](status = "error" => ErrorCause(LinkageWords))
<1>1. HInit => InterpreterConvention /\ (status = "error" => ErrorCause(LinkageWords))
  BY InitCorrect DEF HInit, Init, SharedInit
<1>2. InterpreterConvention /\ (status = "error" => ErrorCause(LinkageWords)) /\ [HNext]_hvars
        => (InterpreterConvention /\ (status = "error" => ErrorCause(LinkageWords)))'
  BY NextCorrect, ErrorHere
<1> QED
  BY <1>1, <1>2, PTL DEF HSpec

=============================================================================
