-------------------------- MODULE Activations_proof --------------------------
(***************************************************************************)
(* The activations that the history of Frames and the memory stand for,    *)
(* in the form of ActivationMachine, and what the steps of an engine do to *)
(* them.  The refinement proofs build on these facts: they concern the     *)
(* frames only, so they serve every engine that keeps the convention.      *)
(***************************************************************************)
EXTENDS LexicalScopes, Frames_proof, WellFoundedInduction

(* The words of a stack from an index up to, and without, another one. *)
Words(stack, from, to) == [n \in 1 .. to - from |-> stack[from + n - 1]]

(* Changes of a sequence, as terms of their own for the provers. *)
Part(s, m, n) == SubSeq(s, m, n)
Added(s, e) == Append(s, e)
IsList(s, d) == s = [k \in 1 .. d |-> s[k]]
WithLocals(a, locals) == [a EXCEPT !.locals = locals]
StoredIn(s, i, v) == [s EXCEPT ![i + 1] = v]
StoredInBlock(blocks, c, i, v) == [blocks EXCEPT ![c[2]][i + 1] = v]

Activation(pc, args, operands, parent, ctx, locals, dest) ==
  [pc |-> pc, args |-> args, operands |-> operands, parent |-> parent, ctx |-> ctx,
   locals |-> locals, dest |-> dest]

ActivationOf(f, pc, ctx, entered, end, stack, blocks) ==
  LET leaf == entered /\ IsStackFunction(program, f.entry)
      context == f.base + IF entered THEN StackWords(program, f.entry) ELSE 0
  IN  Activation(pc, f.args, Words(stack, context, end),
                 IF ~entered THEN f.parent
                 ELSE IF leaf THEN stack[f.base] ELSE blocks[ctx[2]][1],
                 IF entered /\ ~leaf THEN ctx ELSE nullptr,
                 IF leaf THEN Words(stack, f.base, context) ELSE << >>,
                 f.dest)

EnteredActivation(f, pc, ctx, end, stack, blocks) ==
  ActivationOf(f, pc, ctx, TRUE, end, stack, blocks)

ResumeOf(k) == IF k = Depth THEN ip ELSE frames[k + 1].resume
OperandsEnd(k) == IF k = Depth THEN stack_pointer ELSE ArgumentsStart(k + 1)

Recorded(k) == ActivationOf(frames[k], ResumeOf(k), OwnContext(k), Entered(k),
                            OperandsEnd(k), value_stack, heap)
RecordedActs == [k \in 1 .. Depth |-> Recorded(k)]
Current == Recorded(Depth)

-----------------------------------------------------------------------------
(* Smallest and greatest elements, in place of induction *)

(* A set of natural numbers has a smallest element. *)
LEMMA Smallest ==
  ASSUME NEW T, T \subseteq Nat, T # {}
  PROVE  \E x \in T : \A y \in T : x <= y
<1> DEFINE less == {p \in Nat \X Nat : p[1] < p[2]}
<1>1. IsWellFoundedOn(less, Nat)
  BY NatLessThanWellFounded DEF OpToRel
<1> HIDE DEF less
<1>2. PICK x \in T : \A y \in T : <<y, x>> \notin less
  BY <1>1, WFMin
<1>3. \A y \in T : x \in Nat /\ y \in Nat /\ ~(y < x)
  BY <1>2 DEF less
<1> QED
  BY <1>3

(* A bounded one has a greatest element. *)
LEMMA Greatest ==
  ASSUME NEW T, NEW n, n \in Nat, T \subseteq 0 .. n, T # {}
  PROVE  \E x \in T : \A y \in T : y <= x
<1> DEFINE mirrored == {n - x : x \in T}
<1>1. mirrored \subseteq Nat /\ mirrored # {}
  <2>1. \A x \in T : n - x \in Nat
    OBVIOUS
  <2> QED
    BY <2>1
<1>2. PICK z \in mirrored : \A y \in mirrored : z <= y
  <2> HIDE DEF mirrored
  <2> QED
    BY <1>1, Smallest
<1>3. PICK x \in T : z = n - x
  OBVIOUS
<1>4. \A y \in T : n - x <= n - y
  BY <1>2, <1>3
<1>5. \A y \in T : y <= x
  BY <1>4
<1> QED
  BY <1>5

(* Concatenation with the empty sequence, which the decoder uses to make a *)
(* sequence of a function.                                                 *)
LEMMA SequenceOf ==
  ASSUME NEW s, NEW n, n \in Nat, IsList(s, n)
  PROVE  << >> \o s = s
<1>1. PICK S : S = {s[k] : k \in 1 .. n}
  OBVIOUS
<1>2. s \in Seq(S)
  <2>1. [k \in 1 .. n |-> s[k]] \in Seq(S)
    BY <1>1
  <2> QED
    BY <2>1, Zenon DEF IsList
<1> QED
  BY <1>2, ConcatEmptySeq

-----------------------------------------------------------------------------
(* Words and fields *)

(* Reading and changing a field. *)
LEMMA ActivationFields ==
  ASSUME NEW pc, NEW args, NEW operands, NEW parent, NEW ctx, NEW locals, NEW dest, NEW new
  PROVE  LET a == Activation(pc, args, operands, parent, ctx, locals, dest) IN
         /\ a.pc = pc
         /\ a.args = args
         /\ a.operands = operands
         /\ a.parent = parent
         /\ a.ctx = ctx
         /\ a.locals = locals
         /\ a.dest = dest
         /\ [a EXCEPT !.pc = new] = Activation(new, args, operands, parent, ctx, locals, dest)
         /\ [a EXCEPT !.operands = new] = Activation(pc, args, new, parent, ctx, locals, dest)
         /\ [a EXCEPT !.ctx = new] = Activation(pc, args, operands, parent, new, locals, dest)
         /\ [a EXCEPT !.locals = new] = Activation(pc, args, operands, parent, ctx, new, dest)
BY DEF Activation

-----------------------------------------------------------------------------
(* Runs of words *)

(* Its length and its elements. *)
LEMMA WordsFacts ==
  ASSUME NEW stack, NEW from, NEW to, from \in Nat, to \in Nat, from <= to
  PROVE  /\ Len(Words(stack, from, to)) = to - from
         /\ DOMAIN Words(stack, from, to) = 1 .. to - from
         /\ \A n \in 1 .. to - from : Words(stack, from, to)[n] = stack[from + n - 1]
BY DEF Words

(* What is on the stack are values. *)
LEMMA WordsAreValues ==
  ASSUME NEW stack, NEW from, NEW to,
         stack \in [StackIndexes -> Value], from \in Nat, to \in Nat, from <= to,
         to <= STACK_MAX + 2
  PROVE  Words(stack, from, to) \in Seq(Value)
<1>1. \A n \in 1 .. to - from : stack[from + n - 1] \in Value
  BY StackMaxAssumption DEF StackIndexes
<1>2. to - from \in Nat
  OBVIOUS
<1> QED
  BY <1>1, <1>2 DEF Words

(* Stores outside a run of words leave it. *)
LEMMA WordsSame ==
  ASSUME NEW old, NEW new, NEW from, NEW to, from \in Nat, to \in Nat,
         \A i \in Nat : from <= i /\ i < to => new[i] = old[i]
  PROVE  Words(new, from, to) = Words(old, from, to)
<1>1. \A n \in 1 .. to - from : new[from + n - 1] = old[from + n - 1]
  OBVIOUS
<1> QED
  BY <1>1 DEF Words

(* A store into a run of words. *)
LEMMA WordsStore ==
  ASSUME NEW old, NEW new, NEW from, NEW to, NEW i, NEW v,
         from \in Nat, to \in Nat, i \in Nat, from + i < to,
         \A n \in Nat : from <= n /\ n < to => new[n] = IF n = from + i THEN v ELSE old[n]
  PROVE  Words(new, from, to) = StoredIn(Words(old, from, to), i, v)
<1>1. \A n \in 1 .. to - from : new[from + n - 1] = IF n = i + 1 THEN v ELSE old[from + n - 1]
  OBVIOUS
<1> QED
  BY <1>1 DEF Words, StoredIn

(* One word more. *)
LEMMA WordsAppend ==
  ASSUME NEW stack, NEW from, NEW to, from \in Nat, to \in Nat, from <= to,
         Words(stack, from, to) \in Seq(Value), stack[to] \in Value
  PROVE  Words(stack, from, to + 1) = Append(Words(stack, from, to), stack[to])
<1>1. PICK old \in Seq(Value) : old = Words(stack, from, to)
  OBVIOUS
<1>2. /\ Len(old) = to - from
      /\ \A n \in 1 .. to - from : old[n] = stack[from + n - 1]
  <2>1. Len(Words(stack, from, to)) = to - from
    BY WordsFacts
  <2>2. \A n \in 1 .. to - from : Words(stack, from, to)[n] = stack[from + n - 1]
    BY DEF Words
  <2> QED
    BY <1>1, <2>1, <2>2
<1> DEFINE longer == Append(old, stack[to])
<1>3. /\ longer \in Seq(Value)
      /\ Len(longer) = to - from + 1
      /\ \A n \in 1 .. to - from : longer[n] = stack[from + n - 1]
      /\ longer[to - from + 1] = stack[to]
  <2>1. /\ longer \in Seq(Value)
        /\ Len(longer) = Len(old) + 1
        /\ \A n \in 1 .. Len(old) : longer[n] = old[n]
        /\ longer[Len(old) + 1] = stack[to]
    BY AppendProperties
  <2> HIDE DEF longer
  <2> QED
    BY <1>2, <2>1
<1> HIDE DEF longer
<1>4. longer = [n \in 1 .. to + 1 - from |-> longer[n]]
  BY <1>3
<1>5. \A n \in 1 .. to + 1 - from : longer[n] = stack[from + n - 1]
  BY <1>3
<1>6. longer = [n \in 1 .. to + 1 - from |-> stack[from + n - 1]]
  BY <1>4, <1>5
<1> QED
  BY <1>1, <1>6 DEF Words, longer

(* A part of a run of words. *)
LEMMA WordsPart ==
  ASSUME NEW stack, NEW from, NEW to, NEW m, NEW n, NEW low, NEW high,
         low = from + m - 1, high = from + n,
         from \in Nat, to \in Nat, from <= to,
         m \in Nat, m > 0, n \in Nat, n <= to - from, m <= n + 1,
         Words(stack, from, to) \in Seq(Value)
  PROVE  Part(Words(stack, from, to), m, n) = Words(stack, low, high)
<1>1. PICK all \in Seq(Value) : all = Words(stack, from, to)
  OBVIOUS
<1>2. /\ Len(all) = to - from
      /\ \A i \in 1 .. to - from : all[i] = stack[from + i - 1]
  <2>1. Len(Words(stack, from, to)) = to - from
    BY WordsFacts
  <2>2. \A i \in 1 .. to - from : Words(stack, from, to)[i] = stack[from + i - 1]
    BY DEF Words
  <2> QED
    BY <1>1, <2>1, <2>2
<1> DEFINE part == SubSeq(all, m, n)
<1>3. part \in Seq(Value) /\ Len(part) = n - m + 1
  <2>1. n \in 0 .. Len(all) /\ m \in 1 .. n + 1
    BY <1>2
  <2> QED
    BY <2>1
<1>4. \A i \in 1 .. n - m + 1 : part[i] = stack[from + m - 1 + i - 1]
  <2>1. \A i \in 1 .. n - m + 1 : part[i] = all[i + m - 1]
    BY <1>2
  <2> HIDE DEF part
  <2>2. \A i \in 1 .. n - m + 1 : i + m - 1 \in 1 .. to - from
    OBVIOUS
  <2>3. \A i \in 1 .. n - m + 1 : all[i + m - 1] = stack[from + (i + m - 1) - 1]
    BY <1>2, <2>2
  <2>4. \A i \in 1 .. n - m + 1 : from + (i + m - 1) - 1 = from + m - 1 + i - 1
    OBVIOUS
  <2> QED
    BY <2>1, <2>3, <2>4
<1> HIDE DEF part
<1>5. part = [i \in 1 .. n - m + 1 |-> stack[from + m - 1 + i - 1]]
  BY <1>3, <1>4
<1>6. (from + n) - (from + m - 1) = n - m + 1
  OBVIOUS
<1>7. Words(stack, low, high) = [i \in 1 .. n - m + 1 |-> stack[from + m - 1 + i - 1]]
  BY <1>6 DEF Words
<1> QED
  BY <1>1, <1>5, <1>7 DEF Part, part

(* The first words of a run. *)
LEMMA WordsPrefix ==
  ASSUME NEW stack, NEW from, NEW to, NEW n, NEW high, high = from + n,
         from \in Nat, to \in Nat, from <= to, n \in Nat, n <= to - from,
         Words(stack, from, to) \in Seq(Value)
  PROVE  Part(Words(stack, from, to), 1, n) = Words(stack, from, high)
<1>1. PICK m, low : m = 1 /\ low = from
  OBVIOUS
<1>2. low = from + m - 1 /\ m \in Nat /\ m > 0 /\ m <= n + 1
  BY <1>1
<1>3. Part(Words(stack, from, to), m, n) = Words(stack, low, high)
  BY <1>2, WordsPart
<1> QED
  BY <1>1, <1>3, Zenon

-----------------------------------------------------------------------------
(* Suspended activations *)

(* Where the operands of an activation are: above its own context, below   *)
(* the arguments of the next one.                                          *)
LEMMA OperandFacts ==
  ASSUME CallingConvention, NEW k \in 1 .. Depth
  PROVE  /\ frames[k].base \in Nat
         /\ StackWords(program, frames[k].entry) \in Nat
         /\ OperandsEnd(k) \in Nat
         /\ OperandsEnd(k) <= STACK_MAX + 1
         /\ Entered(k) => ContextEnd(k) <= OperandsEnd(k)
         /\ ~Entered(k) => frames[k].base = OperandsEnd(k)
         /\ k < Depth => Entered(k) /\ OperandsEnd(k) < Frame.base - 1
<1>1. /\ frames[k].base \in Nat
      /\ StackWords(program, frames[k].entry) \in Nat
      /\ ContextEnd(k) \in Nat
      /\ stack_pointer \in Nat /\ stack_pointer <= STACK_MAX + 1
      /\ Depth \in Nat
      /\ Frame.base \in Nat /\ Frame.base <= stack_pointer
  BY FrameFacts, BelowBase, StackMaxAssumption DEF StackIndexes
<1>2. CASE k = Depth
  <2>1. OperandsEnd(k) = stack_pointer
    BY <1>2 DEF OperandsEnd
  <2>2. Entered(k) <=> ~Entering
    BY <1>2 DEF Entered
  <2>3. ~Entering => ContextEnd(k) <= stack_pointer
    BY <1>2, FrameFacts
  <2>4. Entering => stack_pointer = frames[k].base
    BY <1>2 DEF CallingConvention, RegistersMatchFrame, Frame
  <2> QED
    BY <1>1, <1>2, <2>1, <2>2, <2>3, <2>4
<1>3. CASE k # Depth
  <2>1. k < Depth /\ k + 1 \in 1 .. Depth /\ k + 1 > 1
    BY <1>1, <1>3
  <2>2. OperandsEnd(k) = ArgumentsStart(k + 1) /\ Entered(k)
    BY <1>3, <2>1 DEF OperandsEnd, Entered
  <2>3. /\ ArgumentsStart(k + 1) > 0 /\ ArgumentsStart(k + 1) \in Int
        /\ Len(frames[k + 1].linkage) > 2
        /\ Len(frames[k + 1].linkage) \in Nat
        /\ Len(frames[k + 1].args) \in Nat
        /\ frames[k + 1].base \in Nat
    BY <2>1, FrameFacts
  <2>4. ArgumentsStart(k + 1) < frames[k + 1].base - 1
    <3>1. PICK words, size, base : /\ words = Len(frames[k + 1].linkage)
                                   /\ size = Len(frames[k + 1].args)
                                   /\ base = frames[k + 1].base
      OBVIOUS
    <3>2. words \in Nat /\ words > 2 /\ size \in Nat /\ base \in Nat
      BY <2>3, <3>1
    <3>3. base - words - size < base - 1
      BY <3>2
    <3> QED
      BY <3>1, <3>3 DEF ArgumentsStart
  <2>5. frames[k + 1].base <= Frame.base
    BY <2>1, BelowBase
  <2>6. ContextEnd(k) <= ArgumentsStart(k + 1)
    BY <2>1 DEF CallingConvention, FramesDisjoint
  <2>7. PICK start, base : start = ArgumentsStart(k + 1) /\ base = frames[k + 1].base
    OBVIOUS
  <2>8. start \in Nat /\ start < Frame.base - 1 /\ start <= STACK_MAX + 1
    BY <1>1, <2>3, <2>4, <2>5, <2>7, StackMaxAssumption
  <2> QED
    BY <1>1, <2>1, <2>2, <2>6, <2>7, <2>8
<1> QED
  BY <1>2, <1>3

(* Nothing that happens above the operands of an activation changes it, if *)
(* the parents of contexts stay.                                           *)
LEMMA ActivationSame ==
  ASSUME CallingConvention, NEW k, NEW pc, NEW end, NEW stack, NEW blocks,
         k \in 1 .. Depth, Entered(k), end \in Nat, ContextEnd(k) <= end,
         \A i \in Nat : i < end => stack[i] = value_stack[i],
         \A n \in DOMAIN heap : blocks[n][1] = heap[n][1]
  PROVE  EnteredActivation(frames[k], pc, OwnContext(k), end, stack, blocks)
           = EnteredActivation(frames[k], pc, OwnContext(k), end, value_stack, heap)
<1> DEFINE f == frames[k]
           words == StackWords(program, f.entry)
<1>1. /\ f.base \in Nat /\ words \in Nat
      /\ f.base + words <= end
  BY OperandFacts DEF ContextEnd
<1>2. Words(stack, f.base + words, end) = Words(value_stack, f.base + words, end)
  <2> HIDE DEF f, words
  <2> QED
    BY <1>1, WordsSame
<1>3. Words(stack, f.base, f.base + words) = Words(value_stack, f.base, f.base + words)
  <2> HIDE DEF f, words
  <2>1. \A i \in Nat : f.base <= i /\ i < f.base + words => stack[i] = value_stack[i]
    BY <1>1
  <2> QED
    BY <1>1, <2>1, WordsSame
<1>4. CASE IsStackFunction(program, f.entry)
  <2>1. words > 0
    BY <1>4, FrameFacts DEF StackWords
  <2>2. stack[f.base] = value_stack[f.base]
    <3> HIDE DEF f, words
    <3> QED
      BY <1>1, <2>1
  <2> QED
    BY <1>2, <1>3, <1>4, <2>2 DEF ActivationOf, EnteredActivation
<1>5. CASE ~IsStackFunction(program, f.entry)
  <2>1. OwnContext(k) \in HeapContexts
    BY <1>5 DEF CallingConvention, ContextsOwned
  <2>2. blocks[OwnContext(k)[2]][1] = heap[OwnContext(k)[2]][1]
    BY <2>1, HeapContextFacts
  <2> QED
    BY <1>2, <1>5, <2>2 DEF ActivationOf, EnteredActivation
<1> QED
  BY <1>4, <1>5

(* In particular nothing that happens above the base of the running        *)
(* activation changes a suspended one.                                     *)
LEMMA SuspendedSame ==
  ASSUME CallingConvention, NEW k, NEW pc, NEW stack, NEW blocks, k \in 1 .. Depth, k < Depth,
         \A i \in StackIndexes : i < Frame.base - 1 => stack[i] = value_stack[i],
         \A n \in DOMAIN heap : blocks[n][1] = heap[n][1]
  PROVE  EnteredActivation(frames[k], pc, OwnContext(k), OperandsEnd(k), stack, blocks)
           = EnteredActivation(frames[k], pc, OwnContext(k), OperandsEnd(k), value_stack, heap)
<1>1. PICK end : end = OperandsEnd(k)
  OBVIOUS
<1>2. /\ end \in Nat /\ end < Frame.base - 1 /\ Entered(k) /\ ContextEnd(k) <= end
      /\ Frame.base \in Nat /\ \A i \in 0 .. Frame.base : i \in StackIndexes
  BY <1>1, OperandFacts, BelowBase
<1>3. \A i \in Nat : i < end => stack[i] = value_stack[i]
  <2>1. \A i \in Nat : i < end => i \in 0 .. Frame.base /\ i < Frame.base - 1
    BY <1>2
  <2> QED
    BY <1>2, <2>1
<1> QED
  BY <1>1, <1>2, <1>3, ActivationSame

(* Every step that keeps the frames keeps what they stand for, but for the *)
(* running activation.                                                     *)
LEMMA WithinActs ==
  ASSUME CallingConvention, UNCHANGED <<program, frames>>,
         \A i \in StackIndexes : i < Frame.base - 1 => value_stack'[i] = value_stack[i],
         \A n \in DOMAIN heap : heap'[n][1] = heap[n][1]
  PROVE  RecordedActs' = [RecordedActs EXCEPT ![Depth] = Current']
<1>1. /\ Depth' = Depth
      /\ Depth \in Nat \ {0}
  BY FrameFacts DEF Depth
<1>2. ASSUME NEW k \in 1 .. Depth, k # Depth
      PROVE  Recorded(k)' = Recorded(k)
  <2>1. k < Depth
    BY <1>1, <1>2
  <2>2. /\ Entered(k) /\ Entered(k)'
        /\ OwnContext(k)' = OwnContext(k)
        /\ OperandsEnd(k)' = OperandsEnd(k)
        /\ ResumeOf(k)' = ResumeOf(k)
        /\ frames[k]' = frames[k]
    BY <1>1, <1>2, <2>1
       DEF Entered, OwnContext, OperandsEnd, ResumeOf, ArgumentsStart, Frame
  <2>3. EnteredActivation(frames[k], ResumeOf(k), OwnContext(k), OperandsEnd(k), value_stack', heap')
          = EnteredActivation(frames[k], ResumeOf(k), OwnContext(k), OperandsEnd(k), value_stack, heap)
    BY <2>1, SuspendedSame
  <2> QED
    BY <2>2, <2>3 DEF Recorded, ActivationOf, EnteredActivation
<1>3. ASSUME NEW k \in 1 .. Depth, k = Depth
      PROVE  Recorded(k)' = Current'
  BY <1>1, <1>3 DEF Current, Recorded, Entered, OwnContext, OperandsEnd, ResumeOf
<1>4. RecordedActs' = [k \in 1 .. Depth |-> Recorded(k)']
  BY <1>1 DEF RecordedActs
<1>5. \A k \in 1 .. Depth : Recorded(k)' = IF k = Depth THEN Current' ELSE Recorded(k)
  BY <1>2, <1>3
<1> QED
  BY <1>1, <1>4, <1>5 DEF RecordedActs

-----------------------------------------------------------------------------
(* The running activation *)

Leaf == IsStackFunction(program, Frame.entry)
OperandWords == Words(value_stack, ContextEnd(Depth), stack_pointer)
CurrentContext == IF Leaf THEN nullptr ELSE context_object
LocalWords == IF Leaf THEN Words(value_stack, Frame.base, ContextEnd(Depth)) ELSE << >>

(* What an entered activation is, in terms of the registers. *)
LEMMA CurrentFacts ==
  ASSUME CallingConvention, ~Entering
  PROVE  /\ Current = Activation(ip, Frame.args, OperandWords, Local(0), CurrentContext,
                                LocalWords, Frame.dest)
         /\ Frame.base \in Nat
         /\ ContextEnd(Depth) \in Nat
         /\ ContextEnd(Depth) <= stack_pointer
         /\ Leaf => ContextEnd(Depth) = Frame.base + FrameSize(program, Frame.entry)
         /\ OperandWords \in Seq(Value)
         /\ Len(OperandWords) = program.height[ip]
         /\ LocalWords \in Seq(Value)
         /\ Leaf => Len(LocalWords) = FrameSize(program, Frame.entry)
         /\ Local(0) = IF Leaf THEN value_stack[Frame.base] ELSE heap[context_object[2]][1]
<1>1. /\ Depth \in 1 .. Depth /\ Entered(Depth) /\ OwnContext(Depth) = context_object
      /\ OperandsEnd(Depth) = stack_pointer /\ ResumeOf(Depth) = ip
  BY FrameFacts DEF Entered, OwnContext, OperandsEnd, ResumeOf
<1>2. /\ Frame.base \in Nat
      /\ ContextEnd(Depth) \in Nat
      /\ ContextEnd(Depth) <= stack_pointer
      /\ Frame.base <= ContextEnd(Depth)
      /\ stack_pointer <= STACK_MAX + 2
      /\ stack_pointer \in Nat
      /\ FrameSize(program, Frame.entry) \in Nat \ {0}
  <2>1. StackWords(program, Frame.entry) \in Nat
    BY <1>1, FrameFacts DEF Frame
  <2>2. Frame.base \in Nat /\ ContextEnd(Depth) = Frame.base + StackWords(program, Frame.entry)
    BY <1>1, FrameFacts DEF Frame, ContextEnd
  <2>3. ContextEnd(Depth) <= stack_pointer /\ stack_pointer <= STACK_MAX + 1
    BY <1>1, OperandFacts
  <2>4. FrameSize(program, Frame.entry) \in Nat \ {0}
    BY <1>1, FrameFacts DEF Frame
  <2>5. stack_pointer \in Nat
    BY StateFacts
  <2> QED
    BY <2>1, <2>2, <2>3, <2>4, <2>5, StackMaxAssumption
<1>3. Leaf => ContextEnd(Depth) = Frame.base + FrameSize(program, Frame.entry)
  BY DEF Leaf, ContextEnd, Frame, StackWords
<1>4. Local(0) = IF Leaf THEN value_stack[Frame.base] ELSE heap[context_object[2]][1]
  <2>1. CASE Leaf
    BY <1>2, <2>1, ContextFacts DEF Leaf, Local, Slot, OnStack, HeapContexts
  <2>2. CASE ~Leaf
    BY <2>2, ContextFacts, HeapContextFacts DEF Leaf, Local, Slot
  <2> QED
    BY <2>1, <2>2
<1>5. Current = Activation(ip, Frame.args, OperandWords, Local(0), CurrentContext,
                           LocalWords, Frame.dest)
  BY <1>1, <1>4 DEF Current, Recorded, ActivationOf, EnteredActivation, OperandWords, LocalWords, CurrentContext,
     Leaf, Frame, ContextEnd
<1>6. OperandWords \in Seq(Value) /\ Len(OperandWords) = program.height[ip]
  <2>1. OperandWords \in Seq(Value)
    BY <1>2, StateFacts, WordsAreValues DEF OperandWords
  <2>2. Len(OperandWords) = stack_pointer - ContextEnd(Depth)
    BY <1>2, WordsFacts DEF OperandWords
  <2>3. stack_pointer = ContextEnd(Depth) + program.height[ip] /\ program.height[ip] \in Nat
    BY StateFacts
  <2> QED
    BY <1>2, <2>1, <2>2, <2>3
<1>7. LocalWords \in Seq(Value) /\ (Leaf => Len(LocalWords) = FrameSize(program, Frame.entry))
  <2>1. CASE Leaf
    <3>1. ContextEnd(Depth) <= STACK_MAX + 2
      BY <1>2, StackMaxAssumption
    <3>2. LocalWords = Words(value_stack, Frame.base, ContextEnd(Depth))
      BY <2>1 DEF LocalWords
    <3>3. LocalWords \in Seq(Value)
      BY <1>2, <3>1, <3>2, StateFacts, WordsAreValues
    <3>4. Len(LocalWords) = ContextEnd(Depth) - Frame.base
      BY <1>2, <3>2, WordsFacts
    <3> QED
      BY <1>2, <1>3, <2>1, <3>3, <3>4
  <2>2. CASE ~Leaf
    BY <2>2 DEF LocalWords
  <2> QED
    BY <2>1, <2>2
<1> QED
  BY <1>2, <1>3, <1>4, <1>5, <1>6, <1>7

(* The slots of the running context, wherever it is. *)
LEMMA SlotsOfCurrent ==
  ASSUME CallingConvention, ~Entering,
         NEW s \in 0 .. FrameSize(program, Frame.entry) - 1
  PROVE  /\ Leaf => Local(s) = LocalWords[s + 1]
         /\ ~Leaf => Local(s) = heap[context_object[2]][s + 1]
<1>1. /\ FrameSize(program, Frame.entry) \in Nat /\ Frame.base \in Nat /\ ContextEnd(Depth) \in Nat
      /\ Leaf => ContextEnd(Depth) = Frame.base + FrameSize(program, Frame.entry)
  <2>1. FrameSize(program, Frame.entry) \in Nat
    BY FrameFacts DEF Frame
  <2> QED
    BY <2>1, CurrentFacts
<1>2. CASE Leaf
  <2>1. Local(s) = value_stack[Frame.base + s]
    BY <1>2, ContextFacts DEF Leaf, Local, Slot, OnStack
  <2>2. s + 1 \in 1 .. ContextEnd(Depth) - Frame.base
    BY <1>1, <1>2
  <2>3. Words(value_stack, Frame.base, ContextEnd(Depth))[s + 1] = value_stack[Frame.base + (s + 1) - 1]
    BY <2>2 DEF Words
  <2>4. Frame.base + (s + 1) - 1 = Frame.base + s
    BY <1>1
  <2> QED
    BY <1>2, <2>1, <2>3, <2>4 DEF LocalWords
<1>3. CASE ~Leaf
  BY <1>3, ContextFacts, HeapContextFacts DEF Leaf, Local, Slot
<1> QED
  BY <1>2, <1>3

(* The first slot is the parent. *)
LEMMA ParentOfCurrent ==
  ASSUME CallingConvention, ~Entering
  PROVE  /\ Leaf => Local(0) = LocalWords[1]
         /\ ~Leaf => Local(0) = heap[context_object[2]][1]
<1>1. FrameSize(program, Frame.entry) \in Nat \ {0}
  BY FrameFacts DEF Frame
<1>2. 0 \in 0 .. FrameSize(program, Frame.entry) - 1 /\ 0 + 1 = 1
  BY <1>1
<1> QED
  BY <1>2, SlotsOfCurrent

(* A step inside an activation changes its program counter, its operands   *)
(* and its locals.                                                         *)
LEMMA LocalActs ==
  ASSUME CallingConvention, LocalStep
  PROVE  RecordedActs' =
           [RecordedActs EXCEPT ![Depth] =
              Activation(ip', Frame.args, Words(value_stack', ContextEnd(Depth), stack_pointer'),
                         Local(0), CurrentContext,
                         IF Leaf THEN Words(value_stack', Frame.base, ContextEnd(Depth))
                         ELSE << >>,
                         Frame.dest)]
<1>1. /\ ~Entering
      /\ UNCHANGED <<program, frames, context_object>>
      /\ \A i \in StackIndexes : i < Frame.base => value_stack'[i] = value_stack[i]
      /\ Leaf => value_stack'[Frame.base] = value_stack[Frame.base]
      /\ \A n \in DOMAIN heap : heap'[n][1] = heap[n][1]
      /\ ip' \in Addresses(program) \ EntriesOf(program)
  BY DEF LocalStep, LocalEffect, Leaf
<1>2. RecordedActs' = [RecordedActs EXCEPT ![Depth] = Current']
  <2>1. \A i \in StackIndexes : i < Frame.base - 1 => value_stack'[i] = value_stack[i]
    BY <1>1, CurrentFacts, StackMaxAssumption DEF StackIndexes
  <2> QED
    BY <1>1, <2>1, WithinActs
<1>3. Current' = Activation(ip', Frame.args,
                            Words(value_stack', ContextEnd(Depth), stack_pointer'),
                            IF Leaf THEN value_stack'[Frame.base]
                            ELSE heap'[context_object[2]][1],
                            CurrentContext,
                            IF Leaf THEN Words(value_stack', Frame.base, ContextEnd(Depth))
                            ELSE << >>,
                            Frame.dest)
  <2>1. ~Entering'
    BY <1>1 DEF Entering, EntriesOf
  <2>2. Depth' = Depth /\ Depth \in Nat
    BY <1>1, FrameFacts DEF Depth
  <2>3. /\ Entered(Depth)'
        /\ OwnContext(Depth)' = context_object
        /\ OperandsEnd(Depth)' = stack_pointer'
        /\ ResumeOf(Depth)' = ip'
        /\ frames[Depth]' = Frame
    BY <1>1, <2>1, <2>2 DEF Entered, OwnContext, OperandsEnd, ResumeOf, Frame
  <2> QED
    BY <1>1, <2>3 DEF Current, Recorded, ActivationOf, EnteredActivation, CurrentContext, Leaf, Frame, ContextEnd
<1>4. Local(0) = IF Leaf THEN value_stack'[Frame.base] ELSE heap'[context_object[2]][1]
  <2>1. CASE Leaf
    BY <1>1, <2>1, CurrentFacts, ContextFacts DEF Leaf, Local, Slot, OnStack, HeapContexts
  <2>2. CASE ~Leaf
    BY <1>1, <2>2, ContextFacts, HeapContextFacts DEF Leaf, Local, Slot
  <2> QED
    BY <2>1, <2>2
<1> QED
  BY <1>2, <1>3, <1>4

-----------------------------------------------------------------------------
(* The steps inside an activation *)

(* Control moves, or a slot of another context is written. *)
LEMMA MovingActs ==
  ASSUME CallingConvention, LocalStep, UNCHANGED <<value_stack, stack_pointer>>
  PROVE  RecordedActs' =
           [RecordedActs EXCEPT ![Depth] =
              Activation(ip', Frame.args, OperandWords, Local(0), CurrentContext, LocalWords,
                         Frame.dest)]
BY LocalActs DEF OperandWords, LocalWords

(* A word is computed into the running context, and n operands are used. *)
LEMMA ComputingActs ==
  ASSUME CallingConvention, LocalStep,
         NEW slot \in 1 .. FrameSize(program, Frame.entry) - 1, NEW word,
         StoreSlot(context_object, slot, word),
         NEW used \in Nat, stack_pointer' = stack_pointer - used
  PROVE  /\ RecordedActs' =
              [RecordedActs EXCEPT ![Depth] =
                 Activation(ip', Frame.args,
                            Part(OperandWords, 1, Len(OperandWords) - used),
                            Local(0), CurrentContext,
                            IF Leaf THEN StoredIn(LocalWords, slot, word) ELSE LocalWords,
                            Frame.dest)]
         /\ Leaf => heap' = heap
         /\ ~Leaf => heap' = StoredInBlock(heap, context_object, slot, word)
<1> DEFINE base == Frame.base
           context == ContextEnd(Depth)
           end == stack_pointer - used
<1>1. /\ ~Entering
      /\ base \in Nat /\ context \in Nat /\ stack_pointer \in Nat
      /\ base <= context /\ context <= stack_pointer
      /\ stack_pointer <= STACK_MAX + 1
      /\ Leaf => context = base + FrameSize(program, Frame.entry)
      /\ FrameSize(program, Frame.entry) \in Nat
      /\ value_stack \in [StackIndexes -> Value]
  <2>1. ~Entering
    BY DEF LocalStep
  <2>2. /\ base \in Nat /\ context \in Nat /\ context <= stack_pointer
        /\ Leaf => context = base + FrameSize(program, Frame.entry)
    BY <2>1, CurrentFacts
  <2>3. FrameSize(program, Frame.entry) \in Nat /\ StackWords(program, Frame.entry) \in Nat
    BY FrameFacts DEF Frame
  <2>4. base <= context
    BY <2>2, <2>3 DEF ContextEnd, Frame
  <2>5. stack_pointer \in StackIndexes
    BY StateFacts
  <2> QED
    BY <2>1, <2>2, <2>3, <2>4, <2>5, StateFacts, StackMaxAssumption DEF StackIndexes
<1>2. context <= end /\ end \in Nat
  <2>1. ip' \in Addresses(program) /\ stack_pointer' = context + program.height[ip']
    BY DEF LocalStep
  <2>2. program.height[ip'] \in Nat
    BY <2>1, FrameFacts, AddressFacts
  <2> QED
    BY <1>1, <2>1, <2>2
<1>3. /\ Leaf => value_stack' = [value_stack EXCEPT ![base + slot] = word] /\ heap' = heap
      /\ ~Leaf => value_stack' = value_stack /\ heap' = StoredInBlock(heap, context_object, slot, word)
  <2>1. CASE Leaf
    BY <1>1, <2>1, ContextFacts DEF Leaf, StoreSlot, OnStack
  <2>2. CASE ~Leaf
    BY <1>1, <2>2, ContextFacts, HeapContextFacts DEF Leaf, StoreSlot, StoredInBlock
  <2> QED
    BY <2>1, <2>2
<1>4. Words(value_stack', context, end) = Part(OperandWords, 1, Len(OperandWords) - used)
  <2>1. Words(value_stack', context, end) = Words(value_stack, context, end)
    <3>1. \A j \in Nat : context <= j /\ j < end => value_stack'[j] = value_stack[j]
      <4>1. CASE Leaf
        <5>1. base + slot < context
          BY <1>1, <4>1
        <5>2. \A j \in Nat : context <= j => j # base + slot
          BY <1>1, <5>1
        <5>3. \A j \in Nat : j < end => j \in StackIndexes
          BY <1>1, StackMaxAssumption DEF StackIndexes
        <5> HIDE DEF base, context, end
        <5> QED
          BY <1>1, <1>3, <4>1, <5>2, <5>3
      <4>2. CASE ~Leaf
        BY <1>3, <4>2
      <4> QED
        BY <4>1, <4>2
    <3> HIDE DEF context, end
    <3> QED
      BY <1>1, <1>2, <3>1, WordsSame
  <2>2. /\ OperandWords = Words(value_stack, context, stack_pointer)
        /\ OperandWords \in Seq(Value)
    BY <1>1, CurrentFacts DEF OperandWords
  <2>3. Len(OperandWords) = stack_pointer - context
    BY <1>1, <2>2, WordsFacts
  <2>4. end - context = Len(OperandWords) - used
    BY <1>1, <1>2, <2>3
  <2>5. end <= stack_pointer
    BY <1>1
  <2> HIDE DEF context, end
  <2>6. PICK one, left : one = 1 /\ left = end - context /\ one \in Nat /\ left \in Nat
    BY <1>1, <1>2
  <2>7. Part(Words(value_stack, context, stack_pointer), one, left)
          = Words(value_stack, context, end)
    BY <1>1, <1>2, <2>2, <2>5, <2>6, WordsPart
  <2> QED
    BY <2>1, <2>2, <2>4, <2>6, <2>7
<1>5. Leaf => Words(value_stack', base, context) = StoredIn(LocalWords, slot, word)
  <2> SUFFICES ASSUME Leaf
               PROVE  Words(value_stack', base, context) = StoredIn(LocalWords, slot, word)
    OBVIOUS
  <2>1. base + slot < context /\ slot \in Nat
    BY <1>1
  <2>2. \A j \in base .. context - 1 : j \in DOMAIN value_stack
    BY <1>1, StackMaxAssumption DEF StackIndexes
  <2>3. LocalWords = Words(value_stack, base, context)
    BY DEF LocalWords
  <2>4. \A n \in Nat : base <= n /\ n < context =>
          value_stack'[n] = IF n = base + slot THEN word ELSE value_stack[n]
    BY <1>1, <1>3, <2>2
  <2> HIDE DEF base, context
  <2> QED
    BY <1>1, <2>1, <2>2, <2>3, <2>4, WordsStore
<1>6. ~Leaf => LocalWords = << >>
  BY DEF LocalWords
<1> QED
  BY <1>3, <1>4, <1>5, <1>6, LocalActs

(* A word is pushed. *)
LEMMA PushingActs ==
  ASSUME CallingConvention, LocalStep, NEW word \in Value, PushWord(word),
         stack_pointer <= STACK_MAX
  PROVE  RecordedActs' =
           [RecordedActs EXCEPT ![Depth] =
              Activation(ip', Frame.args, Append(OperandWords, word), Local(0), CurrentContext,
                         LocalWords, Frame.dest)]
<1> DEFINE base == Frame.base
           context == ContextEnd(Depth)
<1>1. /\ ~Entering
      /\ base \in Nat /\ context \in Nat /\ stack_pointer \in Nat
      /\ context <= stack_pointer
      /\ OperandWords \in Seq(Value)
      /\ value_stack \in [StackIndexes -> Value]
  BY CurrentFacts, StateFacts DEF LocalStep
<1>2. /\ \A j \in StackIndexes : value_stack'[j] = IF j = stack_pointer THEN word ELSE value_stack[j]
      /\ stack_pointer' = stack_pointer + 1
      /\ stack_pointer \in StackIndexes
  <2>1. value_stack' = [j \in StackIndexes |-> IF j \in stack_pointer .. stack_pointer
                                              THEN <<word>>[j - stack_pointer + 1] ELSE value_stack[j]]
    BY StateFacts DEF PushWord, Pushed
  <2>2. \A j \in StackIndexes : value_stack'[j] = IF j = stack_pointer THEN word ELSE value_stack[j]
    BY <2>1, StateFacts, StackMaxAssumption DEF StackIndexes
  <2> QED
    BY <2>2, StateFacts DEF PushWord
<1>3. \A j \in Nat : j < stack_pointer => value_stack'[j] = value_stack[j]
  BY <1>1, <1>2, StackMaxAssumption DEF StackIndexes
<1>4. Words(value_stack', context, stack_pointer) = OperandWords
  <2>1. \A j \in Nat : context <= j /\ j < stack_pointer => value_stack'[j] = value_stack[j]
    BY <1>3
  <2> HIDE DEF context
  <2>2. Words(value_stack', context, stack_pointer) = Words(value_stack, context, stack_pointer)
    BY <1>1, <2>1, WordsSame
  <2> QED
    BY <2>2 DEF OperandWords, context
<1>5. Words(value_stack', context, stack_pointer') = Append(OperandWords, word)
  <2>1. value_stack'[stack_pointer] = word
    BY <1>2
  <2> HIDE DEF context
  <2>2. Words(value_stack', context, stack_pointer + 1)
          = Append(Words(value_stack', context, stack_pointer), value_stack'[stack_pointer])
    BY <1>1, <1>4, <2>1, WordsAppend
  <2> QED
    BY <1>2, <1>4, <2>1, <2>2
<1>6. Leaf => Words(value_stack', base, context) = LocalWords
  <2>1. \A j \in Nat : base <= j /\ j < context => value_stack'[j] = value_stack[j]
    BY <1>1, <1>3
  <2>2. Leaf => LocalWords = Words(value_stack, base, context)
    BY DEF LocalWords
  <2> HIDE DEF base, context
  <2> QED
    BY <1>1, <2>1, <2>2, WordsSame
<1>7. ~Leaf => LocalWords = << >>
  BY DEF LocalWords
<1> QED
  BY <1>5, <1>6, <1>7, LocalActs

-----------------------------------------------------------------------------
(* The list of activations *)

(* There is one for every frame, the last one being the current one. *)
LEMMA ActsFacts ==
  ASSUME CallingConvention
  PROVE  /\ Depth \in Nat \ {0}
         /\ Len(RecordedActs) = Depth
         /\ DOMAIN RecordedActs = 1 .. Depth
         /\ \A k \in 1 .. Depth : RecordedActs[k] = Recorded(k)
         /\ RecordedActs[Depth] = Current
BY FrameFacts DEF RecordedActs, Current

(* No words. *)
LEMMA WordsEmpty ==
  ASSUME NEW stack, NEW from, from \in Nat
  PROVE  Words(stack, from, from) = << >>
BY DEF Words

(* Before it is entered an activation has nothing but its arguments and    *)
(* its parent.                                                             *)
LEMMA EnteringCurrent ==
  ASSUME CallingConvention, Entering
  PROVE  Current = Activation(ip, Frame.args, << >>, Frame.parent, nullptr, << >>, Frame.dest)
<1>1. /\ ~Entered(Depth) /\ ResumeOf(Depth) = ip /\ OperandsEnd(Depth) = Frame.base
      /\ Frame.base + 0 = Frame.base /\ Frame.base \in Nat
  BY FrameFacts, EnteringFacts DEF Entered, ResumeOf, OperandsEnd, Frame
<1>2. Words(value_stack, Frame.base, Frame.base) = << >>
  BY <1>1, WordsEmpty
<1> QED
  BY <1>1, <1>2 DEF Current, Recorded, ActivationOf, EnteredActivation, Frame

(* FN_ENTER gives the running activation a context with its parent in the  *)
(* first slot.                                                             *)
LEMMA EnterActs ==
  ASSUME CallingConvention, EnterStep, CallingConvention'
  PROVE  /\ RecordedActs' =
              [RecordedActs EXCEPT ![Depth] =
                 Activation(ip + 1, Frame.args, << >>, Frame.parent,
                            IF Leaf THEN nullptr ELSE <<"heap", Len(heap) + 1>>,
                            LocalWords', Frame.dest)]
         /\ LocalWords' \in Seq(Value)
         /\ Leaf => /\ Len(LocalWords') = FrameSize(program, Frame.entry)
                    /\ LocalWords'[1] = Frame.parent
         /\ ~Leaf => LocalWords' = << >>
<1>1. /\ Entering
      /\ Depth' = Depth /\ Frame' = Frame /\ Leaf' = Leaf
      /\ UNCHANGED <<program, frames>>
      /\ ip' = ip + 1
      /\ ~Entering'
  <2>1. Entering /\ UNCHANGED <<program, frames>> /\ ip' = ip + 1
    BY DEF EnterStep, Entering, FnEnters
  <2>2. ip \in EntriesOf(program)
    BY <2>1, FrameFacts
  <2>3. ip' \notin EntriesOf(program)
    BY <2>1, <2>2, FrameFacts, SuccessorFacts, InstructionFacts DEF FnEnters
  <2>4. ~Entering'
    BY <2>1, <2>3, FrameFacts DEF CallingConvention, FramesTypeOK, SharedTypeOK, Entering, EntriesOf
  <2> QED
    BY <2>1, <2>4 DEF Depth, Frame, Leaf
<1>2. /\ \A i \in StackIndexes : i < Frame.base - 1 => value_stack'[i] = value_stack[i]
      /\ \A n \in DOMAIN heap : heap'[n] = heap[n]
      /\ Leaf => /\ value_stack'[Frame.base] = Frame.parent
                 /\ UNCHANGED heap
                 /\ stack_pointer' = stack_pointer + FrameSize(program, Frame.entry)
      /\ ~Leaf => /\ heap' = Append(heap, NewHeapContext(program.code[ip].op1, Frame.parent))
                  /\ context_object' = <<"heap", Len(heap) + 1>>
                  /\ stack_pointer' = stack_pointer
  <2>1. /\ stack_pointer = Frame.base /\ Top = Frame.parent
        /\ program.code[ip].op1 = FrameSize(program, Frame.entry)
        /\ stack_pointer \in StackIndexes /\ stack_pointer - 1 \in StackIndexes
        /\ stack_pointer \in Nat \ {0}
        /\ heap \in Seq(Seq(Value)) /\ value_stack \in [StackIndexes -> Value]
    BY <1>1, EnteringFacts, HeapFacts, StateFacts
  <2>2. ip = Frame.entry
    BY <1>1, FrameFacts, EntryFacts
  <2>3. CASE program.code[ip].op = "FN_ENTER_HEAP"
    <3>1. /\ heap' = Append(heap, NewHeapContext(program.code[ip].op1, Top))
          /\ context_object' = <<"heap", Len(heap) + 1>>
          /\ value_stack' = [value_stack EXCEPT ![stack_pointer - 1] = uvalue(base_pointer)]
          /\ stack_pointer' = stack_pointer
      BY <2>3 DEF EnterStep, EnterHeap
    <3>2. ~Leaf
      BY <2>2, <2>3 DEF Leaf, IsStackFunction
    <3>3. \A n \in DOMAIN heap : heap'[n] = heap[n]
      BY <2>1, <3>1, AppendIndexes
    <3> QED
      BY <2>1, <3>1, <3>2, <3>3
  <2>4. CASE program.code[ip].op = "FN_ENTER_STACK"
    <3>1. /\ value_stack' = [n \in StackIndexes |->
               IF n = stack_pointer - 1 THEN uvalue(base_pointer)
               ELSE IF n >= stack_pointer
                      THEN InitCallContext(n - stack_pointer, Top, value_stack[n])
               ELSE value_stack[n]]
          /\ stack_pointer' = stack_pointer + program.code[ip].op1
          /\ UNCHANGED heap
      BY <2>4 DEF EnterStep, EnterStack
    <3>2. Leaf
      BY <2>2, <2>4 DEF Leaf, IsStackFunction
    <3>3. value_stack'[stack_pointer] = InitCallContext(0, Top, value_stack[stack_pointer])
      BY <2>1, <3>1
    <3>4. value_stack'[stack_pointer] = Top
      BY <3>3 DEF InitCallContext
    <3>5. \A n \in StackIndexes : n < stack_pointer - 1 => value_stack'[n] = value_stack[n]
      BY <2>1, <3>1, StackMaxAssumption DEF StackIndexes
    <3> QED
      BY <2>1, <3>1, <3>2, <3>4, <3>5
  <2> QED
    BY <2>3, <2>4 DEF EnterStep
<1>3. RecordedActs' = [RecordedActs EXCEPT ![Depth] = Current']
  BY <1>1, <1>2, WithinActs
<1>4. /\ Current' = Activation(ip', Frame.args, OperandWords', Local(0)', CurrentContext',
                               LocalWords', Frame.dest)
      /\ LocalWords' \in Seq(Value)
      /\ Leaf => Len(LocalWords') = FrameSize(program, Frame.entry)
  <2>1. (CallingConvention /\ ~Entering =>
           /\ Current = Activation(ip, Frame.args, OperandWords, Local(0), CurrentContext,
                                   LocalWords, Frame.dest)
           /\ LocalWords \in Seq(Value)
           /\ Leaf => Len(LocalWords) = FrameSize(program, Frame.entry))'
    BY CurrentFacts, PTL
  <2> QED
    BY <1>1, <2>1
<1>5. OperandWords' = << >>
  <2>1. (CallingConvention /\ ~Entering =>
           OperandWords \in Seq(Value) /\ Len(OperandWords) = program.height[ip])'
    BY CurrentFacts, PTL
  <2>2. program'.height[ip'] = 0
    <3>1. /\ program.code[ip].op \notin {"JMP", "RET"}
          /\ HeightAfter(program.code[ip], program.height[ip]) = 0
      BY <1>1, EnteringFacts, InstructionFacts DEF FnEnters, HeightAfter
    <3> QED
      BY <1>1, <3>1, FrameFacts, SuccessorFacts
  <2>3. OperandWords' \in Seq(Value) /\ Len(OperandWords') = 0
    BY <1>1, <2>1, <2>2
  <2> QED
    BY <2>3
<1>6. Leaf => LocalWords'[1] = Frame.parent
  <2> SUFFICES ASSUME Leaf
               PROVE  LocalWords'[1] = Frame.parent
    OBVIOUS
  <2>1. LocalWords' = Words(value_stack', Frame.base, ContextEnd(Depth)')
    BY <1>1 DEF LocalWords
  <2>2. ContextEnd(Depth)' = Frame.base + FrameSize(program, Frame.entry)
    BY <1>1 DEF ContextEnd, Leaf, StackWords, Frame
  <2>3. Frame.base \in Nat /\ FrameSize(program, Frame.entry) \in Nat \ {0}
    BY <1>1, EnteringFacts, BelowBase
  <2>4. 1 \in 1 .. (Frame.base + FrameSize(program, Frame.entry)) - Frame.base
        /\ Frame.base + 1 - 1 = Frame.base
    BY <2>3
  <2>5. Words(value_stack', Frame.base, ContextEnd(Depth)')[1] = value_stack'[Frame.base + 1 - 1]
    BY <2>2, <2>4 DEF Words
  <2> QED
    BY <1>2, <2>1, <2>4, <2>5
<1>7. Local(0)' = Frame.parent
  <2>1. (CallingConvention /\ ~Entering =>
           /\ Leaf => Local(0) = LocalWords[1]
           /\ ~Leaf => Local(0) = heap[context_object[2]][1])'
    BY ParentOfCurrent, PTL
  <2>2. FrameSize(program, Frame.entry) \in Nat \ {0}
    BY <1>1, EnteringFacts
  <2>3. /\ Leaf => Local(0)' = LocalWords'[1]
        /\ ~Leaf => Local(0)' = heap'[context_object'[2]][1]
    BY <1>1, <2>1
  <2>4. CASE Leaf
    BY <1>6, <2>3, <2>4
  <2>5. CASE ~Leaf
    <3>1. heap'[Len(heap) + 1] = NewHeapContext(program.code[ip].op1, Frame.parent)
      BY <1>2, <2>5, HeapFacts, AppendIndexes
    <3>2. 1 \in 1 .. program.code[ip].op1
      BY <1>1, <2>2, EnteringFacts
    <3>3. NewHeapContext(program.code[ip].op1, Frame.parent)[1] = Frame.parent
      BY <3>2 DEF NewHeapContext, InitCallContext
    <3> QED
      BY <1>2, <2>3, <2>5, <3>1, <3>3
  <2> QED
    BY <2>4, <2>5
<1>8. CurrentContext' = IF Leaf THEN nullptr ELSE <<"heap", Len(heap) + 1>>
  BY <1>1, <1>2 DEF CurrentContext
<1>9. ~Leaf => LocalWords' = << >>
  BY <1>1 DEF LocalWords
<1> QED
  BY <1>1, <1>3, <1>4, <1>5, <1>6, <1>7, <1>8, <1>9

-----------------------------------------------------------------------------
(* Calls and returns *)

(* Two functions on an initial interval of the integers that differ in the *)
(* last element.                                                           *)
LEMMA LongerByOne ==
  ASSUME NEW d, NEW shorter, NEW longer, NEW last, d \in Nat,
         IsList(shorter, d), IsList(longer, d + 1),
         \A k \in 1 .. d : longer[k] = shorter[k],
         longer[d + 1] = last
  PROVE  /\ longer = Added(shorter, last)
         /\ shorter = Part(longer, 1, d)
<1> DEFINE S == {shorter[k] : k \in 1 .. d} \cup {last}
<1>1. /\ \A k \in 1 .. d : shorter[k] \in S
      /\ \A k \in 1 .. d + 1 : longer[k] \in S
      /\ last \in S
  <2>1. last \in S /\ \A k \in 1 .. d : shorter[k] \in S
    OBVIOUS
  <2> HIDE DEF S
  <2>2. \A k \in 1 .. d + 1 : k \in 1 .. d \/ k = d + 1
    OBVIOUS
  <2> QED
    BY <2>1, <2>2
<1> HIDE DEF S
<1>2. shorter \in Seq(S) /\ Len(shorter) = d
  <2>1. [k \in 1 .. d |-> shorter[k]] \in Seq(S) /\ Len([k \in 1 .. d |-> shorter[k]]) = d
    BY <1>1
  <2> QED
    BY <2>1, Zenon DEF IsList
<1>3. longer \in Seq(S) /\ Len(longer) = d + 1
  <2>1. [k \in 1 .. d + 1 |-> longer[k]] \in Seq(S) /\ Len([k \in 1 .. d + 1 |-> longer[k]]) = d + 1
    BY <1>1
  <2> QED
    BY <2>1, Zenon DEF IsList
<1>4. longer = Append(shorter, last)
  <2>1. PICK s : s = Append(shorter, last)
    OBVIOUS
  <2>2. /\ s \in Seq(S)
        /\ Len(s) = d + 1
        /\ \A k \in 1 .. d : s[k] = shorter[k]
        /\ s[d + 1] = last
    <3>1. /\ Append(shorter, last) \in Seq(S)
          /\ Len(Append(shorter, last)) = Len(shorter) + 1
          /\ \A k \in 1 .. Len(shorter) : Append(shorter, last)[k] = shorter[k]
          /\ Append(shorter, last)[Len(shorter) + 1] = last
      BY <1>1, <1>2, AppendProperties
    <3> QED
      BY <1>2, <2>1, <3>1, Zenon
  <2>3. \A k \in 1 .. d + 1 : s[k] = longer[k]
    <3>1. \A k \in 1 .. d + 1 : k \in 1 .. d \/ k = d + 1
      OBVIOUS
    <3> QED
      BY <2>2, <3>1
  <2>4. s = longer
    BY <1>3, <2>2, <2>3
  <2> QED
    BY <2>1, <2>4
<1>5. shorter = SubSeq(longer, 1, d)
  <2>1. PICK s : s = SubSeq(longer, 1, d)
    OBVIOUS
  <2>2. s \in Seq(S) /\ Len(s) = d /\ \A k \in 1 .. d : s[k] = longer[k]
    <3>1. d \in 0 .. Len(longer) /\ \A k \in 1 .. d : longer[k] \in S
      BY <1>1, <1>3
    <3>2. SubSeq(longer, 1, d) = [k \in 1 .. d |-> longer[k]]
      BY <3>1
    <3>3. s = [k \in 1 .. d |-> longer[k]]
      BY <2>1, <3>2, Zenon
    <3>4. s \in [1 .. d -> S] /\ \A k \in 1 .. d : s[k] = longer[k]
      BY <3>1, <3>3
    <3> QED
      BY <3>4
  <2>3. \A k \in 1 .. d : s[k] = shorter[k]
    BY <2>2
  <2>4. s = [k \in 1 .. d |-> s[k]]
    BY <2>2
  <2>5. s = [k \in 1 .. d |-> shorter[k]]
    BY <2>3, <2>4
  <2>6. shorter = [k \in 1 .. d |-> shorter[k]]
    BY DEF IsList
  <2> QED
    BY <2>1, <2>5, <2>6, Zenon
<1> QED
  BY <1>4, <1>5 DEF Added, Part

(* The function of the activations a call makes, and its parts. *)
LEMMA CalledFrameFields ==
  ASSUME NEW linkage
  PROVE  LET new == CalledFrame(linkage)  i == program.code[ip] IN
         /\ new.base = stack_pointer + Len(linkage)
         /\ new.entry = Callee(Local(i.op1)).entry
         /\ new.resume = ip + 1
         /\ new.ctx = context_object
         /\ new.dest = i.dest
         /\ new.args = [n \in 1 .. i.op2 |-> value_stack[stack_pointer - i.op2 + n - 1]]
         /\ new.parent = Callee(Local(i.op1)).parent
         /\ new.linkage = linkage
BY DEF CalledFrame

(* CALL: the last operands of the caller become the arguments of a new     *)
(* activation that has nothing else yet.                                   *)
LEMMA CallActs ==
  ASSUME CallingConvention, NEW linkage, CallStep(linkage)
  PROVE  LET i == program.code[ip]
             left == Len(OperandWords) - i.op2
             callee == Callee(Local(i.op1)) IN
         RecordedActs' =
           Added([RecordedActs EXCEPT ![Depth] =
                     Activation(ip + 1, Frame.args, Part(OperandWords, 1, left), Local(0),
                                CurrentContext, LocalWords, Frame.dest)],
                  Activation(callee.entry, Part(OperandWords, left + 1, Len(OperandWords)),
                             << >>, callee.parent, nullptr, << >>, i.dest))
<1> DEFINE i == program.code[ip]
           callee == Callee(Local(i.op1))
           new == CalledFrame(linkage)
           first == stack_pointer - i.op2
           context == ContextEnd(Depth)
<1>1. PICK d \in Nat : d = Depth /\ d > 0
  BY FrameFacts
<1>2. PICK words \in Nat : words = Len(linkage) /\ words > 2
  BY LenProperties DEF CallStep
<1>3. /\ ~Entering
      /\ stack_pointer \in Nat
      /\ callee.entry \in EntriesOf(program)
      /\ i.op2 \in Nat
      /\ i.op2 <= program.height[ip]
  BY CallFacts DEF CallStep
<1>4. /\ linkage \in Seq(Value)
      /\ stack_pointer + words - 1 <= STACK_MAX
      /\ value_stack' = Pushed(value_stack, stack_pointer, linkage)
      /\ stack_pointer' = stack_pointer + words
      /\ ip' = callee.entry
      /\ UNCHANGED <<program, status, context_object, heap>>
  BY <1>2 DEF CallStep
<1>5. /\ Depth' = d + 1
      /\ \A k \in 1 .. d : frames'[k] = frames[k]
      /\ frames'[d + 1] = new
      /\ Len(new.args) = i.op2
  BY <1>1, CallHistory
<1>6. /\ new.base = stack_pointer + words
      /\ new.entry = callee.entry
      /\ new.resume = ip + 1
      /\ new.ctx = context_object
      /\ new.dest = i.dest
      /\ new.args = [n \in 1 .. i.op2 |-> value_stack[stack_pointer - i.op2 + n - 1]]
      /\ new.parent = callee.parent
      /\ new.linkage = linkage
  BY <1>2, CalledFrameFields
<1>7. /\ context \in Nat
      /\ OperandWords = Words(value_stack, context, stack_pointer)
      /\ OperandWords \in Seq(Value)
      /\ Len(OperandWords) = program.height[ip]
      /\ stack_pointer = context + program.height[ip]
      /\ program.height[ip] \in Nat
  BY <1>3, CurrentFacts, StateFacts DEF OperandWords
<1>8. first \in Nat /\ context <= first /\ first <= stack_pointer
  BY <1>3, <1>7
<1> HIDE DEF new, i, callee
<1>9. /\ \A j \in Nat : j < stack_pointer => value_stack'[j] = value_stack[j]
  <2>1. \A j \in StackIndexes : j < stack_pointer => value_stack'[j] = value_stack[j]
    BY <1>2, <1>3, <1>4, StateFacts, PushedWords
  <2>2. stack_pointer \in StackIndexes
    BY StateFacts
  <2>3. \A j \in Nat : j < stack_pointer => j \in StackIndexes
    BY <1>3, <2>2, StackMaxAssumption DEF StackIndexes
  <2> QED
    BY <2>1, <2>3
<1>10. Entering'
  BY <1>3, <1>4 DEF Entering, EntriesOf
(* The suspended activations stay, *)
<1>11. ASSUME NEW k \in 1 .. d, k < d
       PROVE  Recorded(k)' = Recorded(k)
  <2>1. k + 1 \in 1 .. d /\ k \in 1 .. Depth /\ k < Depth /\ k < Depth' /\ k # Depth /\ k # Depth'
    BY <1>1, <1>5, <1>11
  <2>2. frames'[k + 1] = frames[k + 1] /\ frames'[k] = frames[k]
    BY <1>5, <2>1
  <2>3. /\ Entered(k) /\ Entered(k)'
        /\ OwnContext(k)' = OwnContext(k)
        /\ OperandsEnd(k)' = OperandsEnd(k)
        /\ ResumeOf(k)' = ResumeOf(k)
    BY <2>1, <2>2 DEF Entered, OwnContext, OperandsEnd, ResumeOf, ArgumentsStart
  <2>4. \A j \in StackIndexes : j < Frame.base - 1 => value_stack'[j] = value_stack[j]
    <3>1. Frame.base \in Nat /\ Frame.base <= stack_pointer
      BY <2>1, BelowBase
    <3> QED
      BY <1>3, <1>9, <3>1, StackMaxAssumption DEF StackIndexes
  <2>5. EnteredActivation(frames[k], ResumeOf(k), OwnContext(k), OperandsEnd(k), value_stack', heap')
          = EnteredActivation(frames[k], ResumeOf(k), OwnContext(k), OperandsEnd(k), value_stack, heap)
    BY <1>4, <2>1, <2>4, SuspendedSame
  <2> QED
    BY <1>4, <2>2, <2>3, <2>5 DEF Recorded, ActivationOf, EnteredActivation
(* the caller is suspended, *)
<1>12. Recorded(d)' = Activation(ip + 1, Frame.args, Part(OperandWords, 1, Len(OperandWords) - i.op2),
                                 Local(0), CurrentContext, LocalWords, Frame.dest)
  <2>1. /\ d \in 1 .. Depth /\ d = Depth /\ d < Depth' /\ d # Depth' /\ Depth' = d + 1
        /\ frames'[d] = Frame
    BY <1>1, <1>5 DEF Frame
  <2>2. /\ Entered(d) /\ Entered(d)'
        /\ OwnContext(d) = context_object
        /\ OwnContext(d)' = context_object
        /\ ResumeOf(d)' = ip + 1
    BY <1>3, <1>5, <1>6, <2>1 DEF Entered, OwnContext, ResumeOf
  <2>3. OperandsEnd(d)' = first
    <3>1. OperandsEnd(d)' = new.base - Len(new.linkage) - Len(new.args)
      BY <1>5, <2>1 DEF OperandsEnd, ArgumentsStart
    <3> QED
      BY <1>2, <1>3, <1>5, <1>6, <3>1
  <2>4. Recorded(d)' = EnteredActivation(frames[d], ip + 1, OwnContext(d), first, value_stack', heap')
    BY <1>4, <2>1, <2>2, <2>3 DEF Recorded, ActivationOf, EnteredActivation, Frame
  <2>5. Recorded(d)' = EnteredActivation(frames[d], ip + 1, OwnContext(d), first, value_stack, heap)
    <3>1. \A j \in Nat : j < first => value_stack'[j] = value_stack[j]
      BY <1>3, <1>8, <1>9
    <3>2. ContextEnd(d) <= first /\ first \in Nat
      BY <1>8, <2>1
    <3>3. \A n \in DOMAIN heap : heap'[n][1] = heap[n][1]
      BY <1>4
    <3> HIDE DEF first
    <3>4. EnteredActivation(frames[d], ip + 1, OwnContext(d), first, value_stack', heap')
            = EnteredActivation(frames[d], ip + 1, OwnContext(d), first, value_stack, heap)
      BY <2>1, <2>2, <3>1, <3>2, <3>3, ActivationSame
    <3> QED
      BY <2>4, <3>4, Zenon
  <2>6. Recorded(d)' = Activation(ip + 1, Frame.args, Words(value_stack, context, first), Local(0),
                                  CurrentContext, LocalWords, Frame.dest)
    BY <1>3, <2>1, <2>2, <2>5, CurrentFacts
       DEF ActivationOf, EnteredActivation, Leaf, CurrentContext, LocalWords, ContextEnd, Frame
  <2>7. Words(value_stack, context, first) = Part(OperandWords, 1, Len(OperandWords) - i.op2)
    <3>1. PICK left : left = Len(OperandWords) - i.op2
                      /\ left \in Nat /\ first = context + left
                      /\ left <= stack_pointer - context
      BY <1>3, <1>7
    <3> HIDE DEF first, context
    <3>2. Part(Words(value_stack, context, stack_pointer), 1, left) = Words(value_stack, context, first)
      BY <1>3, <1>7, <1>8, <3>1, WordsPrefix
    <3> QED
      BY <1>7, <3>1, <3>2
  <2> QED
    BY <2>6, <2>7
(* and there is a new one. *)
<1>13. Recorded(d + 1)' = Activation(callee.entry,
                                     Part(OperandWords, Len(OperandWords) - i.op2 + 1, Len(OperandWords)),
                                     << >>, callee.parent, nullptr, << >>, i.dest)
  <2>1. /\ ~Entered(d + 1)'
        /\ ResumeOf(d + 1)' = callee.entry
        /\ OperandsEnd(d + 1)' = stack_pointer + words
    BY <1>4, <1>5, <1>10 DEF Entered, ResumeOf, OperandsEnd
  <2>2. Words(value_stack', stack_pointer + words, stack_pointer + words) = << >>
    <3>1. PICK end \in Nat : end = stack_pointer + words
      BY <1>3
    <3> QED
      BY <3>1, WordsEmpty
  <2>3. new.args = Part(OperandWords, Len(OperandWords) - i.op2 + 1, Len(OperandWords))
    <3>1. PICK after, all : after = Len(OperandWords) - i.op2 + 1 /\ all = Len(OperandWords)
                            /\ after \in Nat /\ all \in Nat
                            /\ first = context + after - 1 /\ stack_pointer = context + all
                            /\ after > 0 /\ after <= all + 1
      BY <1>3, <1>7
    <3>2. new.args = Words(value_stack, first, stack_pointer)
      <4>1. stack_pointer - first = i.op2
        BY <1>3
      <4>2. Words(value_stack, first, stack_pointer)
              = [n \in 1 .. i.op2 |-> value_stack[stack_pointer - i.op2 + n - 1]]
        BY <4>1 DEF Words
      <4> QED
        BY <1>6, <4>2
    <3> HIDE DEF first, context
    <3>3. Part(Words(value_stack, context, stack_pointer), after, all)
            = Words(value_stack, first, stack_pointer)
      BY <1>3, <1>7, <1>8, <3>1, WordsPart
    <3> QED
      BY <1>7, <3>1, <3>2, <3>3
  <2>4. new.base + 0 = stack_pointer + words
    BY <1>3, <1>6
  <2> QED
    BY <1>5, <1>6, <2>1, <2>2, <2>3, <2>4 DEF Recorded, ActivationOf, EnteredActivation
<1> DEFINE suspended == [RecordedActs EXCEPT ![Depth] =
                     Activation(ip + 1, Frame.args, Part(OperandWords, 1, Len(OperandWords) - i.op2),
                                Local(0), CurrentContext, LocalWords, Frame.dest)]
<1>14. /\ suspended = [k \in 1 .. d |-> suspended[k]]
       /\ \A k \in 1 .. d : Recorded(k)' = suspended[k]
  <2>1. /\ suspended = [k \in 1 .. d |-> IF k = d THEN Recorded(d)' ELSE RecordedActs[k]]
    BY <1>1, <1>12, ActsFacts
  <2> HIDE DEF suspended
  <2>2. suspended = [k \in 1 .. d |-> suspended[k]]
    BY <2>1
  <2>3. \A k \in 1 .. d : Recorded(k)' = suspended[k]
    BY <1>1, <1>11, <2>1, ActsFacts
  <2> QED
    BY <2>2, <2>3
<1>15. RecordedActs' = [k \in 1 .. d + 1 |-> Recorded(k)']
  BY <1>5 DEF RecordedActs
<1>16. RecordedActs' = Added(suspended, Recorded(d + 1)')
  <2>1. PICK longer : longer = RecordedActs'
    OBVIOUS
  <2>2. /\ longer = [k \in 1 .. d + 1 |-> longer[k]]
        /\ \A k \in 1 .. d : longer[k] = suspended[k]
        /\ longer[d + 1] = Recorded(d + 1)'
    BY <1>14, <1>15, <2>1
  <2> HIDE DEF suspended
  <2>3. \A k \in 1 .. d : suspended[k] = longer[k]
    BY <1>14, <2>2
  <2>4. IsList(suspended, d)
    BY <1>14 DEF IsList
  <2>5. IsList(longer, d + 1)
    BY <2>2 DEF IsList
  <2>6. longer = Added(suspended, Recorded(d + 1)')
    BY <2>2, <2>3, <2>4, <2>5, LongerByOne
  <2> QED
    BY <2>1, <2>6
<1> QED
  BY <1>13, <1>16 DEF i, callee

(* A word is stored into a slot of an entered activation, running or not.  *)
LEMMA StoredActivation ==
  ASSUME CallingConvention, NEW k, NEW pc, NEW end, NEW slot, NEW v,
         k \in 1 .. Depth, Entered(k), end \in Nat, ContextEnd(k) <= end, end <= STACK_MAX + 1,
         slot \in 1 .. FrameSize(program, frames[k].entry) - 1,
         StoreSlot(OwnContext(k), slot, v)
  PROVE  LET leaf == IsStackFunction(program, frames[k].entry)
             old == EnteredActivation(frames[k], pc, OwnContext(k), end, value_stack, heap)
             new == EnteredActivation(frames[k], pc, OwnContext(k), end, value_stack', heap') IN
         /\ leaf => new = WithLocals(old, StoredIn(old.locals, slot, v)) /\ heap' = heap
         /\ ~leaf => /\ new = old
                     /\ OwnContext(k) \in HeapContexts
                     /\ heap' = StoredInBlock(heap, OwnContext(k), slot, v)
<1> DEFINE f == frames[k]
           size == FrameSize(program, f.entry)
           context == ContextEnd(k)
           old == EnteredActivation(f, pc, OwnContext(k), end, value_stack, heap)
           new == EnteredActivation(f, pc, OwnContext(k), end, value_stack', heap')
<1>1. /\ f.base \in Nat /\ size \in Nat \ {0} /\ context \in Nat
      /\ context = f.base + StackWords(program, f.entry)
      /\ value_stack \in [StackIndexes -> Value]
      /\ slot \in Nat /\ slot > 0 /\ slot < size
  BY FrameFacts, StateFacts DEF ContextEnd
<1>2. CASE IsStackFunction(program, f.entry)
  <2>1. /\ OwnContext(k) = <<"stack", f.base>>
        /\ context = f.base + size
    BY <1>1, <1>2 DEF CallingConvention, ContextsOwned, StackWords
  <2>2. value_stack' = [value_stack EXCEPT ![f.base + slot] = v] /\ heap' = heap
    BY <2>1 DEF StoreSlot, OnStack
  <2>3. \A i \in Nat : i < end => i \in StackIndexes
    BY StackMaxAssumption DEF StackIndexes
  <2>4. \A i \in Nat : context <= i /\ i < end => value_stack'[i] = value_stack[i]
    <3>1. \A i \in Nat : context <= i => i # f.base + slot
      BY <1>1, <2>1
    <3> HIDE DEF f, context
    <3> QED
      BY <1>1, <2>2, <2>3, <3>1
  <2>5. \A i \in Nat : f.base <= i /\ i < context =>
          value_stack'[i] = IF i = f.base + slot THEN v ELSE value_stack[i]
    <3>1. \A i \in Nat : i < context => i \in StackIndexes
      BY <1>1, <2>3
    <3> HIDE DEF f, context
    <3> QED
      BY <1>1, <2>2, <3>1
  <2>6. value_stack'[f.base] = value_stack[f.base]
    <3>1. f.base \in StackIndexes /\ f.base # f.base + slot
      BY <1>1, <2>1, <2>3
    <3> QED
      BY <2>2, <3>1
  <2>7. Words(value_stack', context, end) = Words(value_stack, context, end)
    <3> HIDE DEF f, context
    <3> QED
      BY <1>1, <2>4, WordsSame
  <2>8. Words(value_stack', f.base, context) = StoredIn(Words(value_stack, f.base, context), slot, v)
    <3>1. \A n \in f.base .. context - 1 : n \in DOMAIN value_stack
      BY <1>1, <2>3
    <3>2. f.base + slot < context
      BY <1>1, <2>1
    <3> HIDE DEF f, context
    <3> QED
      BY <1>1, <2>5, <3>1, <3>2, WordsStore
  <2>9. /\ old = Activation(pc, f.args, Words(value_stack, context, end), value_stack[f.base],
                            nullptr, Words(value_stack, f.base, context), f.dest)
        /\ new = Activation(pc, f.args, Words(value_stack', context, end), value_stack'[f.base],
                            nullptr, Words(value_stack', f.base, context), f.dest)
    BY <1>1, <1>2 DEF ActivationOf, EnteredActivation
  <2> HIDE DEF old, new, context, size
  <2>10. /\ old.locals = Words(value_stack, f.base, context)
         /\ WithLocals(old, StoredIn(old.locals, slot, v)) = new
    BY <2>6, <2>7, <2>8, <2>9, ActivationFields DEF WithLocals
  <2> QED
    BY <1>2, <2>2, <2>10 DEF old, new
<1>3. CASE ~IsStackFunction(program, f.entry)
  <2>1. OwnContext(k) \in HeapContexts
    BY <1>3 DEF CallingConvention, ContextsOwned
  <2>2. value_stack' = value_stack /\ heap' = StoredInBlock(heap, OwnContext(k), slot, v)
    BY <2>1, HeapContextFacts DEF StoreSlot, StoredInBlock
  <2>3. heap'[OwnContext(k)[2]][1] = heap[OwnContext(k)[2]][1]
    BY <1>1, <2>1, <2>2, HeapContextFacts, HeapFacts DEF StoredInBlock
  <2>4. new = old
    BY <1>3, <2>2, <2>3 DEF ActivationOf, EnteredActivation
  <2> QED
    BY <1>3, <2>1, <2>2, <2>4
<1> QED
  BY <1>2, <1>3

(* RET: the last activation is gone, and the result, if there is one, is   *)
(* in the slot its caller asked for.                                       *)
LEMMA ReturnActs ==
  ASSUME CallingConvention, ReturnStep, CallingConvention'
  PROVE  LET d == Depth - 1
             caller == RecordedActs[d]
             rest == Part(RecordedActs, 1, d)
             result == program.code[ip].dest
             leaf == IsStackFunction(program, frames[d].entry) IN
         /\ d \in 1 .. Depth
         /\ caller.ctx = IF leaf THEN nullptr ELSE Frame.ctx
         /\ ~leaf => Frame.ctx \in HeapContexts
         /\ result = 0 => RecordedActs' = rest /\ heap' = heap
         /\ result # 0 /\ leaf =>
              /\ RecordedActs' = [rest EXCEPT ![d] = WithLocals(caller,
                                    StoredIn(caller.locals, Frame.dest, Local(result)))]
              /\ heap' = heap
         /\ result # 0 /\ ~leaf =>
              /\ RecordedActs' = rest
              /\ heap' = StoredInBlock(heap, Frame.ctx, Frame.dest, Local(result))
<1> DEFINE result == program.code[ip].dest
           leaf == IsStackFunction(program, frames[Depth - 1].entry)
           end == ArgumentsStart(Depth)
<1>1. PICK d \in Nat : d = Depth - 1 /\ d > 0 /\ Depth = d + 1
  BY FrameFacts DEF ReturnStep
<1>2. /\ d \in 1 .. Depth /\ d < Depth /\ Depth \in 2 .. Depth
      /\ d # Depth
      /\ Entered(d)
      /\ OwnContext(d) = Frame.ctx
      /\ ResumeOf(d) = Frame.resume
      /\ OperandsEnd(d) = end
  BY <1>1 DEF Entered, OwnContext, Frame, ResumeOf, OperandsEnd
<1>3. /\ Depth' = d
      /\ \A k \in 1 .. d : frames'[k] = frames[k]
      /\ ip' = Frame.resume
      /\ context_object' = Frame.ctx
      /\ stack_pointer' = end
      /\ program' = program
  BY <1>1, ReturnHistory DEF ReturnStep
<1>4. ~Entering'
  <2>1. Frame.resume \in Addresses(program) \ EntriesOf(program)
    BY <1>2 DEF CallingConvention, ResumesInCaller, Frame
  <2> QED
    BY <1>3, <2>1 DEF Entering, EntriesOf
<1>5. /\ \A a \in StackIndexes : a <= frames[d].base => value_stack'[a] = value_stack[a]
      /\ \A n \in DOMAIN heap : heap'[n][1] = heap[n][1]
  BY <1>1, ResultStores
(* The activations that stay suspended are not touched. *)
<1>6. ASSUME NEW k \in 1 .. d, k < d
      PROVE  Recorded(k)' = Recorded(k)
  <2>1. k + 1 \in 1 .. d /\ k \in 1 .. Depth /\ k < Depth /\ k < Depth' /\ k # Depth /\ k # Depth'
    BY <1>1, <1>3, <1>6
  <2>2. frames'[k + 1] = frames[k + 1] /\ frames'[k] = frames[k]
    BY <1>3, <2>1
  <2>3. /\ Entered(k) /\ Entered(k)'
        /\ OwnContext(k)' = OwnContext(k)
        /\ OperandsEnd(k)' = OperandsEnd(k)
        /\ ResumeOf(k)' = ResumeOf(k)
    BY <2>1, <2>2 DEF Entered, OwnContext, OperandsEnd, ResumeOf, ArgumentsStart
  <2>4. PICK last : last = OperandsEnd(k)
    OBVIOUS
  <2>5. last \in Nat /\ ContextEnd(k) <= last /\ last <= frames[d].base
    <3>1. PICK next : next = k + 1
      OBVIOUS
    <3>2. /\ last = ArgumentsStart(next)
          /\ next \in 1 .. Depth /\ k < next /\ next <= d
      BY <1>1, <2>1, <2>4, <3>1 DEF OperandsEnd
    <3>3. /\ Len(frames[next].args) \in Nat /\ Len(frames[next].linkage) \in Nat
          /\ frames[next].base \in Nat /\ last \in Nat
          /\ ContextEnd(k) <= last
      BY <2>1, <3>2, FrameOrder
    <3>4. last <= frames[next].base
      BY <3>2, <3>3, ArgumentsBelowBase
    <3>5. frames[d].base \in Nat
      BY <1>2, FrameFacts
    <3>6. frames[next].base <= frames[d].base
      <4>1. CASE next = d
        BY <3>5, <4>1
      <4>2. CASE next # d
        <5>1. next < d
          BY <3>2, <4>2
        <5>2. frames[next].base < frames[d].base - 2
          BY <1>2, <3>2, <5>1, FrameOrder
        <5> QED
          BY <3>3, <3>5, <5>2
      <4> QED
        BY <4>1, <4>2
    <3> QED
      BY <3>3, <3>4, <3>5, <3>6
  <2>6. \A i \in Nat : i < last => value_stack'[i] = value_stack[i]
    <3>1. frames[d].base \in Nat /\ frames[d].base <= STACK_MAX + 1
      <4>1. frames[d].base \in Nat
        BY <1>2, FrameFacts
      <4>2. Frame.base \in Nat /\ frames[d].base <= Frame.base /\ Frame.base <= stack_pointer
        BY <1>2, BelowBase
      <4> QED
        BY <4>1, <4>2, StateFacts, StackMaxAssumption DEF StackIndexes
    <3>2. \A i \in Nat : i < last => i \in StackIndexes /\ i <= frames[d].base
      BY <2>5, <3>1, StackMaxAssumption DEF StackIndexes
    <3> QED
      BY <1>5, <3>2
  <2>7. EnteredActivation(frames[k], ResumeOf(k), OwnContext(k), last, value_stack', heap')
          = EnteredActivation(frames[k], ResumeOf(k), OwnContext(k), last, value_stack, heap)
    BY <1>5, <2>1, <2>3, <2>5, <2>6, ActivationSame
  <2> QED
    BY <1>3, <2>2, <2>3, <2>4, <2>7 DEF Recorded, ActivationOf, EnteredActivation
(* The caller is the running one again. *)
<1> DEFINE before == EnteredActivation(frames[d], Frame.resume, OwnContext(d), end,
                                  value_stack, heap)
           after == EnteredActivation(frames[d], Frame.resume, OwnContext(d), end,
                                 value_stack', heap')
<1>7. Recorded(d) = before
  BY <1>2 DEF Recorded, EnteredActivation
<1>8. Recorded(d)' = after
  <2>1. frames'[d] = frames[d] /\ Depth' = d /\ ~(d < d)
    BY <1>1, <1>3
  <2>2. Entered(d)'
    BY <1>4 DEF Entered
  <2>3. OwnContext(d)' = OwnContext(d)
    BY <1>2, <1>3, <2>1, Zenon DEF OwnContext
  <2>4. OperandsEnd(d)' = end /\ ResumeOf(d)' = Frame.resume
    BY <1>3, <2>1, Zenon DEF OperandsEnd, ResumeOf
  <2> QED
    BY <1>3, <2>1, <2>2, <2>3, <2>4 DEF Recorded, ActivationOf, EnteredActivation
<1>9. /\ end \in Nat /\ ContextEnd(d) <= end /\ end <= STACK_MAX + 1
      /\ Frame.dest \in 1 .. FrameSize(program, frames[d].entry) - 1
  <2>1. end \in Nat /\ end <= STACK_MAX + 1 /\ ContextEnd(d) <= end
    BY <1>2, OperandFacts
  <2>2. Frame.dest \in 1 .. FrameSize(program, frames[d].entry) - 1
    BY <1>1, <1>2 DEF CallingConvention, ResumesInCaller, Frame
  <2> QED
    BY <2>1, <2>2
<1>10. /\ leaf <=> IsStackFunction(program, frames[d].entry)
       /\ before.ctx = IF leaf THEN nullptr ELSE Frame.ctx
       /\ ~leaf => Frame.ctx \in HeapContexts
  <2>1. leaf <=> IsStackFunction(program, frames[d].entry)
    BY <1>1
  <2>2. before.ctx = IF leaf THEN nullptr ELSE Frame.ctx
    BY <1>2, <2>1, ActivationFields DEF ActivationOf, EnteredActivation
  <2>3. ~leaf => Frame.ctx \in HeapContexts
    BY <1>2, <2>1 DEF CallingConvention, ContextsOwned
  <2> QED
    BY <2>1, <2>2, <2>3
<1>11. PICK rest : rest = Part(RecordedActs, 1, d)
  OBVIOUS
<1>12. rest = [k \in 1 .. d |-> RecordedActs[k]]
  <2>1. PICK shorter, longer : shorter = [k \in 1 .. d |-> RecordedActs[k]] /\ longer = RecordedActs
    OBVIOUS
  <2>2. IsList(shorter, d) /\ \A k \in 1 .. d : longer[k] = shorter[k]
    BY <2>1 DEF IsList
  <2>3. IsList(longer, d + 1)
    <3>1. longer = [k \in 1 .. d + 1 |-> Recorded(k)]
      BY <1>1, <2>1 DEF RecordedActs
    <3> QED
      BY <3>1 DEF IsList
  <2>4. shorter = Part(longer, 1, d)
    BY <2>2, <2>3, LongerByOne
  <2> QED
    BY <1>11, <2>1, <2>4, Zenon
<1>13. /\ RecordedActs[d] = before
       /\ \A k \in 1 .. d : rest[k] = Recorded(k)
  <2> HIDE DEF before
  <2>1. \A k \in 1 .. d : k \in 1 .. Depth
    BY <1>1
  <2>2. \A k \in 1 .. d : RecordedActs[k] = Recorded(k)
    BY <2>1, ActsFacts
  <2>3. RecordedActs[d] = before
    BY <1>1, <1>7, <2>2
  <2> QED
    BY <1>12, <2>2, <2>3
<1>14. RecordedActs' = [k \in 1 .. d |-> IF k = d THEN after ELSE Recorded(k)]
  <2>1. RecordedActs' = [k \in 1 .. d |-> Recorded(k)']
    BY <1>3 DEF RecordedActs
  <2>2. \A k \in 1 .. d : Recorded(k)' = IF k = d THEN after ELSE Recorded(k)
    <3> HIDE DEF after
    <3>1. \A k \in 1 .. d : k = d \/ k < d
      BY <1>1
    <3> QED
      BY <1>6, <1>8, <3>1
  <2> QED
    BY <2>1, <2>2
<1>15. RecordedActs' = [rest EXCEPT ![d] = after]
  <2> HIDE DEF after
  <2>1. [rest EXCEPT ![d] = after] = [k \in 1 .. d |-> IF k = d THEN after ELSE rest[k]]
    BY <1>1, <1>12
  <2>2. \A k \in 1 .. d : rest[k] = Recorded(k)
    BY <1>13
  <2> QED
    BY <1>14, <2>1, <2>2
<1>16. after = before => RecordedActs' = rest
  <2> HIDE DEF after, before
  <2>1. SUFFICES ASSUME after = before
                 PROVE  RecordedActs' = rest
    OBVIOUS
  <2>2. rest[d] = after
    BY <1>1, <1>2, <1>7, <1>13, <2>1
  <2> QED
    BY <1>1, <1>12, <1>15, <2>2
<1>17. CASE result = 0
  <2>1. value_stack' = value_stack /\ heap' = heap
    BY <1>17 DEF ReturnStep
  <2>2. after = before
    BY <2>1
  <2> HIDE DEF after, before
  <2> QED
    BY <1>1, <1>2, <1>10, <1>11, <1>13, <1>16, <1>17, <2>1, <2>2
<1>18. CASE result # 0
  <2>1. StoreSlot(OwnContext(d), Frame.dest, Local(result))
    BY <1>2, <1>18 DEF ReturnStep
  <2>2. PICK slot, word : slot = Frame.dest /\ word = Local(result)
    OBVIOUS
  <2>3. /\ leaf => after = WithLocals(before, StoredIn(before.locals, slot, word)) /\ heap' = heap
        /\ ~leaf => /\ after = before
                    /\ heap' = StoredInBlock(heap, OwnContext(d), slot, word)
    <3>1. PICK last, pc : last = end /\ pc = Frame.resume
      OBVIOUS
    <3>2. /\ slot \in 1 .. FrameSize(program, frames[d].entry) - 1
          /\ StoreSlot(OwnContext(d), slot, word)
          /\ last \in Nat /\ ContextEnd(d) <= last /\ last <= STACK_MAX + 1
      BY <1>9, <2>1, <2>2, <3>1, Zenon
    <3> DEFINE old == EnteredActivation(frames[d], pc, OwnContext(d), last, value_stack, heap)
               new == EnteredActivation(frames[d], pc, OwnContext(d), last, value_stack', heap')
    <3>3. /\ IsStackFunction(program, frames[d].entry) =>
               new = WithLocals(old, StoredIn(old.locals, slot, word)) /\ heap' = heap
          /\ ~IsStackFunction(program, frames[d].entry) =>
               /\ new = old
               /\ heap' = StoredInBlock(heap, OwnContext(d), slot, word)
      <4>1. d \in 1 .. Depth /\ Entered(d)
        BY <1>2
      <4>2. IsStackFunction(program, frames[d].entry) =>
               new = WithLocals(old, StoredIn(old.locals, slot, word)) /\ heap' = heap
        BY <3>2, <4>1, StoredActivation
      <4>3. ~IsStackFunction(program, frames[d].entry) => new = old
        BY <3>2, <4>1, StoredActivation
      <4>4. ~IsStackFunction(program, frames[d].entry) =>
               heap' = StoredInBlock(heap, OwnContext(d), slot, word)
        BY <3>2, <4>1, StoredActivation
      <4> QED
        BY <4>2, <4>3, <4>4
    <3>4. old = before /\ new = after
      BY <3>1, Zenon
    <3> HIDE DEF old, new, before, after, leaf
    <3> QED
      BY <1>10, <3>3, <3>4
  <2> HIDE DEF after, before, leaf
  <2>4. CASE leaf
    <3>1. RecordedActs' = [rest EXCEPT ![d] = WithLocals(before, StoredIn(before.locals, slot, word))]
      BY <1>15, <2>3, <2>4
    <3> QED
      BY <1>1, <1>2, <1>10, <1>11, <1>13, <1>18, <2>2, <2>3, <2>4, <3>1 DEF leaf
  <2>5. CASE ~leaf
    BY <1>1, <1>2, <1>10, <1>11, <1>13, <1>16, <1>18, <2>2, <2>3, <2>5 DEF leaf
  <2> QED
    BY <2>4, <2>5
<1> QED
  BY <1>17, <1>18

-----------------------------------------------------------------------------
(* The walk along the parents *)

(* The number of the context in the heap that a word points to, or 0. *)
NumberOf(v) == IF v[1] = "heap" /\ v[2] \in DOMAIN heap THEN v[2] ELSE 0

(* The context that encloses one with this parent, by numbers.             *)
EnclosingNumber(parent, depth) ==
  LET up[n \in 1 .. depth] ==
        IF n = 1 THEN NumberOf(parent)
        ELSE IF up[n - 1] = 0 THEN 0 ELSE NumberOf(heap[up[n - 1]][1])
  IN  up[depth]

(* Both specifications follow slot 0, one through pointers, the other      *)
(* through the numbers of the contexts in the heap.                        *)
LEMMA WalkDefined ==
  ASSUME NEW d, d \in Nat
  PROVE  \E up : up = [n \in 0 .. d |-> IF n = 0 THEN context_object ELSE ParentOf(up[n - 1])]
<1> DEFINE Walk(up, m) == [n \in 0 .. m |-> IF n = 0 THEN context_object ELSE ParentOf(up[n - 1])]
           bad == {m \in Nat : \A up : up # Walk(up, m)}
<1>1. SUFFICES ASSUME bad # {}
               PROVE  FALSE
  OBVIOUS
<1>2. PICK m \in bad : \A n \in bad : m <= n
  <2>1. bad \subseteq Nat
    OBVIOUS
  <2> HIDE DEF bad
  <2> QED
    BY <1>1, <2>1, Smallest
<1>3. CASE m = 0
  <2>1. PICK up : up = [n \in 0 .. m |-> context_object]
    OBVIOUS
  <2>2. up = Walk(up, m)
    BY <1>3, <2>1
  <2> QED
    BY <1>2, <2>2
<1>4. CASE m # 0
  <2>1. PICK before : before = m - 1 /\ before \in Nat /\ m = before + 1
    BY <1>2, <1>4
  <2>2. before \notin bad
    <3>1. ~(m <= before)
      BY <2>1
    <3> HIDE DEF bad
    <3> QED
      BY <1>2, <3>1
  <2>3. PICK up : up = Walk(up, before)
    BY <2>1, <2>2
  <2>4. PICK longer : longer = [n \in 0 .. m |-> IF n = m THEN ParentOf(up[before]) ELSE up[n]]
    OBVIOUS
  <2>5. ASSUME NEW n \in 0 .. m
        PROVE  longer[n] = IF n = 0 THEN context_object ELSE ParentOf(longer[n - 1])
    <3>1. CASE n = m
      <4>1. n # 0 /\ n - 1 = before /\ before \in 0 .. m /\ before # m
        BY <1>2, <2>1, <3>1
      <4> QED
        BY <2>4, <3>1, <4>1
    <3>2. CASE n # m
      <4>1. n \in 0 .. before
        BY <1>2, <2>1, <3>2
      <4>2. n # 0 => n - 1 \in 0 .. m /\ n - 1 # m
        BY <1>2
      <4>3. up[n] = IF n = 0 THEN context_object ELSE ParentOf(up[n - 1])
        BY <2>3, <4>1
      <4> QED
        BY <2>4, <3>2, <4>2, <4>3
    <3> QED
      BY <3>1, <3>2
  <2>6. longer = Walk(longer, m)
    BY <2>4, <2>5
  <2> QED
    BY <1>2, <2>6
<1> QED
  BY <1>3, <1>4

(* So the enclosing context is the one the engine walks to, and the walk   *)
(* ends in the heap or at the parent of the root.                          *)
LEMMA WalkToAncestor ==
  ASSUME CallingConvention, ~Entering, NEW depth, depth \in Nat, depth > 0
  PROVE  /\ Ancestor(depth) \in MayBeParent
         /\ EnclosingNumber(Local(0), depth) = IF Ancestor(depth) \in HeapContexts
                                                   THEN Ancestor(depth)[2] ELSE 0
<1> DEFINE Walk(up) == [n \in 0 .. depth - 1 |->
                          IF n = 0 THEN context_object ELSE ParentOf(up[n - 1])]
           up == CHOOSE up : up = Walk(up)
           Number(v) == IF v \in HeapContexts THEN v[2] ELSE 0
           Climb(e) == [n \in 1 .. depth |->
                          IF n = 1 THEN NumberOf(Local(0))
                          ELSE IF e[n - 1] = 0 THEN 0
                          ELSE NumberOf(heap[e[n - 1]][1])]
           enclosing == CHOOSE e : e = Climb(e)
           found == [n \in 1 .. depth |-> Number(ParentOf(up[n - 1]))]
<1>2. PICK last \in Nat : last = depth - 1 /\ depth = last + 1
  OBVIOUS
<1>3. up = Walk(up)
  <2>1. \E w : w = Walk(w)
    BY <1>2, WalkDefined
  <2> HIDE DEF Walk
  <2> QED
    BY <2>1
<1>4. /\ \A n \in 0 .. last : up[n] = IF n = 0 THEN context_object ELSE ParentOf(up[n - 1])
      /\ up[0] = context_object
  <2> HIDE DEF up
  <2> QED
    BY <1>2, <1>3
<1>5. Ancestor(depth) = ParentOf(up[last])
  BY <1>2 DEF Ancestor
<1> HIDE DEF up, Walk
(* What a parent's parent can be. *)
<1>6. /\ context_object \in Contexts
      /\ ParentOf(context_object) = Local(0)
      /\ Local(0) \in MayBeParent
      /\ nullptr \notin HeapContexts /\ nullptr \notin Contexts
  <2>1. nullptr \notin HeapContexts /\ context_object # nullptr
    <3>1. nullptr \notin HeapContexts
      BY HeapContextFacts
    <3> QED
      BY <3>1, ContextFacts DEF nullptr, uvalue
  <2>2. Local(0) \in MayBeParent
    <3>1. CASE Leaf
      <4>1. Depth \in 1 .. Depth /\ Entered(Depth)
        BY FrameFacts DEF Entered
      <4>2. value_stack[Frame.base] \in MayBeParent
        BY <3>1, <4>1 DEF CallingConvention, NothingCapturesStack, Frame, Leaf
      <4> QED
        BY <3>1, <4>2, CurrentFacts
    <3>2. CASE ~Leaf
      BY <3>2, ContextFacts, HeapContextFacts, HeapFacts DEF Local, Slot, OnStack, Leaf
    <3> QED
      BY <3>1, <3>2
  <2> QED
    BY <2>1, <2>2 DEF Contexts, ParentOf, Local
<1>7. ASSUME NEW c \in MayBeParent
      PROVE  /\ ParentOf(c) \in MayBeParent
             /\ Number(c) = 0 => ParentOf(c) = nullptr
             /\ Number(c) # 0 => ParentOf(c) = heap[Number(c)][1]
  <2>1. CASE c = nullptr
    BY <1>6, <2>1 DEF ParentOf, MayBeParent
  <2>2. CASE c \in HeapContexts
    <3>1. /\ c[2] \in DOMAIN heap /\ ~OnStack(c) /\ c[2] # 0
          /\ heap[c[2]][1] \in MayBeParent
      BY <2>2, HeapContextFacts, HeapFacts
    <3>2. ParentOf(c) = heap[c[2]][1]
      BY <2>2, <3>1 DEF ParentOf, Contexts, Slot
    <3> QED
      BY <2>2, <3>1, <3>2
  <2> QED
    BY <2>1, <2>2 DEF MayBeParent
<1>8. \A c \in MayBeParent : NumberOf(c) = Number(c)
  <2>1. NumberOf(nullptr) = Number(nullptr)
    BY <1>6 DEF NumberOf, nullptr, uvalue
  <2>2. ASSUME NEW c \in HeapContexts
        PROVE  NumberOf(c) = Number(c)
    <3>1. c[1] = "heap" /\ c[2] \in DOMAIN heap
      BY HeapContextFacts
    <3> QED
      BY <3>1 DEF NumberOf
  <2> QED
    BY <2>1, <2>2 DEF MayBeParent
<1> HIDE DEF Number
<1>9. \A n \in 0 .. last : ParentOf(up[n]) \in MayBeParent
  <2> DEFINE strays == {n \in 0 .. last : ParentOf(up[n]) \notin MayBeParent}
  <2>1. SUFFICES ASSUME strays # {}
                 PROVE  FALSE
    OBVIOUS
  <2>2. PICK n \in strays : \A m \in strays : n <= m
    <3>1. strays \subseteq Nat
      OBVIOUS
    <3> HIDE DEF strays
    <3> QED
      BY <2>1, <3>1, Smallest
  <2>3. n # 0
    BY <1>4, <1>6, <2>2
  <2>4. PICK m : m = n - 1 /\ m \in 0 .. last /\ ~(n <= m)
    BY <1>2, <2>2, <2>3
  <2>5. ParentOf(up[m]) \in MayBeParent
    BY <2>2, <2>4
  <2>6. up[n] = ParentOf(up[m])
    BY <1>4, <2>2, <2>3, <2>4
  <2> QED
    BY <1>7, <2>2, <2>5, <2>6
<1>10. found = Climb(found)
  <2>1. ASSUME NEW n \in 1 .. depth, n = 1
        PROVE  found[n] = NumberOf(Local(0))
    <3>1. found[n] = Number(ParentOf(up[0]))
      BY <2>1
    <3> QED
      BY <1>4, <1>6, <1>8, <3>1
  <2>2. ASSUME NEW n \in 1 .. depth, n # 1
        PROVE  found[n] = IF found[n - 1] = 0 THEN 0
                          ELSE NumberOf(heap[found[n - 1]][1])
    <3>1. PICK m, k : /\ m = n - 1 /\ k = m - 1 /\ m \in 1 .. depth
                      /\ m \in 0 .. last /\ k \in 0 .. last /\ m # 0
      BY <1>2, <2>2
    <3>2. PICK c : c = up[m]
      OBVIOUS
    <3>3. c = ParentOf(up[k]) /\ c \in MayBeParent
      BY <1>4, <1>9, <3>1, <3>2
    <3>4. found[n] = Number(ParentOf(c)) /\ found[m] = Number(c)
      BY <3>1, <3>2, <3>3
    <3>5. Number(nullptr) = 0
      BY <1>6 DEF Number
    <3> HIDE DEF found
    <3> QED
      BY <1>7, <1>8, <3>1, <3>3, <3>4, <3>5
  <2> QED
    BY <2>1, <2>2
<1>11. enclosing = Climb(enclosing)
  <2> HIDE DEF Climb, found
  <2> QED
    BY <1>10
<1>12. \A n \in 1 .. depth : enclosing[n] = found[n]
  <2> DEFINE wrong == {n \in 1 .. depth : enclosing[n] # found[n]}
  <2> HIDE DEF enclosing, found
  <2>1. SUFFICES ASSUME wrong # {}
                 PROVE  FALSE
    OBVIOUS
  <2>2. PICK n \in wrong : \A m \in wrong : n <= m
    <3>1. wrong \subseteq Nat
      OBVIOUS
    <3> HIDE DEF wrong
    <3> QED
      BY <2>1, <3>1, Smallest
  <2>3. n # 1 => n - 1 \in 1 .. depth /\ enclosing[n - 1] = found[n - 1]
    <3>1. n # 1 => n - 1 \in 1 .. depth /\ ~(n <= n - 1)
      BY <1>2
    <3> QED
      BY <2>2, <3>1
  <2>4. /\ enclosing[n] = IF n = 1 THEN NumberOf(Local(0))
                          ELSE IF enclosing[n - 1] = 0 THEN 0
                          ELSE NumberOf(heap[enclosing[n - 1]][1])
        /\ found[n] = IF n = 1 THEN NumberOf(Local(0))
                      ELSE IF found[n - 1] = 0 THEN 0
                      ELSE NumberOf(heap[found[n - 1]][1])
    BY <1>10, <1>11
  <2> QED
    BY <2>2, <2>3, <2>4
<1>13. EnclosingNumber(Local(0), depth) = found[depth]
  <2>1. EnclosingNumber(Local(0), depth) = enclosing[depth]
    BY DEF EnclosingNumber
  <2>2. depth \in 1 .. depth
    BY <1>2
  <2> QED
    BY <1>12, <2>1, <2>2
<1>14. found[depth] = Number(Ancestor(depth))
  <2>1. depth \in 1 .. depth /\ depth - 1 = last
    BY <1>2
  <2> QED
    BY <1>5, <2>1
<1>15. last \in 0 .. last
  BY <1>2
<1> QED
  BY <1>5, <1>9, <1>13, <1>14, <1>15 DEF Number

-----------------------------------------------------------------------------
(* Memory in use *)

(* Every call has left that many words of linkage. *)
LinkagesTake(n) == \A k \in 2 .. Depth : Len(frames[k].linkage) = n

(* The words in use, added up activation by activation.                    *)
WordsTaken(n) ==
  LET upTo[k \in 0 .. Depth] ==
        IF k = 0 THEN 1
        ELSE upTo[k - 1] + Len(RecordedActs[k].args) + Len(RecordedActs[k].locals)
               + Len(RecordedActs[k].operands) + IF k = 1 THEN 0 ELSE n
  IN  upTo[Depth]

(* An activation takes the words up to the end of its operands.            *)
LEMMA WordsOfActivation ==
  ASSUME CallingConvention, NEW n, n \in Nat, LinkagesTake(n), NEW k, k \in 1 .. Depth
  PROVE  LET a == Recorded(k) IN
         /\ Len(a.args) \in Nat /\ Len(a.locals) \in Nat /\ Len(a.operands) \in Nat
         /\ OperandsEnd(k) \in Nat
         /\ OperandsEnd(k) = (IF k = 1 THEN 1 ELSE OperandsEnd(k - 1) + n)
                               + Len(a.args) + Len(a.locals) + Len(a.operands)
<1> DEFINE f == frames[k]
           a == Recorded(k)
           words == StackWords(program, f.entry)
           context == f.base + IF Entered(k) THEN words ELSE 0
           leaf == Entered(k) /\ IsStackFunction(program, f.entry)
<1>1. CallingConvention /\ Depth \in Nat
  BY FrameFacts
<1>2. /\ f.base \in Nat /\ words \in Nat /\ OperandsEnd(k) \in Nat
      /\ Entered(k) => f.base + words <= OperandsEnd(k)
      /\ ~Entered(k) => f.base = OperandsEnd(k)
  BY <1>1, OperandFacts DEF ContextEnd
<1>3. /\ a.args = f.args
      /\ a.operands = Words(value_stack, context, OperandsEnd(k))
      /\ a.locals = IF leaf THEN Words(value_stack, f.base, context) ELSE << >>
  BY ActivationFields DEF Recorded, ActivationOf
<1>4. context \in Nat /\ f.base <= context /\ context <= OperandsEnd(k)
  BY <1>2
<1>5. Len(a.operands) = OperandsEnd(k) - context
  <2> HIDE DEF context
  <2> QED
    BY <1>2, <1>3, <1>4, WordsFacts
<1>6. Len(a.locals) = context - f.base
  <2>1. CASE leaf
    <3> HIDE DEF context
    <3> QED
      BY <1>2, <1>3, <1>4, <2>1, WordsFacts
  <2>2. CASE ~leaf
    <3>1. context = f.base
      BY <1>2, <2>2 DEF StackWords
    <3>2. Len(a.locals) = 0
      BY <1>3, <2>2
    <3> QED
      BY <1>2, <3>1, <3>2
  <2> QED
    BY <2>1, <2>2
<1>7. Len(f.args) \in Nat
  BY <1>1, FrameFacts
<1>8. f.base = (IF k = 1 THEN 1 ELSE OperandsEnd(k - 1) + n) + Len(f.args)
  <2>1. CASE k = 1
    <3>1. f.base = 1 /\ Len(f.args) = 0
      BY <1>1, <2>1 DEF CallingConvention, RootStays, RootFrame
    <3> QED
      BY <2>1, <3>1
  <2>2. CASE k # 1
    <3>1. PICK before : before = k - 1 /\ before + 1 = k /\ before # Depth
      BY <1>1, <2>2
    <3>2. OperandsEnd(before) = ArgumentsStart(k)
      BY <3>1 DEF OperandsEnd
    <3>3. ArgumentsStart(k) = f.base - n - Len(f.args)
      <4>1. k \in 2 .. Depth
        BY <1>1, <2>2
      <4>2. Len(f.linkage) = n
        BY <4>1 DEF LinkagesTake
      <4> QED
        BY <4>2 DEF ArgumentsStart
    <3>4. PICK base, size, end : base = f.base /\ size = Len(f.args) /\ end = OperandsEnd(before)
      OBVIOUS
    <3>5. end = base - n - size /\ base \in Nat /\ size \in Nat
      BY <1>2, <1>7, <3>2, <3>3, <3>4
    <3>6. base = end + n + size
      BY <3>5
    <3> QED
      BY <2>2, <3>1, <3>4, <3>6
  <2> QED
    BY <2>1, <2>2
<1>9. PICK start, size, base, middle, end :
        /\ start = IF k = 1 THEN 1 ELSE OperandsEnd(k - 1) + n
        /\ size = Len(f.args) /\ base = f.base /\ middle = context /\ end = OperandsEnd(k)
  OBVIOUS
<1>10. /\ base = start + size /\ base \in Nat /\ middle \in Nat /\ end \in Nat /\ size \in Nat
       /\ base <= middle /\ middle <= end
       /\ Len(a.args) = size /\ Len(a.locals) = middle - base /\ Len(a.operands) = end - middle
  BY <1>2, <1>3, <1>4, <1>5, <1>6, <1>7, <1>8, <1>9
<1>11. start \in Int
  <2>1. k # 1 => OperandsEnd(k - 1) \in Nat
    <3>1. k # 1 => k - 1 \in 1 .. Depth
      BY <1>1
    <3> QED
      BY <1>1, <3>1, OperandFacts
  <2> QED
    BY <1>9, <2>1
<1>12. end = start + size + (middle - base) + (end - middle)
  BY <1>10, <1>11
<1> HIDE DEF f, a, context
<1>13. /\ Len(a.args) \in Nat /\ Len(a.locals) \in Nat /\ Len(a.operands) \in Nat
  BY <1>10
<1>14. end = start + Len(a.args) + Len(a.locals) + Len(a.operands)
  BY <1>10, <1>12
<1> QED
  BY <1>2, <1>9, <1>13, <1>14 DEF a

(* All of them together take what is below the stack pointer.              *)
LEMMA WordsInUse ==
  ASSUME CallingConvention, NEW n, n \in Nat, LinkagesTake(n)
  PROVE  WordsTaken(n) = stack_pointer
<1> DEFINE Sum(upTo) == [k \in 0 .. Depth |->
             IF k = 0 THEN 1
             ELSE upTo[k - 1] + Len(RecordedActs[k].args) + Len(RecordedActs[k].locals)
                    + Len(RecordedActs[k].operands) + IF k = 1 THEN 0 ELSE n]
           sum == CHOOSE upTo : upTo = Sum(upTo)
           ends == [k \in 0 .. Depth |-> IF k = 0 THEN 1 ELSE OperandsEnd(k)]
<1>1. PICK d \in Nat : d = Depth /\ d > 0 /\ CallingConvention
  BY FrameFacts
<1>2. WordsTaken(n) = sum[Depth]
  BY DEF WordsTaken
<1>3. ASSUME NEW k \in 1 .. d
      PROVE  ends[k] = ends[k - 1] + Len(RecordedActs[k].args) + Len(RecordedActs[k].locals)
                         + Len(RecordedActs[k].operands) + IF k = 1 THEN 0 ELSE n
  <2>1. PICK a : a = RecordedActs[k] /\ a = Recorded(k)
    BY <1>1, ActsFacts
  <2>2. /\ Len(a.args) \in Nat /\ Len(a.locals) \in Nat /\ Len(a.operands) \in Nat
        /\ OperandsEnd(k) \in Nat
        /\ OperandsEnd(k) = (IF k = 1 THEN 1 ELSE OperandsEnd(k - 1) + n)
                              + Len(a.args) + Len(a.locals) + Len(a.operands)
    BY <1>1, <2>1, WordsOfActivation
  <2>3. /\ ends[k] = OperandsEnd(k)
        /\ ends[k - 1] = IF k = 1 THEN 1 ELSE OperandsEnd(k - 1)
    <3>1. k - 1 \in 0 .. Depth /\ k \in 0 .. Depth /\ (k - 1 = 0 <=> k = 1)
      BY <1>1
    <3> QED
      BY <3>1
  <2>4. PICK args, locals, operands : /\ args = Len(a.args) /\ locals = Len(a.locals)
                                      /\ operands = Len(a.operands)
    OBVIOUS
  <2> HIDE DEF ends
  <2>5. CASE k = 1
    BY <2>1, <2>2, <2>3, <2>4, <2>5
  <2>6. CASE k # 1
    <3>1. OperandsEnd(k - 1) \in Nat
      <4>1. k - 1 \in 1 .. Depth
        BY <1>1, <2>6
      <4> QED
        BY <1>1, <4>1, OperandFacts
    <3>2. PICK before, end : /\ before = OperandsEnd(k - 1) /\ end = OperandsEnd(k)
                             /\ before \in Nat /\ end \in Nat
      BY <2>2, <3>1
    <3>3. end = before + n + args + locals + operands
      BY <2>2, <2>4, <2>6, <3>2
    <3>4. end = before + args + locals + operands + n
      <4>1. args \in Nat /\ locals \in Nat /\ operands \in Nat
        BY <2>2, <2>4
      <4> QED
        BY <3>2, <3>3, <4>1
    <3>5. ends[k] = end /\ ends[k - 1] = before
      BY <2>3, <2>6, <3>2
    <3> QED
      BY <2>1, <2>4, <2>6, <3>4, <3>5
  <2> QED
    BY <2>5, <2>6
<1>4. ends = Sum(ends)
  <2>1. \A k \in 0 .. d : k # 0 => k \in 1 .. d
    BY <1>1
  <2> QED
    BY <1>1, <1>3, <2>1
<1>5. sum = Sum(sum)
  <2> HIDE DEF Sum, ends
  <2> QED
    BY <1>4
<1>6. \A k \in 0 .. d : sum[k] = ends[k]
  <2> DEFINE wrong == {k \in 0 .. d : sum[k] # ends[k]}
  <2> HIDE DEF sum, ends
  <2>1. SUFFICES ASSUME wrong # {}
                 PROVE  FALSE
    OBVIOUS
  <2>2. PICK k \in wrong : \A j \in wrong : k <= j
    <3>1. wrong \subseteq Nat
      OBVIOUS
    <3> HIDE DEF wrong
    <3> QED
      BY <2>1, <3>1, Smallest
  <2>3. k # 0 => k - 1 \in 0 .. d /\ sum[k - 1] = ends[k - 1]
    <3>1. k # 0 => k - 1 \in 0 .. d /\ ~(k <= k - 1)
      BY <1>1
    <3> QED
      BY <2>2, <3>1
  <2>4. /\ k = 0 => sum[k] = 1 /\ ends[k] = 1
        /\ k # 0 => sum[k] = sum[k - 1] + Len(RecordedActs[k].args) + Len(RecordedActs[k].locals)
                      + Len(RecordedActs[k].operands) + IF k = 1 THEN 0 ELSE n
        /\ k # 0 => ends[k] = ends[k - 1] + Len(RecordedActs[k].args) + Len(RecordedActs[k].locals)
                      + Len(RecordedActs[k].operands) + IF k = 1 THEN 0 ELSE n
    BY <1>1, <1>4, <1>5
  <2> QED
    BY <2>2, <2>3, <2>4
<1>7. ends[Depth] = stack_pointer
  <2>1. Depth \in 0 .. Depth /\ Depth # 0
    BY <1>1
  <2> QED
    BY <2>1 DEF OperandsEnd
<1>8. Depth \in 0 .. d
  BY <1>1
<1> QED
  BY <1>2, <1>6, <1>7, <1>8

-----------------------------------------------------------------------------
(* Words *)

(* Every function reference in memory is one that MOV_FNC has made, so a   *)
(* CALL of a word that is a reference finds its function; and every int is *)
(* in the range of the type, which the arithmetic of the opcodes assumes.  *)
IntInRange(v) == v[1] = "int" => v[2] \in IntRange
Known(v, refs) == (v[1] = "fnref" => v[2] \in DOMAIN refs) /\ IntInRange(v)
WordsKnown ==
  /\ \A i \in StackIndexes : Known(value_stack[i], fn_refs)
  /\ \A n \in DOMAIN heap : \A s \in DOMAIN heap[n] : Known(heap[n][s], fn_refs)

(* A word that is no reference and, when an int, in range. *)
Plain(v) == v[1] # "fnref" /\ IntInRange(v)

(* The words the constructors of z_value_t make are plain. *)
LEMMA PlainWords ==
  /\ \A n \in Int : Plain(ivalue(n))
  /\ \A n : Plain(uvalue(n)) /\ Plain(dvalue(n)) /\ Plain(svalue(n)) /\ Plain(<<"code", n>>)
  /\ \A b : Plain(bvalue(b)) /\ Plain(<<"bool", b>>)
  /\ Plain(NegativeZero) /\ Plain(NonFinite) /\ Plain(undef) /\ Plain(nvalue) /\ Plain(nullptr)
  /\ \A c \in Context : Plain(c)
<1>1. \A n \in Int : Plain(ivalue(n))
  <2>1. \A n \in Int : Wrap(n) \in IntRange
    BY WrapFacts
  <2> QED
    BY <2>1 DEF Plain, IntInRange, ivalue
<1> QED
  BY <1>1 DEF Plain, IntInRange, uvalue, dvalue, svalue, bvalue, NegativeZero, NonFinite, undef,
     nvalue, nullptr, Context

(* A plain word is known, whatever references there are. *)
LEMMA PlainKnown ==
  ASSUME NEW v, NEW refs, Plain(v)
  PROVE  Known(v, refs)
BY DEF Plain, Known

(* What the opcodes of the ints compute is an int. *)
LEMMA IntOutcomesPlain ==
  ASSUME NEW o \in IntArithmetic, NEW v1 \in Value, NEW v2 \in Value,
         NEW v \in IntOutcomes(o, v1, v2)
  PROVE  Plain(v)
<1> DEFINE results == UNION {IntResults(o, m, n) : m \in HighWords(v1), n \in HighWords(v2)}
<1>1. \A m \in HighWords(v1), n \in HighWords(v2) : IntResults(o, m, n) \subseteq Int
  BY HighWordsAreInts, IntResultsAreInts
<1>2. results \subseteq Int
  BY <1>1
<1>3. v \in {ivalue(r) : r \in results}
  BY DEF IntOutcomes
<1> HIDE DEF results
<1> QED
  BY <1>2, <1>3, PlainWords

(* What a word is when it is read as a float, and what the opcodes of the  *)
(* floats make of that, is plain.                                          *)
LEMMA DecimalsPlain ==
  ASSUME NEW v, NEW a \in Decimals(v)
  PROVE  Plain(a)
<1>1. \A n : Plain(dvalue(n))
  BY PlainWords
<1>2. \A b \in AnyFloat : Plain(b)
  BY <1>1, PlainWords DEF AnyFloat
<1>3. \A n, b : b \in FloatsOfBits(n) => Plain(b)
  BY <1>1, <1>2, PlainWords DEF FloatsOfBits
<1>4. v[1] \in {"dec", "negzero", "nonfinite"} => Plain(v)
  BY DEF Plain, IntInRange
<1> QED
  BY <1>1, <1>2, <1>3, <1>4 DEF Decimals

LEMMA DecimalResultsPlain ==
  ASSUME NEW o, NEW a, NEW b, Plain(a), NEW r \in DecimalResults(o, a, b)
  PROVE  Plain(r)
<1>1. \A n : Plain(dvalue(n))
  BY PlainWords
<1>2. CASE NonFinite \in {a, b}
  <2>1. r \in {NonFinite, dvalue(0), NegativeZero, a}
    BY <1>2 DEF DecimalResults, NonFiniteResults
  <2> QED
    BY <1>1, <2>1, PlainWords
<1>3. CASE NonFinite \notin {a, b}
  <2>1. r \in {NonFinite, NegativeZero, dvalue(Exact(o, a[2], b[2]))}
    BY <1>3 DEF DecimalResults, DecimalResult
  <2> QED
    BY <1>1, <2>1, PlainWords
<1> QED
  BY <1>2, <1>3

(* Comparisons of floats make booleans. *)
LEMMA FloatComparisonsAreBooleans ==
  ASSUME NEW o, NEW v1, NEW v2,
         NEW r \in DecimalGreaterOutcomes(v1, v2) \cup DecimalComparisonOutcomes(o, v1, v2)
  PROVE  r[1] = "bool"
<1>1. \A b : bvalue(b)[1] = "bool"
  BY DEF bvalue
<1>2. \A c \in Either : c[1] = "bool"
  BY <1>1 DEF Either
<1>3. \A a, n : \A c \in DecimalGreater(a, n) : c[1] = "bool"
  BY <1>1, <1>2 DEF DecimalGreater
<1>4. \A a, b : \A c \in DecimalComparison(o, a, b) : c[1] = "bool"
  BY <1>1, <1>2 DEF DecimalComparison
<1>5. CASE r \in DecimalGreaterOutcomes(v1, v2)
  BY <1>3, <1>5 DEF DecimalGreaterOutcomes
<1>6. CASE r \in DecimalComparisonOutcomes(o, v1, v2)
  BY <1>4, <1>6 DEF DecimalComparisonOutcomes
<1> QED
  BY <1>5, <1>6

(* The operators make plain words of any words. *)
LEMMA OperatorsPlain ==
  ASSUME NEW o, NEW v1 \in Value, NEW v2 \in Value, NEW v
  PROVE  /\ o \in BinaryOpcodes /\ v \in BinaryResults(o, v1, v2) => Plain(v)
         /\ o \in UnaryOpcodes /\ v \in UnaryResults(o, v1) => Plain(v)
<1>1. ASSUME o \in BinaryOpcodes, v \in BinaryResults(o, v1, v2)
      PROVE  Plain(v)
  <2>1. CASE o \in IntArithmetic
    <3>1. v \in IntOutcomes(o, v1, v2)
      BY <1>1, <2>1, SMT DEF BinaryResults, IntArithmetic, DecimalArithmetic, IntComparisons
    <3> QED
      BY <2>1, <3>1, IntOutcomesPlain
  <2>2. CASE o \in DecimalArithmetic
    <3>1. v \in DecimalOutcomes(o, v1, v2)
      BY <1>1, <2>2, SMT DEF BinaryResults, IntArithmetic, DecimalArithmetic, Comparisons,
         IntComparisons, DecimalComparisons
    <3>2. PICK a \in Decimals(v1), b \in Decimals(v2) : v \in DecimalResults(o, a, b)
      BY <3>1 DEF DecimalOutcomes
    <3>3. Plain(a)
      BY DecimalsPlain
    <3> QED
      BY <3>2, <3>3, DecimalResultsPlain
  <2>3. CASE o = "ADD_STRING"
    <3>1. v \in Concatenation(v1, v2)
      BY <1>1, <2>3, SMT DEF BinaryResults, IntArithmetic, DecimalArithmetic, IntComparisons
    <3> QED
      BY <3>1, PlainWords DEF Concatenation
  <2>4. CASE o \in IntComparisons
    <3>1. v \in IntComparisonOutcomes(o, v1, v2)
      BY <1>1, <2>4 DEF BinaryResults, IntArithmetic, DecimalArithmetic, IntComparisons
    <3>2. v[1] = "bool"
      BY <3>1 DEF IntComparisonOutcomes, bvalue
    <3> QED
      BY <3>2 DEF Plain, IntInRange
  <2>5. CASE o \in DecimalComparisons
    <3>1. \/ v \in DecimalGreaterOutcomes(v1, v2)
          \/ v \in DecimalComparisonOutcomes(o, v1, v2)
      BY <1>1, <2>5 DEF BinaryResults, IntArithmetic, DecimalArithmetic, IntComparisons,
         DecimalComparisons
    <3>2. v[1] = "bool"
      BY <3>1, FloatComparisonsAreBooleans
    <3> QED
      BY <3>2 DEF Plain, IntInRange
  <2> QED
    BY <1>1, <2>1, <2>2, <2>3, <2>4, <2>5 DEF BinaryOpcodes, Comparisons
<1>2. ASSUME o \in UnaryOpcodes, v \in UnaryResults(o, v1)
      PROVE  Plain(v)
  <2>1. \A m \in HighWords(v1) : m \in Int /\ -m \in Int
    BY HighWordsAreInts
  <2>2. CASE o = "NEG_INT"
    <3>1. v \in {ivalue(-m) : m \in HighWords(v1)}
      BY <1>2, <2>2 DEF UnaryResults
    <3> QED
      BY <2>1, <3>1, PlainWords
  <2>3. CASE o \in {"NEG_DECIMAL", "CAST_DECIMAL"}
    <3>1. \/ \E a : v = Negation(a)
          \/ \E n : v = dvalue(n)
      BY <1>2, <2>3 DEF UnaryResults
    <3>2. \A a : Negation(a) \in {NonFinite, NegativeZero, dvalue(-a[2])}
      BY DEF Negation
    <3> QED
      BY <3>1, <3>2, PlainWords
  <2> QED
    BY <1>2, <2>2, <2>3 DEF UnaryOpcodes
<1> QED
  BY <1>1, <1>2

(* What a handler reads from its context is known.                         *)
LEMMA LocalsKnown ==
  ASSUME CallingConvention, WordsKnown, ~Entering,
         NEW s, s \in 0 .. FrameSize(program, Frame.entry) - 1
  PROVE  Known(Local(s), fn_refs)
<1>1. FrameSize(program, Frame.entry) \in Nat /\ stack_pointer \in StackIndexes
  BY FrameFacts DEF Frame
<1>2. CASE Leaf
  <2>1. Local(s) = value_stack[Frame.base + s]
    BY <1>2, ContextFacts DEF Leaf, Local, Slot, OnStack
  <2>2. Frame.base + s \in StackIndexes
    <3>1. PICK base, size : base = Frame.base /\ size = FrameSize(program, Frame.entry)
      OBVIOUS
    <3>2. base \in Nat /\ base + size <= stack_pointer
      BY <1>2, <3>1, CurrentFacts
    <3> QED
      BY <1>1, <3>1, <3>2, StackMaxAssumption DEF StackIndexes
  <2> QED
    BY <2>1, <2>2 DEF WordsKnown
<1>3. CASE ~Leaf
  <2>1. /\ context_object \in HeapContexts
        /\ Len(heap[context_object[2]]) = FrameSize(program, Frame.entry)
        /\ Local(s) = heap[context_object[2]][s + 1]
    BY <1>3, ContextFacts, HeapContextFacts DEF Leaf, Local, Slot
  <2>2. /\ context_object[2] \in DOMAIN heap
        /\ heap[context_object[2]] \in Seq(Value)
    BY <2>1, HeapContextFacts, HeapFacts
  <2>3. s + 1 \in DOMAIN heap[context_object[2]]
    BY <1>1, <2>1, <2>2
  <2> QED
    BY <2>1, <2>2, <2>3 DEF WordsKnown
<1> QED
  BY <1>2, <1>3

(* Storing a known word keeps them known. *)
LEMMA StoresKnown ==
  ASSUME CallingConvention, WordsKnown, DOMAIN fn_refs \subseteq DOMAIN fn_refs',
         NEW c, NEW i, NEW v, StoreSlot(c, i, v), Known(v, fn_refs')
  PROVE  WordsKnown'
<1>1. CASE value_stack' = [value_stack EXCEPT ![c[2] + i] = v] /\ heap' = heap
  <2>1. value_stack \in [StackIndexes -> Value]
    BY StateFacts
  <2>2. \A j \in StackIndexes : value_stack'[j] = v \/ value_stack'[j] = value_stack[j]
    BY <1>1, <2>1
  <2> QED
    BY <1>1, <2>2 DEF WordsKnown, Known
<1>2. CASE heap' = [heap EXCEPT ![c[2]][i + 1] = v] /\ value_stack' = value_stack
  <2>1. PICK block : block = [heap[c[2]] EXCEPT ![i + 1] = v]
    OBVIOUS
  <2>2. heap' = [heap EXCEPT ![c[2]] = block]
    BY <1>2, <2>1
  <2>3. heap \in Seq(Seq(Value))
    BY HeapFacts
  <2>4. /\ DOMAIN heap' = DOMAIN heap
        /\ \A n \in DOMAIN heap : heap'[n] = IF n = c[2] THEN block ELSE heap[n]
    BY <2>2, <2>3
  <2>5. ASSUME NEW n \in DOMAIN heap, NEW s \in DOMAIN heap'[n]
        PROVE  Known(heap'[n][s], fn_refs')
    <3>1. CASE n = c[2]
      <4>1. heap'[n] = block /\ s \in DOMAIN heap[n]
        BY <2>1, <2>4, <2>5, <3>1
      <4>2. block[s] = IF s = i + 1 THEN v ELSE heap[n][s]
        BY <2>1, <3>1, <4>1
      <4> QED
        BY <4>1, <4>2 DEF WordsKnown, Known
    <3>2. CASE n # c[2]
      BY <2>4, <3>2 DEF WordsKnown, Known
    <3> QED
      BY <3>1, <3>2
  <2> QED
    BY <1>2, <2>4, <2>5 DEF WordsKnown, Known
<1> QED
  BY <1>1, <1>2 DEF StoreSlot

(* So does pushing some. *)
LEMMA PushesKnown ==
  ASSUME CallingConvention, WordsKnown, NEW words,
         \A j \in 1 .. Len(words) : Known(words[j], fn_refs), Len(words) \in Nat,
         value_stack' = Pushed(value_stack, stack_pointer, words), UNCHANGED <<heap, fn_refs>>
  PROVE  WordsKnown'
<1>1. PICK sp \in Nat : sp = stack_pointer
  BY StateFacts
<1>2. PICK size \in Nat : size = Len(words)
  OBVIOUS
<1>3. ASSUME NEW i \in StackIndexes
      PROVE  Known(value_stack'[i], fn_refs)
  <2>1. i \in Nat
    BY StackMaxAssumption DEF StackIndexes
  <2>2. CASE i \in sp .. sp + size - 1
    <3>1. PICK j : j = i - sp + 1 /\ j \in 1 .. size
      BY <1>1, <1>2, <2>1, <2>2
    <3>2. value_stack'[i] = words[j]
      BY <1>1, <1>2, <2>2, <3>1 DEF Pushed
    <3> QED
      BY <1>2, <3>1, <3>2
  <2>3. CASE i \notin sp .. sp + size - 1
    BY <1>1, <1>2, <2>3 DEF Pushed, WordsKnown
  <2> QED
    BY <2>2, <2>3
<1> QED
  BY <1>3 DEF WordsKnown

(* FN_ENTER moves the parent, and writes nothing else but numbers.         *)
LEMMA EnterKnown ==
  ASSUME CallingConvention, WordsKnown, EnterStep
  PROVE  WordsKnown'
<1>1. /\ Entering /\ fn_refs' = fn_refs
  BY DEF EnterStep, Entering, FnEnters, EnterHeap, EnterStack
<1>2. /\ Known(Top, fn_refs)
      /\ Known(uvalue(base_pointer), fn_refs)
      /\ Known(undef, fn_refs)
      /\ \A n : Known(uvalue(n), fn_refs)
  <2>1. stack_pointer - 1 \in StackIndexes
    BY <1>1, EnteringFacts
  <2> QED
    BY <2>1, PlainWords, PlainKnown DEF WordsKnown, Top
<1>3. ASSUME NEW i, NEW old, Known(old, fn_refs)
      PROVE  Known(InitCallContext(i, Top, old), fn_refs)
  BY <1>2, <1>3 DEF InitCallContext
<1>4. CASE EnterHeap(program.code[ip].op1)
  <2>1. PICK block, size : /\ block = NewHeapContext(size, Top)
                           /\ size = program.code[ip].op1
    OBVIOUS
  <2>2. /\ heap' = Append(heap, block)
        /\ value_stack' = [value_stack EXCEPT ![stack_pointer - 1] = uvalue(base_pointer)]
    BY <1>4, <2>1 DEF EnterHeap
  <2>3. \A s \in DOMAIN block : Known(block[s], fn_refs)
    <3>1. DOMAIN block = 1 .. size
      BY <2>1 DEF NewHeapContext
    <3>2. \A s \in 1 .. size : block[s] = InitCallContext(s - 1, Top, undef)
      BY <2>1 DEF NewHeapContext
    <3> QED
      BY <1>2, <1>3, <3>1, <3>2
  <2>4. value_stack \in [StackIndexes -> Value] /\ heap \in Seq(Seq(Value))
    BY StateFacts, HeapFacts
  <2>5. \A j \in StackIndexes :
          value_stack'[j] = uvalue(base_pointer) \/ value_stack'[j] = value_stack[j]
    BY <2>2, <2>4
  <2>6. \A n \in DOMAIN heap' : heap'[n] = block \/ (n \in DOMAIN heap /\ heap'[n] = heap[n])
    BY <2>2, <2>4
  <2> QED
    BY <1>1, <1>2, <2>3, <2>5, <2>6 DEF WordsKnown
<1>5. CASE EnterStack(program.code[ip].op1)
  <2>1. heap' = heap
    BY <1>5 DEF EnterStack
  <2>2. ASSUME NEW j \in StackIndexes
        PROVE  Known(value_stack'[j], fn_refs)
    <3>1. Known(value_stack[j], fn_refs)
      BY DEF WordsKnown
    <3>2. value_stack'[j] = IF j = stack_pointer - 1 THEN uvalue(base_pointer)
                            ELSE IF j >= stack_pointer
                                   THEN InitCallContext(j - stack_pointer, Top, value_stack[j])
                            ELSE value_stack[j]
      BY <1>5 DEF EnterStack
    <3> QED
      BY <1>2, <1>3, <3>1, <3>2
  <2> QED
    BY <1>1, <2>1, <2>2 DEF WordsKnown
<1> QED
  BY <1>4, <1>5 DEF EnterStep

(* RET stores the result, a word of the callee. *)
LEMMA ReturnKnown ==
  ASSUME CallingConvention, WordsKnown, ReturnStep
  PROVE  WordsKnown'
<1> DEFINE result == program.code[ip].dest
<1>1. fn_refs' = fn_refs
  BY DEF ReturnStep
<1>2. CASE result = 0
  BY <1>1, <1>2 DEF ReturnStep, WordsKnown
<1>3. CASE result # 0
  <2>1. ~Entering
    BY ReturnFacts DEF ReturnStep
  <2>2. result \in 0 .. FrameSize(program, Frame.entry) - 1
    <3>1. result \in SlotsRead(program.code[ip])
      BY DEF SlotsRead, ReturnStep
    <3> QED
      BY <3>1, InstructionFacts DEF WellFormedAt
  <2>3. Known(Local(result), fn_refs)
    BY <2>1, <2>2, LocalsKnown
  <2>4. PICK v : v = Local(result)
    OBVIOUS
  <2>5. StoreSlot(Frame.ctx, Frame.dest, v)
    BY <1>3, <2>4 DEF ReturnStep
  <2> HIDE DEF result
  <2> QED
    BY <1>1, <2>3, <2>4, <2>5, StoresKnown
<1> QED
  BY <1>2, <1>3

-----------------------------------------------------------------------------
(* Scopes *)

(* A closure of e has been made in the context c; the root needs none.     *)
Captured(c, e) ==
  e # 0 => \E r \in DOMAIN fn_refs : fn_refs[r].parent = c /\ fn_refs[r].entry = e

(* Which function made every context in the heap: a closure is made by the *)
(* function around its text, and what is called is a closure, so the       *)
(* parent of a context is one of the function around.                      *)
ScopedBy(owner) ==
  /\ owner \in [DOMAIN heap -> EntriesOf(program)]
  /\ \A n \in DOMAIN heap : /\ Len(heap[n]) = FrameSize(program, owner[n])
                            /\ Captured(heap[n][1], owner[n])
  /\ \A r \in DOMAIN fn_refs :
       owner[fn_refs[r].parent[2]] = Outer(program, fn_refs[r].entry)
  /\ \A k \in 1 .. Depth :
       /\ Captured(RecordedActs[k].parent, frames[k].entry)
       /\ RecordedActs[k].ctx \in HeapContexts =>
            owner[RecordedActs[k].ctx[2]] = frames[k].entry

ContextsScoped == \E owner : ScopedBy(owner)

(* What a step leaves of an activation for this. *)
SameLinks(k) ==
  /\ RecordedActs'[k].parent = RecordedActs[k].parent
  /\ RecordedActs'[k].ctx = RecordedActs[k].ctx

(* Nobody makes closures of the root, and those of another function are    *)
(* all made in the one around it.                                          *)
LEMMA CreatorFacts ==
  ASSUME NEW p \in Programs, NEW f \in EntriesOf(p)
  PROVE  /\ Creators(p, f) \subseteq EntriesOf(p)
         /\ Creators(p, f) # {} => f # 0
         /\ Outer(p, f) \in EntriesOf(p)
         /\ \A e \in Creators(p, f) : Outer(p, f) = e
<1>1. ASSUME NEW e \in Creators(p, f)
      PROVE  e \in EntriesOf(p) /\ f # 0
  <2>1. PICK a \in Addresses(p) : /\ e = p.entry[a]
                                  /\ p.code[a].op = "MOV_FNC"
                                  /\ p.code[a].op1 = f
    BY DEF Creators
  <2> QED
    BY <2>1, AddressFacts DEF WellFormedAt
<1>2. \E e \in EntriesOf(p) : Creators(p, f) # {} => e \in Creators(p, f)
  BY <1>1
<1>3. /\ Outer(p, f) \in EntriesOf(p)
      /\ Creators(p, f) # {} => Outer(p, f) \in Creators(p, f)
  BY <1>2 DEF Outer
<1>4. \A d, e \in Creators(p, f) : d = e
  BY ScopesAssumption DEF WellScoped
<1> QED
  BY <1>1, <1>3, <1>4

(* A step inside an activation leaves all links. *)
LEMMA LocalLinks ==
  ASSUME CallingConvention, LocalStep
  PROVE  Depth' = Depth /\ \A k \in 1 .. Depth : SameLinks(k)
<1>1. PICK operands, locals :
        RecordedActs' = [RecordedActs EXCEPT ![Depth] =
                           Activation(ip', Frame.args, operands, Local(0), CurrentContext,
                                      locals, Frame.dest)]
  BY LocalActs
<1>2. PICK parent, ctx : parent = Local(0) /\ ctx = CurrentContext
  OBVIOUS
<1>3. Current.parent = parent /\ Current.ctx = ctx
  BY <1>2, CurrentFacts, ActivationFields DEF LocalStep
<1>4. PICK new : /\ new = Activation(ip', Frame.args, operands, parent, ctx, locals, Frame.dest)
                 /\ new.parent = parent /\ new.ctx = ctx
  BY ActivationFields
<1>5. RecordedActs' = [RecordedActs EXCEPT ![Depth] = new]
  BY <1>1, <1>2, <1>4
<1>6. \A k \in 1 .. Depth : RecordedActs'[k] = IF k = Depth THEN new ELSE RecordedActs[k]
  BY <1>5, ActsFacts
<1>7. Depth' = Depth
  BY DEF LocalStep, Depth
<1> QED
  BY <1>3, <1>4, <1>6, <1>7, ActsFacts DEF SameLinks

(* FN_ENTER gives the running activation its context. *)
LEMMA EnterLinks ==
  ASSUME CallingConvention, EnterStep, CallingConvention'
  PROVE  /\ Depth' = Depth
         /\ \A k \in 1 .. Depth : k # Depth => SameLinks(k)
         /\ RecordedActs[Depth].parent = Frame.parent
         /\ RecordedActs'[Depth].parent = Frame.parent
         /\ RecordedActs'[Depth].ctx = IF Leaf THEN nullptr ELSE <<"heap", Len(heap) + 1>>
<1>1. Entering
  BY DEF EnterStep, Entering, FnEnters
<1>2. PICK ctx : ctx = IF Leaf THEN nullptr ELSE <<"heap", Len(heap) + 1>>
  OBVIOUS
<1>3. PICK locals :
        RecordedActs' = [RecordedActs EXCEPT ![Depth] =
                           Activation(ip + 1, Frame.args, << >>, Frame.parent, ctx, locals,
                                      Frame.dest)]
  BY <1>2, EnterActs
<1>4. Current.parent = Frame.parent
  BY <1>1, EnteringCurrent, ActivationFields
<1>5. PICK new : /\ new = Activation(ip + 1, Frame.args, << >>, Frame.parent, ctx, locals,
                                     Frame.dest)
                 /\ new.parent = Frame.parent /\ new.ctx = ctx
  BY ActivationFields
<1>6. \A k \in 1 .. Depth : RecordedActs'[k] = IF k = Depth THEN new ELSE RecordedActs[k]
  BY <1>3, <1>5, ActsFacts
<1>7. Depth' = Depth
  BY DEF EnterStep, Depth
<1>8. Depth \in 1 .. Depth
  BY ActsFacts
<1> QED
  BY <1>2, <1>4, <1>5, <1>6, <1>7, <1>8, ActsFacts DEF SameLinks

(* A CALL adds an activation with the parent its function reference has.   *)
LEMMA CallLinks ==
  ASSUME CallingConvention, NEW linkage, CallStep(linkage)
  PROVE  LET callee == Callee(Local(program.code[ip].op1)) IN
         /\ Depth' = Depth + 1
         /\ \A k \in 1 .. Depth : SameLinks(k)
         /\ RecordedActs'[Depth + 1].parent = callee.parent
         /\ RecordedActs'[Depth + 1].ctx = nullptr
<1>1. PICK callee : callee = Callee(Local(program.code[ip].op1))
  OBVIOUS
<1>2. PICK operands, args, dest :
        RecordedActs' =
          Added([RecordedActs EXCEPT ![Depth] =
                    Activation(ip + 1, Frame.args, operands, Local(0), CurrentContext,
                               LocalWords, Frame.dest)],
                Activation(callee.entry, args, << >>, callee.parent, nullptr, << >>, dest))
  BY <1>1, CallActs
<1>3. PICK parent, ctx : parent = Local(0) /\ ctx = CurrentContext
  OBVIOUS
<1>4. ~Entering
  BY DEF CallStep, Entering, FnEnters
<1>5. Current.parent = parent /\ Current.ctx = ctx
  BY <1>3, <1>4, CurrentFacts, ActivationFields
<1>6. PICK old : /\ old = Activation(ip + 1, Frame.args, operands, parent, ctx, LocalWords,
                                     Frame.dest)
                 /\ old.parent = parent /\ old.ctx = ctx
  BY ActivationFields
<1>7. PICK new : /\ new = Activation(callee.entry, args, << >>, callee.parent, nullptr, << >>,
                                     dest)
                 /\ new.parent = callee.parent /\ new.ctx = nullptr
  BY ActivationFields
<1>8. PICK acts : acts = [RecordedActs EXCEPT ![Depth] = old]
  OBVIOUS
<1>9. PICK d : d = Depth /\ d \in Nat \ {0}
  BY ActsFacts
<1>10. /\ DOMAIN acts = 1 .. d
       /\ \A k \in 1 .. d : acts[k] = IF k = d THEN old ELSE RecordedActs[k]
  BY <1>8, <1>9, ActsFacts
<1>11. acts = [k \in 1 .. d |-> acts[k]]
  BY <1>8, <1>9, ActsFacts DEF RecordedActs
<1>12. RecordedActs' = Append(acts, new)
  BY <1>2, <1>3, <1>6, <1>7, <1>8 DEF Added
<1>13. /\ \A k \in 1 .. d : RecordedActs'[k] = acts[k]
       /\ RecordedActs'[d + 1] = new
  <2>1. PICK S : S = {acts[k] : k \in 1 .. d} \cup {new}
    OBVIOUS
  <2>2. acts \in Seq(S) /\ Len(acts) = d /\ new \in S
    <3>1. [k \in 1 .. d |-> acts[k]] \in Seq(S) /\ Len([k \in 1 .. d |-> acts[k]]) = d
      BY <1>9, <2>1
    <3> QED
      BY <1>11, <2>1, <3>1
  <2> QED
    BY <1>9, <1>12, <2>2, AppendProperties
<1>14. Depth' = Depth + 1
  BY CallHistory
<1>15. ASSUME NEW k \in 1 .. d
       PROVE  SameLinks(k)
  BY <1>5, <1>6, <1>9, <1>10, <1>13, ActsFacts DEF SameLinks
<1> QED
  BY <1>1, <1>7, <1>9, <1>13, <1>14, <1>15

(* A RET leaves the links of the others. *)
LEMMA ReturnLinks ==
  ASSUME CallingConvention, ReturnStep, CallingConvention'
  PROVE  \A k \in 1 .. Depth' : k \in 1 .. Depth /\ SameLinks(k)
<1>1. PICK d : d = Depth - 1 /\ d \in 1 .. Depth /\ Depth = d + 1 /\ Depth' = d /\ d \in Nat
  BY ReturnActs, ReturnHistory, ActsFacts
<1>2. PICK acts : acts = RecordedActs
  OBVIOUS
<1>3. PICK rest : rest = Part(acts, 1, d)
  OBVIOUS
<1>4. \A k \in 1 .. d : rest[k] = acts[k]
  BY <1>1, <1>2, <1>3, ActsFacts DEF Part, RecordedActs
<1>5. DOMAIN rest = 1 .. d
  BY <1>1, <1>2, <1>3, ActsFacts DEF Part, RecordedActs
<1>6. \/ RecordedActs' = rest
      \/ \E v : RecordedActs' = [rest EXCEPT ![d] =
                                   WithLocals(acts[d], StoredIn(acts[d].locals, Frame.dest, v))]
  BY <1>1, <1>2, <1>3, ReturnActs
<1>7. CASE RecordedActs' = rest
  BY <1>1, <1>2, <1>4, <1>7 DEF SameLinks
<1>8. ASSUME NEW v,
             RecordedActs' = [rest EXCEPT ![d] =
                                WithLocals(acts[d], StoredIn(acts[d].locals, Frame.dest, v))]
      PROVE  \A k \in 1 .. d : SameLinks(k)
  <2>1. PICK locals : locals = StoredIn(acts[d].locals, Frame.dest, v)
    OBVIOUS
  <2>2. PICK new : new = WithLocals(acts[d], locals)
    OBVIOUS
  <2>3. new.parent = acts[d].parent /\ new.ctx = acts[d].ctx
    BY <2>2 DEF WithLocals
  <2>4. \A k \in 1 .. d : RecordedActs'[k] = IF k = d THEN new ELSE acts[k]
    BY <1>4, <1>5, <1>8, <2>1, <2>2
  <2> QED
    BY <1>2, <2>3, <2>4 DEF SameLinks
<1>9. \A k \in 1 .. d : k \in 1 .. Depth
  BY <1>1
<1> QED
  BY <1>1, <1>6, <1>7, <1>8, <1>9

(* The parts of the invariant that have to be shown again after a step, if *)
(* it keeps the program, the contexts there were and the references.       *)
LEMMA ScopesStay ==
  ASSUME CallingConvention, CallingConvention', NEW owner, NEW longer, ScopedBy(owner),
         UNCHANGED program,
         longer \in [DOMAIN heap' -> EntriesOf(program)],
         DOMAIN heap \subseteq DOMAIN heap',
         \A n \in DOMAIN heap : /\ longer[n] = owner[n]
                                /\ Len(heap'[n]) = Len(heap[n])
                                /\ heap'[n][1] = heap[n][1],
         \A n \in DOMAIN heap' \ DOMAIN heap : /\ Len(heap'[n]) = FrameSize(program, longer[n])
                                               /\ Captured(heap'[n][1], longer[n]),
         DOMAIN fn_refs \subseteq DOMAIN fn_refs',
         \A r \in DOMAIN fn_refs : fn_refs'[r] = fn_refs[r],
         \A r \in DOMAIN fn_refs' \ DOMAIN fn_refs :
           longer[fn_refs'[r].parent[2]] = Outer(program, fn_refs'[r].entry),
         \A k \in 1 .. Depth' :
           /\ Captured(RecordedActs'[k].parent, frames'[k].entry)
           /\ RecordedActs'[k].ctx \in HeapContexts' =>
                longer[RecordedActs'[k].ctx[2]] = frames'[k].entry
  PROVE  ScopedBy(longer)'
<1>1. ASSUME NEW c, NEW e, Captured(c, e)
      PROVE  Captured(c, e)'
  BY <1>1 DEF Captured
<1>2. ASSUME NEW n \in DOMAIN heap'
      PROVE  /\ Len(heap'[n]) = FrameSize(program, longer[n])
             /\ Captured(heap'[n][1], longer[n])
  BY DEF ScopedBy
<1>3. ASSUME NEW n \in DOMAIN heap'
      PROVE  Captured(heap[n][1], longer[n])'
  <2>1. PICK c : c = heap'[n][1]
    OBVIOUS
  <2>2. Captured(c, longer[n])'
    BY <1>1, <1>2, <2>1
  <2> QED
    BY <2>1, <2>2 DEF Captured
<1>4. ASSUME NEW r \in DOMAIN fn_refs'
      PROVE  longer[fn_refs'[r].parent[2]] = Outer(program, fn_refs'[r].entry)
  <2>1. CASE r \in DOMAIN fn_refs
    <3>1. fn_refs[r].parent[2] \in DOMAIN heap
      BY <2>1, StateFacts, HeapContextFacts
    <3> QED
      BY <2>1, <3>1 DEF ScopedBy
  <2> QED
    BY <2>1
<1>5. ASSUME NEW k \in 1 .. Depth'
      PROVE  Captured(RecordedActs[k].parent, frames[k].entry)'
  <2>1. PICK c, e : c = RecordedActs'[k].parent /\ e = frames'[k].entry
    OBVIOUS
  <2>2. Captured(c, e)'
    BY <1>1, <2>1
  <2> QED
    BY <2>1, <2>2 DEF Captured
<1>6. /\ \A n \in DOMAIN heap' : Len(heap'[n]) = FrameSize(program', longer[n])
      /\ longer \in [DOMAIN heap' -> EntriesOf(program')]
      /\ \A r \in DOMAIN fn_refs' :
           longer[fn_refs'[r].parent[2]] = Outer(program', fn_refs'[r].entry)
  BY <1>2, <1>4
<1> QED
  BY <1>3, <1>5, <1>6 DEF ScopedBy

(* The links of an activation a step keeps are right afterwards. *)
LEMMA LinksStay ==
  ASSUME NEW owner, NEW longer, ScopedBy(owner),
         HeapContexts \subseteq HeapContexts',
         \A c \in HeapContexts : longer[c[2]] = owner[c[2]],
         \A k \in 1 .. Depth : RecordedActs[k].ctx \in HeapContexts' =>
                                 RecordedActs[k].ctx \in HeapContexts,
         NEW k, k \in 1 .. Depth, SameLinks(k), frames'[k].entry = frames[k].entry
  PROVE  /\ Captured(RecordedActs'[k].parent, frames'[k].entry)
         /\ RecordedActs'[k].ctx \in HeapContexts' =>
              longer[RecordedActs'[k].ctx[2]] = frames'[k].entry
BY DEF ScopedBy, SameLinks

(* The context of an activation is in the heap or nowhere. *)
LEMMA ContextOfAct ==
  ASSUME CallingConvention, NEW k, k \in 1 .. Depth
  PROVE  RecordedActs[k].ctx \in MayBeParent
<1>1. RecordedActs[k] = Recorded(k)
  BY ActsFacts
<1>2. PICK ctx : ctx = IF Entered(k) /\ ~IsStackFunction(program, frames[k].entry)
                         THEN OwnContext(k) ELSE nullptr
  OBVIOUS
<1>3. Recorded(k).ctx = ctx
  BY <1>2, ActivationFields DEF Recorded, ActivationOf
<1>4. ctx \in MayBeParent
  BY <1>2 DEF CallingConvention, ContextsOwned, MayBeParent
<1> QED
  BY <1>1, <1>3, <1>4

(* Inside an activation nothing changes but that a closure may be made, in *)
(* the function around its text.                                           *)
LEMMA LocalScopes ==
  ASSUME CallingConvention, LocalStep, CallingConvention', NEW owner, ScopedBy(owner)
  PROVE  ScopedBy(owner)'
<1>1. /\ UNCHANGED <<program, frames>>
      /\ DOMAIN heap' = DOMAIN heap
      /\ \A n \in DOMAIN heap : Len(heap'[n]) = Len(heap[n]) /\ heap'[n][1] = heap[n][1]
      /\ HeapContexts' = HeapContexts
      /\ ~Entering
  BY DEF LocalStep, LocalEffect, HeapContexts
<1>2. Depth' = Depth /\ \A k \in 1 .. Depth : SameLinks(k)
  BY LocalLinks
<1>3. \A k \in 1 .. Depth :
        /\ Captured(RecordedActs'[k].parent, frames'[k].entry)
        /\ RecordedActs'[k].ctx \in HeapContexts' =>
             owner[RecordedActs'[k].ctx[2]] = frames'[k].entry
  BY <1>1, <1>2, LinksStay
<1>4. /\ DOMAIN fn_refs \subseteq DOMAIN fn_refs'
      /\ \A r \in DOMAIN fn_refs : fn_refs'[r] = fn_refs[r]
      /\ \A r \in DOMAIN fn_refs' \ DOMAIN fn_refs :
           owner[fn_refs'[r].parent[2]] = Outer(program, fn_refs'[r].entry)
  <2>1. CASE UNCHANGED fn_refs
    BY <2>1
  <2>2. CASE program.code[ip].op = "MOV_FNC"
             /\ fn_refs' = Append(fn_refs, [parent |-> context_object,
                                            entry |-> program.code[ip].op1])
    <3>1. PICK e, new : e = program.code[ip].op1 /\ new = [parent |-> context_object, entry |-> e]
      OBVIOUS
    <3>2. fn_refs \in Seq(FnRef \cup {new}) /\ fn_refs' = Append(fn_refs, new)
      BY <2>2, <3>1, StateFacts
    <3>3. /\ DOMAIN fn_refs \subseteq DOMAIN fn_refs'
          /\ \A r \in DOMAIN fn_refs : fn_refs'[r] = fn_refs[r]
          /\ \A r \in DOMAIN fn_refs' \ DOMAIN fn_refs : fn_refs'[r] = new
      BY <3>2, AppendIndexes
    <3>4. /\ e \in EntriesOf(program)
          /\ ~Leaf
      BY <2>2, <3>1, InstructionFacts DEF WellFormedAt, Leaf
    <3>5. program.entry[ip] \in Creators(program, e)
      BY <2>2, <3>1, FrameFacts DEF Creators
    <3>6. Outer(program, e) = Frame.entry
      BY <3>4, <3>5, CreatorFacts, FrameFacts
    <3>7. owner[context_object[2]] = Frame.entry
      <4>1. context_object \in HeapContexts
        BY <1>1, <3>4, ContextFacts DEF Leaf
      <4>2. Current.ctx = context_object
        BY <1>1, <3>4, CurrentFacts, ActivationFields DEF CurrentContext
      <4> QED
        BY <4>1, <4>2, ActsFacts DEF ScopedBy, Frame
    <3> QED
      BY <3>1, <3>3, <3>6, <3>7
  <2> QED
    BY <2>1, <2>2 DEF LocalStep, ReferencesGrow
<1>5. owner \in [DOMAIN heap' -> EntriesOf(program)]
  BY <1>1 DEF ScopedBy
<1> QED
  BY <1>1, <1>2, <1>3, <1>4, <1>5, ScopesStay

(* A new context belongs to the function that is entered, and its parent   *)
(* is the one of the closure that was called.                              *)
LEMMA EnterScopes ==
  ASSUME CallingConvention, EnterStep, CallingConvention', NEW owner, ScopedBy(owner)
  PROVE  \E longer : ScopedBy(longer)'
<1>1. UNCHANGED <<program, frames, fn_refs>> /\ Entering
  BY DEF EnterStep, EnterHeap, EnterStack, Entering, FnEnters
<1>2. /\ Depth' = Depth
      /\ \A k \in 1 .. Depth : k # Depth => SameLinks(k)
      /\ RecordedActs[Depth].parent = Frame.parent
      /\ RecordedActs'[Depth].parent = Frame.parent
      /\ RecordedActs'[Depth].ctx = IF Leaf THEN nullptr ELSE <<"heap", Len(heap) + 1>>
  BY EnterLinks
<1>3. /\ Captured(Frame.parent, Frame.entry)
      /\ Frame = frames[Depth] /\ Depth \in 1 .. Depth
      /\ Frame.entry \in EntriesOf(program)
  BY <1>2, ActsFacts, FrameFacts DEF ScopedBy, Frame
<1>4. heap \in Seq(Seq(Value)) /\ Len(heap) \in Nat /\ DOMAIN heap = 1 .. Len(heap)
  BY HeapFacts
<1>5. nullptr \notin HeapContexts /\ nullptr \notin HeapContexts'
  BY DEF HeapContexts, nullptr, uvalue
<1>6. CASE program.code[ip].op = "FN_ENTER_HEAP"
  <2>1. PICK block : block = NewHeapContext(program.code[ip].op1, Top)
    OBVIOUS
  <2>2. heap' = Append(heap, block)
    BY <1>6, <2>1 DEF EnterStep, EnterHeap
  <2>3. ~Leaf
    <3>1. ip \in EntriesOf(program) /\ Frame.entry = program.entry[ip] /\ program.entry[ip] = ip
      BY <1>1, FrameFacts, EntryFacts
    <3> QED
      BY <1>6, <3>1 DEF Leaf, IsStackFunction
  <2>4. Len(block) = FrameSize(program, Frame.entry) /\ block[1] = Frame.parent
    <3>1. PICK size : /\ size = program.code[ip].op1
                      /\ size = FrameSize(program, Frame.entry)
                      /\ size \in Nat \ {0}
      BY <1>1, EnteringFacts
    <3>2. block = [i \in 1 .. size |-> InitCallContext(i - 1, Top, undef)]
      BY <2>1, <3>1 DEF NewHeapContext
    <3>3. Len(block) = size /\ block[1] = InitCallContext(0, Top, undef)
      BY <3>1, <3>2
    <3> QED
      BY <1>1, <3>1, <3>3, EnteringFacts DEF InitCallContext
  <2>5. PICK new : new = Len(heap) + 1 /\ new \in Nat /\ new \notin DOMAIN heap
    BY <1>4
  <2>6. /\ DOMAIN heap' = DOMAIN heap \cup {new}
        /\ heap'[new] = block
        /\ \A n \in DOMAIN heap : heap'[n] = heap[n]
    <3>1. heap \in Seq(Seq(Value) \cup {block})
      BY <1>4
    <3> QED
      BY <1>4, <2>2, <2>5, <3>1, AppendIndexes
  <2>7. PICK longer : longer = [n \in DOMAIN heap' |-> IF n = new THEN Frame.entry ELSE owner[n]]
    OBVIOUS
  <2>8. /\ longer \in [DOMAIN heap' -> EntriesOf(program)]
        /\ \A n \in DOMAIN heap : longer[n] = owner[n]
        /\ longer[new] = Frame.entry
    BY <1>3, <2>5, <2>6, <2>7 DEF ScopedBy
  <2>9. /\ HeapContexts' = HeapContexts \cup {<<"heap", new>>}
        /\ <<"heap", new>> \notin HeapContexts
    BY <2>5, <2>6 DEF HeapContexts
  <2>10. \A c \in HeapContexts : longer[c[2]] = owner[c[2]]
    BY <2>8, HeapContextFacts
  <2>11. ASSUME NEW k \in 1 .. Depth
         PROVE  RecordedActs[k].ctx \in HeapContexts' => RecordedActs[k].ctx \in HeapContexts
    <3>1. RecordedActs[k].ctx \in MayBeParent
      BY ContextOfAct
    <3> QED
      BY <1>5, <3>1 DEF MayBeParent
  <2>12. ASSUME NEW k \in 1 .. Depth
         PROVE  /\ Captured(RecordedActs'[k].parent, frames'[k].entry)
                /\ RecordedActs'[k].ctx \in HeapContexts' =>
                     longer[RecordedActs'[k].ctx[2]] = frames'[k].entry
    <3>1. CASE k = Depth
      <4>1. PICK act : act = RecordedActs'[Depth]
        OBVIOUS
      <4>2. act.parent = Frame.parent /\ act.ctx = <<"heap", new>>
        BY <1>2, <2>3, <2>5, <4>1
      <4>3. act.ctx[2] = new
        BY <4>2
      <4>4. frames'[k].entry = Frame.entry
        BY <1>1, <3>1 DEF Frame
      <4> QED
        BY <1>3, <2>8, <3>1, <4>1, <4>2, <4>3, <4>4
    <3>2. CASE k # Depth
      BY <1>1, <1>2, <2>9, <2>10, <2>11, <3>2, LinksStay
    <3> QED
      BY <3>1, <3>2
  <2>13. \A n \in DOMAIN heap' \ DOMAIN heap :
           /\ Len(heap'[n]) = FrameSize(program, longer[n])
           /\ Captured(heap'[n][1], longer[n])
    BY <1>3, <2>4, <2>6, <2>8
  <2>14. /\ DOMAIN heap \subseteq DOMAIN heap'
         /\ \A n \in DOMAIN heap : /\ longer[n] = owner[n]
                                   /\ Len(heap'[n]) = Len(heap[n])
                                   /\ heap'[n][1] = heap[n][1]
    BY <2>6, <2>8
  <2>15. ScopedBy(longer)'
    BY <1>1, <1>2, <2>8, <2>12, <2>13, <2>14, ScopesStay
  <2> QED
    BY <2>15
<1>7. CASE program.code[ip].op = "FN_ENTER_STACK"
  <2>1. heap' = heap /\ HeapContexts' = HeapContexts
    BY <1>7 DEF EnterStep, EnterStack, HeapContexts
  <2>2. Leaf
    <3>1. ip \in EntriesOf(program) /\ Frame.entry = program.entry[ip] /\ program.entry[ip] = ip
      BY <1>1, FrameFacts, EntryFacts
    <3> QED
      BY <1>7, <3>1 DEF Leaf, IsStackFunction
  <2>3. ASSUME NEW k \in 1 .. Depth
        PROVE  /\ Captured(RecordedActs'[k].parent, frames'[k].entry)
               /\ RecordedActs'[k].ctx \in HeapContexts' =>
                    owner[RecordedActs'[k].ctx[2]] = frames'[k].entry
    <3>1. CASE k = Depth
      BY <1>1, <1>2, <1>3, <1>5, <2>2, <3>1 DEF Frame
    <3>2. CASE k # Depth
      BY <1>1, <1>2, <2>1, <3>2, LinksStay
    <3> QED
      BY <3>1, <3>2
  <2>4. owner \in [DOMAIN heap' -> EntriesOf(program)]
    BY <2>1 DEF ScopedBy
  <2>5. ScopedBy(owner)'
    BY <1>1, <1>2, <2>1, <2>3, <2>4, ScopesStay
  <2> QED
    BY <2>5
<1> QED
  BY <1>6, <1>7 DEF EnterStep

(* What is called is a closure. *)
LEMMA CallScopes ==
  ASSUME CallingConvention, CallingConvention', NEW linkage, CallStep(linkage),
         NEW owner, ScopedBy(owner)
  PROVE  ScopedBy(owner)'
<1>1. UNCHANGED <<program, heap, fn_refs>> /\ HeapContexts' = HeapContexts
  BY DEF CallStep, HeapContexts
<1>2. PICK v, r : /\ v = Local(program.code[ip].op1)
                  /\ r = v[2] /\ r \in DOMAIN fn_refs
                  /\ Callee(v) = fn_refs[r]
  BY DEF CallStep, IsFnRef, Callee
<1>3. /\ Depth' = Depth + 1
      /\ \A k \in 1 .. Depth : SameLinks(k)
      /\ RecordedActs'[Depth + 1].parent = fn_refs[r].parent
      /\ RecordedActs'[Depth + 1].ctx = nullptr
  BY <1>2, CallLinks
<1>4. /\ \A k \in 1 .. Depth : frames'[k] = frames[k]
      /\ frames'[Depth + 1].entry = fn_refs[r].entry
  <2>1. CalledFrame(linkage).entry = Callee(v).entry
    BY <1>2, Zenon, CalledFrameFields
  <2>2. /\ \A k \in 1 .. Depth : frames'[k] = frames[k]
        /\ frames'[Depth + 1] = CalledFrame(linkage)
    BY CallHistory
  <2> QED
    BY <1>2, <2>1, <2>2, Zenon
<1>5. nullptr \notin HeapContexts
  BY DEF HeapContexts, nullptr, uvalue
<1>6. \A k \in 1 .. Depth' : k \in 1 .. Depth \/ k = Depth + 1
  BY <1>3, ActsFacts
<1>7. ASSUME NEW k \in 1 .. Depth'
      PROVE  /\ Captured(RecordedActs'[k].parent, frames'[k].entry)
             /\ RecordedActs'[k].ctx \in HeapContexts' =>
                  owner[RecordedActs'[k].ctx[2]] = frames'[k].entry
  <2>1. CASE k \in 1 .. Depth
    BY <1>1, <1>3, <1>4, <2>1, LinksStay
  <2>2. CASE k = Depth + 1
    BY <1>1, <1>2, <1>3, <1>4, <1>5, <2>2 DEF Captured
  <2> QED
    BY <1>6, <2>1, <2>2
<1>8. owner \in [DOMAIN heap' -> EntriesOf(program)]
  BY <1>1 DEF ScopedBy
<1> QED
  BY <1>1, <1>7, <1>8, ScopesStay

(* The result of a function is never stored into slot 0. *)
LEMMA ReturnScopes ==
  ASSUME CallingConvention, ReturnStep, CallingConvention', NEW owner, ScopedBy(owner)
  PROVE  ScopedBy(owner)'
<1>1. UNCHANGED <<program, fn_refs>>
  BY DEF ReturnStep
<1>2. /\ DOMAIN heap' = DOMAIN heap
      /\ \A n \in DOMAIN heap : Len(heap'[n]) = Len(heap[n]) /\ heap'[n][1] = heap[n][1]
  BY ResultStores
<1>3. HeapContexts' = HeapContexts
  BY <1>2 DEF HeapContexts
<1>4. \A k \in 1 .. Depth' : frames'[k] = frames[k]
  BY ReturnHistory
<1>5. \A k \in 1 .. Depth' : k \in 1 .. Depth /\ SameLinks(k)
  BY ReturnLinks
<1>6. \A k \in 1 .. Depth' :
        /\ Captured(RecordedActs'[k].parent, frames'[k].entry)
        /\ RecordedActs'[k].ctx \in HeapContexts' =>
             owner[RecordedActs'[k].ctx[2]] = frames'[k].entry
  BY <1>3, <1>4, <1>5, LinksStay
<1>7. owner \in [DOMAIN heap' -> EntriesOf(program)]
  BY <1>2 DEF ScopedBy
<1> QED
  BY <1>1, <1>2, <1>6, <1>7, ScopesStay

(* So every step of an engine keeps the scopes. *)
LEMMA ScopeSteps ==
  ASSUME CallingConvention, FrameStep, ContextsScoped
  PROVE  ContextsScoped'
<1>1. CallingConvention'
  BY FrameSteps
<1>2. PICK owner : ScopedBy(owner)
  BY DEF ContextsScoped
<1>3. CASE LocalStep
  BY <1>1, <1>2, <1>3, LocalScopes DEF ContextsScoped
<1>4. CASE EnterStep
  BY <1>1, <1>2, <1>4, EnterScopes DEF ContextsScoped
<1>5. CASE \E linkage \in Seq(Value) : CallStep(linkage)
  BY <1>1, <1>2, <1>5, CallScopes DEF ContextsScoped
<1>6. CASE ReturnStep
  BY <1>1, <1>2, <1>6, ReturnScopes DEF ContextsScoped
<1>7. CASE StopStep
  <2>1. UNCHANGED <<program, ip, value_stack, stack_pointer, context_object, heap, fn_refs,
                    frames>>
    BY <1>7 DEF StopStep
  <2>2. RecordedActs' = RecordedActs
    BY <2>1 DEF RecordedActs, Recorded, ResumeOf, OwnContext, Entered, Entering, OperandsEnd,
       ArgumentsStart, ActivationOf, Depth
  <2>3. Depth' = Depth /\ HeapContexts' = HeapContexts
    BY <2>1 DEF Depth, HeapContexts
  <2>4. ScopedBy(owner)'
    BY <1>2, <2>1, <2>2, <2>3 DEF ScopedBy, Captured
  <2> QED
    BY <2>4 DEF ContextsScoped
<1> QED
  BY <1>3, <1>4, <1>5, <1>6, <1>7 DEF FrameStep

(* Nothing is captured when an engine starts. *)
LEMMA ScopesStart ==
  ASSUME SharedInit, RecordStart
  PROVE  ContextsScoped
<1>1. /\ heap = << >> /\ fn_refs = << >> /\ frames = <<RootFrame>> /\ Depth = 1
      /\ DOMAIN heap = {} /\ DOMAIN fn_refs = {}
      /\ HeapContexts = {}
  BY DEF SharedInit, RecordStart, Depth, HeapContexts
<1>2. frames[1].entry = 0
  BY <1>1 DEF RootFrame
<1>3. PICK owner : owner = [n \in {} |-> 0]
  OBVIOUS
<1>4. owner \in [{} -> EntriesOf(program)]
  BY <1>3
<1>5. \A k \in 1 .. Depth : k = 1
  BY <1>1
<1>6. ScopedBy(owner)
  BY <1>1, <1>2, <1>4, <1>5 DEF ScopedBy, Captured
<1> QED
  BY <1>6 DEF ContextsScoped

AreScopes(scope, p, e, d) ==
  scope = [n \in 0 .. d |-> IF n = 0 THEN e ELSE Outer(p, scope[n - 1])]

(* The functions around a function are defined, as far as one asks.        *)
LEMMA ScopesDefined ==
  ASSUME NEW p, NEW e, NEW d, d \in Nat
  PROVE  \E scope : AreScopes(scope, p, e, d)
<1> DEFINE bad == {m \in Nat : \A scope : ~AreScopes(scope, p, e, m)}
<1>1. SUFFICES ASSUME bad # {}
               PROVE  FALSE
  OBVIOUS
<1> USE DEF AreScopes
<1>2. PICK m \in bad : \A n \in bad : m <= n
  <2>1. bad \subseteq Nat
    OBVIOUS
  <2> HIDE DEF bad
  <2> QED
    BY <1>1, <2>1, Smallest
<1>3. CASE m = 0
  <2>1. PICK scope : scope = [n \in 0 .. m |-> e]
    OBVIOUS
  <2>2. AreScopes(scope, p, e, m)
    BY <1>3, <2>1
  <2> QED
    BY <1>2, <2>2
<1>4. CASE m # 0
  <2>1. PICK before : before = m - 1 /\ before \in Nat /\ m = before + 1
    BY <1>2, <1>4
  <2>2. before \notin bad
    <3>1. ~(m <= before)
      BY <2>1
    <3> HIDE DEF bad
    <3> QED
      BY <1>2, <3>1
  <2>3. PICK scope : AreScopes(scope, p, e, before)
    BY <2>1, <2>2
  <2>4. PICK longer :
          longer = [n \in 0 .. m |-> IF n = m THEN Outer(p, scope[before]) ELSE scope[n]]
    OBVIOUS
  <2>5. ASSUME NEW n \in 0 .. m
        PROVE  longer[n] = IF n = 0 THEN e ELSE Outer(p, longer[n - 1])
    <3>1. CASE n = m
      <4>1. n # 0 /\ n - 1 = before /\ before \in 0 .. m /\ before # m
        BY <1>2, <2>1, <3>1
      <4> QED
        BY <2>4, <3>1, <4>1
    <3>2. CASE n # m
      <4>1. n \in 0 .. before
        BY <1>2, <2>1, <3>2
      <4>2. n # 0 => n - 1 \in 0 .. m /\ n - 1 # m
        BY <1>2
      <4>3. scope[n] = IF n = 0 THEN e ELSE Outer(p, scope[n - 1])
        BY <2>3, <4>1
      <4> QED
        BY <2>4, <3>2, <4>2, <4>3
    <3> QED
      BY <3>1, <3>2
  <2>6. AreScopes(longer, p, e, m)
    BY <2>4, <2>5
  <2> QED
    BY <1>2, <2>6
<1> QED
  BY <1>3, <1>4

ScopeOut(owner, c, f) ==
  /\ \E r \in DOMAIN fn_refs : fn_refs[r].parent = c /\ fn_refs[r].entry = f
  /\ c \in HeapContexts
  /\ owner[c[2]] = Outer(program, f)
  /\ Outer(program, f) \in EntriesOf(program)
  /\ Len(heap[c[2]]) = FrameSize(program, Outer(program, f))
  /\ Captured(ParentOf(c), Outer(program, f))

(* One step of the walk: the parent of a context of f is one of the        *)
(* function around f, and its own parent is right as well.                 *)
LEMMA OneScopeOut ==
  ASSUME CallingConvention, NEW owner, ScopedBy(owner),
         NEW c, NEW f, f \in EntriesOf(program), Captured(c, f), Creators(program, f) # {}
  PROVE  ScopeOut(owner, c, f)
<1>1. program \in Programs
  BY FrameFacts
<1>2. f # 0 /\ Outer(program, f) \in EntriesOf(program)
  BY <1>1, CreatorFacts
<1>3. PICK r \in DOMAIN fn_refs : fn_refs[r].parent = c /\ fn_refs[r].entry = f
  BY <1>2 DEF Captured
<1>4. c \in HeapContexts
  BY <1>3, StateFacts
<1>5. c[2] \in DOMAIN heap /\ ~OnStack(c)
  BY <1>4, HeapContextFacts
<1>6. owner[c[2]] = Outer(program, f)
  BY <1>3 DEF ScopedBy
<1>7. ParentOf(c) = heap[c[2]][1]
  BY <1>4, <1>5 DEF ParentOf, Contexts, Slot
<1>8. Len(heap[c[2]]) = FrameSize(program, owner[c[2]]) /\ Captured(heap[c[2]][1], owner[c[2]])
  BY <1>5 DEF ScopedBy
<1> QED
  BY <1>2, <1>3, <1>4, <1>6, <1>7, <1>8 DEF ScopeOut

(* The whole walk. *)
LEMMA WalkFollowsScopes ==
  ASSUME CallingConvention, NEW owner, ScopedBy(owner), ~Entering,
         NEW depth, depth \in Nat, depth > 0, NEW around, around = Scopes(program, Frame.entry, depth),
         \A n \in 0 .. depth - 1 : Creators(program, around[n]) # {}
  PROVE  /\ around[depth - 1] \in EntriesOf(program)
         /\ around[depth] = Outer(program, around[depth - 1])
         /\ Captured(Ancestor(depth), around[depth - 1])
<1> DEFINE Walk(up) == [n \in 0 .. depth - 1 |->
                          IF n = 0 THEN context_object ELSE ParentOf(up[n - 1])]
           up == CHOOSE up : up = Walk(up)
           Around(scope) == [n \in 0 .. depth |->
                               IF n = 0 THEN Frame.entry ELSE Outer(program, scope[n - 1])]
           chosen == CHOOSE scope : scope = Around(scope)
<1>1. PICK last \in Nat : last = depth - 1 /\ depth = last + 1
  OBVIOUS
<1>2. up = Walk(up)
  <2>1. \E w : w = Walk(w)
    BY <1>1, WalkDefined
  <2> HIDE DEF Walk
  <2> QED
    BY <2>1
<1>3. chosen = Around(chosen)
  <2>1. \E w : w = Around(w)
    <3>1. PICK p, e : p = program /\ e = Frame.entry
      OBVIOUS
    <3>2. \E w : AreScopes(w, p, e, depth)
      BY ScopesDefined, Zenon
    <3> QED
      BY <3>1, <3>2 DEF AreScopes
  <2> HIDE DEF Around
  <2> QED
    BY <2>1
<1>4. around = chosen
  BY DEF Scopes
<1>5. /\ \A n \in 0 .. last : up[n] = IF n = 0 THEN context_object ELSE ParentOf(up[n - 1])
      /\ Ancestor(depth) = ParentOf(up[last])
  <2>1. Ancestor(depth) = ParentOf(up[last])
    BY <1>1 DEF Ancestor
  <2> HIDE DEF up
  <2> QED
    BY <1>1, <1>2, <2>1
<1>6. \A n \in 0 .. depth :
        around[n] = IF n = 0 THEN Frame.entry ELSE Outer(program, around[n - 1])
  <2> HIDE DEF chosen
  <2> QED
    BY <1>3, <1>4
<1> HIDE DEF up, Walk, chosen, Around
<1>7. Captured(ParentOf(up[0]), around[0]) /\ around[0] \in EntriesOf(program)
  <2>1. 0 \in 0 .. last /\ 0 \in 0 .. depth
    BY <1>1
  <2>2. up[0] = context_object /\ around[0] = Frame.entry
    BY <1>5, <1>6, <2>1
  <2>3. ParentOf(context_object) = Local(0)
    BY DEF ParentOf, Contexts, Local
  <2>4. Current.parent = Local(0)
    BY CurrentFacts, ActivationFields
  <2>5. Captured(Current.parent, Frame.entry)
    BY ActsFacts DEF ScopedBy, Frame
  <2> QED
    BY <2>2, <2>3, <2>4, <2>5, FrameFacts, AddressFacts
<1>8. \A n \in 0 .. last : Captured(ParentOf(up[n]), around[n]) /\ around[n] \in EntriesOf(program)
  <2> DEFINE strays == {n \in 0 .. last : ~(/\ Captured(ParentOf(up[n]), around[n])
                                            /\ around[n] \in EntriesOf(program))}
  <2>1. SUFFICES ASSUME strays # {}
                 PROVE  FALSE
    OBVIOUS
  <2>2. PICK n \in strays : \A m \in strays : n <= m
    <3>1. strays \subseteq Nat
      OBVIOUS
    <3> HIDE DEF strays
    <3> QED
      BY <2>1, <3>1, Smallest
  <2>3. n # 0
    BY <1>7, <2>2
  <2>4. PICK m : m = n - 1 /\ m \in 0 .. last /\ m \in 0 .. depth - 1 /\ ~(n <= m)
    BY <1>1, <2>2, <2>3
  <2>5. Captured(ParentOf(up[m]), around[m]) /\ around[m] \in EntriesOf(program)
    BY <2>2, <2>4
  <2>6. PICK c, f : c = ParentOf(up[m]) /\ f = around[m]
    OBVIOUS
  <2>7. Captured(ParentOf(c), Outer(program, f)) /\ Outer(program, f) \in EntriesOf(program)
    BY <2>4, <2>5, <2>6, OneScopeOut DEF ScopeOut
  <2>8. n \in 0 .. last /\ n \in 0 .. depth
    BY <1>1, <2>2
  <2>9. up[n] = c /\ around[n] = Outer(program, f)
    BY <1>5, <1>6, <2>3, <2>4, <2>6, <2>8
  <2> QED
    BY <2>2, <2>7, <2>9
<1>9. last \in 0 .. last /\ depth \in 0 .. depth /\ depth # 0
  BY <1>1
<1>10. around[depth] = Outer(program, around[last])
  BY <1>1, <1>6, <1>9
<1> QED
  BY <1>1, <1>5, <1>8, <1>9, <1>10

(* The owners a context can be seen to have are its owner. *)
LEMMA OwnersAgree ==
  ASSUME CallingConvention, NEW owner, ScopedBy(owner), NEW c, c \in HeapContexts
  PROVE  OwnersOf(c) \subseteq {owner[c[2]]}
<1>1. ASSUME NEW k \in 1 .. Depth, Entered(k), OwnContext(k) = c
      PROVE  frames[k].entry = owner[c[2]]
  <2>1. ~IsStackFunction(program, frames[k].entry)
    <3>1. <<"stack", frames[k].base>> \notin HeapContexts
      BY DEF HeapContexts
    <3> QED
      BY <1>1, <3>1 DEF CallingConvention, ContextsOwned
  <2>2. Recorded(k).ctx = c
    BY <1>1, <2>1, ActivationFields DEF Recorded, ActivationOf
  <2>3. RecordedActs[k].ctx = c
    BY <2>2, ActsFacts
  <2> QED
    BY <2>3 DEF ScopedBy
<1>2. ASSUME NEW r \in DOMAIN fn_refs, fn_refs[r].parent = c
      PROVE  Outer(program, fn_refs[r].entry) = owner[c[2]]
  BY <1>2 DEF ScopedBy
<1> QED
  BY <1>1, <1>2 DEF OwnersOf

(* What a walk finds is the context of the function the compiler means.    *)
LEMMA WalksAreLexical ==
  ASSUME CallingConvention, ContextsScoped
  PROVE  ScopesAreLexical
<1> SUFFICES ASSUME program.code[ip].op \in ParentAccess
             PROVE  LET context == Ancestor(program.code[ip].op1)
                        scope == AskedScope(program, ip) IN
                    /\ context \in HeapContexts
                    /\ OwnersOf(context) = {scope}
                    /\ Len(heap[context[2]]) = FrameSize(program, scope)
                    /\ HasSlot(context, SlotInParent(program.code[ip]))
  BY DEF ScopesAreLexical
<1>1. PICK owner : ScopedBy(owner)
  BY DEF ContextsScoped
<1>2. PICK i : i = program.code[ip]
  OBVIOUS
<1>3. /\ ~Entering
      /\ i.op1 \in Nat \ {0}
      /\ i.op2 \in Nat /\ i.dest \in Nat
  BY <1>2, InstructionFacts DEF ParentAccess, FnEnters, WellFormedAt
<1>4. program \in Programs /\ ip \in Addresses(program) /\ program.entry[ip] = Frame.entry
  BY FrameFacts
<1>5. PICK depth : depth = i.op1 /\ depth \in Nat /\ depth > 0
  BY <1>3
<1>6. PICK around : around = Scopes(program, Frame.entry, depth)
  OBVIOUS
<1>7. /\ \A n \in 0 .. depth - 1 : Creators(program, around[n]) # {}
      /\ SlotInParent(i) < FrameSize(program, around[depth])
  BY <1>2, <1>4, <1>5, <1>6, ScopesAssumption DEF WellScoped
<1>8. PICK c, inner, f : c = Ancestor(depth) /\ inner = around[depth - 1] /\ f = around[depth]
  OBVIOUS
<1>9. /\ inner \in EntriesOf(program)
      /\ f = Outer(program, inner)
      /\ Captured(c, inner)
  BY <1>1, <1>3, <1>5, <1>6, <1>7, <1>8, WalkFollowsScopes
<1>10. Creators(program, inner) # {}
  BY <1>5, <1>7, <1>8
<1>11. /\ c \in HeapContexts
       /\ \E r \in DOMAIN fn_refs : fn_refs[r].parent = c /\ fn_refs[r].entry = inner
       /\ owner[c[2]] = f
       /\ f \in EntriesOf(program)
       /\ Len(heap[c[2]]) = FrameSize(program, f)
  <2>1. /\ \E r \in DOMAIN fn_refs : fn_refs[r].parent = c /\ fn_refs[r].entry = inner
        /\ c \in HeapContexts
        /\ owner[c[2]] = Outer(program, inner)
        /\ Outer(program, inner) \in EntriesOf(program)
        /\ Len(heap[c[2]]) = FrameSize(program, Outer(program, inner))
    <3>1. ScopeOut(owner, c, inner)
      BY <1>1, <1>9, <1>10, OneScopeOut
    <3> QED
      BY <3>1 DEF ScopeOut
  <2> QED
    BY <1>9, <2>1, Zenon
<1>12. OwnersOf(c) = {f}
  <2>1. OwnersOf(c) \subseteq {f}
    BY <1>1, <1>11, OwnersAgree
  <2>2. f \in OwnersOf(c)
    BY <1>9, <1>11 DEF OwnersOf
  <2> QED
    BY <2>1, <2>2
<1>13. HasSlot(c, SlotInParent(i))
  <2>1. c[2] \in DOMAIN heap /\ ~OnStack(c) /\ heap[c[2]] \in Seq(Value)
    BY <1>11, HeapContextFacts, HeapFacts
  <2>2. PICK slot, size : slot = SlotInParent(i) /\ size = FrameSize(program, f)
    OBVIOUS
  <2>3. slot \in Nat /\ size \in Nat /\ slot < size
    BY <1>3, <1>4, <1>7, <1>8, <1>11, <2>2, EntryFacts DEF SlotInParent
  <2>4. DOMAIN heap[c[2]] = 1 .. size
    BY <1>11, <2>1, <2>2
  <2>5. slot + 1 \in DOMAIN heap[c[2]]
    BY <2>3, <2>4
  <2> QED
    BY <2>1, <2>2, <2>5 DEF HasSlot
<1>14. AskedScope(program, ip) = f
  BY <1>2, <1>4, <1>5, <1>6, <1>8 DEF AskedScope
<1> QED
  BY <1>2, <1>5, <1>8, <1>11, <1>12, <1>13, <1>14

-----------------------------------------------------------------------------
(* Undefined behaviour *)

(* The operand of the next instruction is not what the handler takes it    *)
(* for: a division that traps, or a word of the wrong kind.                *)
OperandAtFault ==
  LET i == program.code[ip] IN
  \/ /\ i.op \in {"DIV_INT", "MOD_INT"}
     /\ \A m \in HighWords(Local(i.op1)), n \in HighWords(Local(i.op2)) : Traps(m, n)
  \/ i.op = "ADD_STRING" /\ ~(Local(i.op1)[1] = "str" /\ Local(i.op2)[1] = "str")
  \/ i.op = "CALL" /\ Local(i.op1)[1] \notin {"fnref", "null"}
  \/ i.op = "CALL_NATIVE" /\ Local(i.op1) \notin {uvalue(n) : n \in 0 .. NativeCount - 1}

(* An operator has a result but for a division that traps, and but for a   *)
(* concatenation of what are no strings.                                   *)
LEMMA NoResult ==
  ASSUME NEW o \in BinaryOpcodes, NEW v, NEW w, BinaryResults(o, v, w) = {}
  PROVE  \/ o \in {"DIV_INT", "MOD_INT"} /\ \A m \in HighWords(v), n \in HighWords(w) : Traps(m, n)
         \/ o = "ADD_STRING" /\ ~(v[1] = "str" /\ w[1] = "str")
<1>1. /\ HighWords(v) # {} /\ HighWords(w) # {}
      /\ Decimals(v) # {} /\ Decimals(w) # {}
  BY DEF HighWords, NonFiniteBits, Unspecified, Decimals, FloatsOfBits, AnyFloat
<1>2. CASE o \in IntArithmetic
  <2>1. IntOutcomes(o, v, w) = {}
    BY <1>2, SMT DEF BinaryResults, IntArithmetic, DecimalArithmetic, IntComparisons
  <2>2. ASSUME NEW m \in HighWords(v), NEW n \in HighWords(w)
        PROVE  IntResults(o, m, n) = {}
    <3>1. \A r \in IntResults(o, m, n) : ivalue(r) \in IntOutcomes(o, v, w)
      BY DEF IntOutcomes
    <3> QED
      BY <2>1, <3>1
  <2>3. \A m, n : IntResults(o, m, n) = {} => o \in {"DIV_INT", "MOD_INT"} /\ Traps(m, n)
    BY <1>2 DEF IntResults, IntArithmetic
  <2> QED
    BY <1>1, <2>2, <2>3
<1>3. CASE o \in DecimalArithmetic
  <2>1. DecimalOutcomes(o, v, w) = {}
    BY <1>3, SMT DEF BinaryResults, IntArithmetic, DecimalArithmetic, IntComparisons
  <2>2. \A a, b : DecimalResults(o, a, b) # {}
    BY DEF DecimalResults, NonFiniteResults
  <2> QED
    BY <1>1, <2>1, <2>2 DEF DecimalOutcomes
<1>4. CASE o = "ADD_STRING"
  <2>1. Concatenation(v, w) = {}
    BY <1>4, SMT DEF BinaryResults, IntArithmetic, DecimalArithmetic, IntComparisons
  <2> QED
    BY <1>4, <2>1 DEF Concatenation
<1>5. CASE o \in IntComparisons
  <2>1. IntComparisonOutcomes(o, v, w) = {}
    BY <1>5, SMT DEF BinaryResults, IntArithmetic, DecimalArithmetic, IntComparisons
  <2> QED
    BY <1>1, <2>1 DEF IntComparisonOutcomes
<1>6. CASE o \in DecimalComparisons
  <2>1. DecimalGreaterOutcomes(v, w) = {} \/ DecimalComparisonOutcomes(o, v, w) = {}
    BY <1>6, SMT DEF BinaryResults, IntArithmetic, DecimalArithmetic, IntComparisons,
       DecimalComparisons
  <2>2. \A a, n : DecimalGreater(a, n) # {}
    BY DEF DecimalGreater, Either
  <2>3. \A a, b : DecimalComparison(o, a, b) # {}
    BY DEF DecimalComparison, Either
  <2> QED
    BY <1>1, <2>1, <2>2, <2>3 DEF DecimalGreaterOutcomes, DecimalComparisonOutcomes
<1> QED
  BY <1>2, <1>3, <1>4, <1>5, <1>6 DEF BinaryOpcodes, Comparisons

(* An access to an enclosing context finds its slot. *)
LEMMA EnclosingSlotThere ==
  ASSUME CallingConvention, ScopesAreLexical, program.code[ip].op \in ParentAccess
  PROVE  /\ Ancestor(program.code[ip].op1) \in Contexts
         /\ HasSlot(Ancestor(program.code[ip].op1), SlotInParent(program.code[ip]))
BY DEF ScopesAreLexical, Contexts

(* A word that is called and is no reference has no reference's tag.       *)
LEMMA CalledKnown ==
  ASSUME CallingConvention, WordsKnown, program.code[ip].op = "CALL",
         ~IsNull(Local(program.code[ip].op1)), ~IsFnRef(Local(program.code[ip].op1))
  PROVE  Local(program.code[ip].op1)[1] \notin {"fnref", "null"}
<1>1. ~Entering
  BY InstructionFacts DEF FnEnters
<1>2. program.code[ip].op1 \in 0 .. FrameSize(program, Frame.entry) - 1
  BY InstructionFacts DEF WellFormedAt, SlotsRead
<1>3. Known(Local(program.code[ip].op1), fn_refs)
  BY <1>1, <1>2, LocalsKnown
<1> QED
  BY <1>3 DEF Known, IsNull, IsFnRef

-----------------------------------------------------------------------------
(* Variables *)

(* Every activation has a context of its own: also the activations of one  *)
(* function that calls itself never share their variables.                 *)
ContextsApart ==
  \A j, k \in 1 .. Depth : j # k /\ RecordedActs[j].ctx # nullptr =>
    RecordedActs[j].ctx # RecordedActs[k].ctx

(* A new context is none of those there were, and no other step gives an   *)
(* activation a context.                                                   *)
LEMMA ApartSteps ==
  ASSUME CallingConvention, FrameStep, ContextsApart
  PROVE  ContextsApart'
<1>1. CallingConvention'
  BY FrameSteps
<1>2. PICK d : d = Depth /\ d \in Nat \ {0}
  BY ActsFacts
<1>3. CASE \A k \in 1 .. Depth' : k \in 1 .. Depth /\ SameLinks(k)
  BY <1>3 DEF ContextsApart, SameLinks
<1>4. CASE LocalStep
  <2>1. Depth' = Depth /\ \A k \in 1 .. Depth : SameLinks(k)
    BY <1>4, LocalLinks
  <2> QED
    BY <1>3, <2>1
<1>5. CASE EnterStep
  <2>1. PICK ctx : ctx = IF Leaf THEN nullptr ELSE <<"heap", Len(heap) + 1>>
    OBVIOUS
  <2>2. /\ Depth' = d
        /\ \A k \in 1 .. d : k # d => RecordedActs'[k].ctx = RecordedActs[k].ctx
        /\ RecordedActs'[d].ctx = ctx
    BY <1>1, <1>2, <1>5, <2>1, EnterLinks DEF SameLinks
  <2>3. ctx \notin HeapContexts /\ (ctx # nullptr => ctx \notin MayBeParent)
    <3>1. Len(heap) + 1 \notin DOMAIN heap
      BY HeapFacts
    <3> QED
      BY <2>1, <3>1 DEF HeapContexts, MayBeParent, nullptr, uvalue
  <2>4. \A k \in 1 .. d : RecordedActs[k].ctx \in MayBeParent
    BY <1>2, ContextOfAct
  <2> QED
    BY <1>2, <2>2, <2>3, <2>4 DEF ContextsApart
<1>6. CASE \E linkage \in Seq(Value) : CallStep(linkage)
  <2>1. /\ Depth' = d + 1
        /\ \A k \in 1 .. d : RecordedActs'[k].ctx = RecordedActs[k].ctx
        /\ RecordedActs'[d + 1].ctx = nullptr
    BY <1>2, <1>6, CallLinks DEF SameLinks
  <2>2. \A k \in 1 .. d + 1 : k \in 1 .. d \/ k = d + 1
    BY <1>2
  <2> QED
    BY <1>2, <2>1, <2>2 DEF ContextsApart
<1>7. CASE ReturnStep
  BY <1>1, <1>3, <1>7, ReturnLinks
<1>8. CASE StopStep
  <2>1. UNCHANGED <<program, ip, value_stack, stack_pointer, context_object, heap, frames>>
    BY <1>8 DEF StopStep
  <2>2. RecordedActs' = RecordedActs /\ Depth' = Depth
    BY <2>1 DEF RecordedActs, Recorded, ResumeOf, OwnContext, Entered, Entering, OperandsEnd,
       ArgumentsStart, ActivationOf, Depth
  <2> QED
    BY <2>2 DEF ContextsApart
<1> QED
  BY <1>4, <1>5, <1>6, <1>7, <1>8 DEF FrameStep

(* One activation has nobody to share with. *)
LEMMA ApartStart ==
  ASSUME RecordStart
  PROVE  ContextsApart
<1>1. Depth = 1
  BY DEF RecordStart, Depth
<1> QED
  BY <1>1 DEF ContextsApart

(* The slot is a word of the running activation's own: above everything    *)
(* that belongs to the others and below the operands, or in a block of the *)
(* heap that is no other activation's context.                             *)
OwnSlot(s) ==
  \/ /\ IsStackFunction(program, Frame.entry)
     /\ context_object = <<"stack", Frame.base>>
     /\ Frame.base + s \in Frame.base .. ContextEnd(Depth) - 1
     /\ ContextEnd(Depth) <= stack_pointer
     /\ \A k \in 1 .. Depth - 1 : ContextEnd(k) < Frame.base
  \/ /\ ~IsStackFunction(program, Frame.entry)
     /\ context_object \in HeapContexts
     /\ s + 1 \in DOMAIN heap[context_object[2]]
     /\ \A k \in 1 .. Depth - 1 : OwnContext(k) # context_object

(* So is every slot of its frame. *)
LEMMA SlotsOfFrame ==
  ASSUME CallingConvention, ContextsApart, ~Entering,
         NEW s \in 0 .. FrameSize(program, Frame.entry) - 1
  PROVE  OwnSlot(s)
<1>1. PICK d, size \in Nat : /\ d = Depth /\ d \in Nat \ {0} /\ d \in 1 .. d
                             /\ size = FrameSize(program, Frame.entry) /\ s \in 0 .. size - 1
  BY FrameFacts DEF Frame
<1>2. CASE IsStackFunction(program, Frame.entry)
  <2>1. PICK base \in Nat : base = Frame.base /\ ContextEnd(Depth) = base + size
    BY <1>1, <1>2, ContextFacts, FrameFacts DEF Frame
  <2>2. base + s \in base .. (base + size) - 1
    BY <1>1
  <2>3. \A k \in 1 .. d - 1 : k \in 1 .. d /\ k < d
    BY <1>1
  <2>4. \A k \in 1 .. Depth - 1 : ContextEnd(k) < Frame.base
    BY <1>1, <2>3, BelowBase
  <2>5. ContextEnd(Depth) <= stack_pointer
    BY FrameFacts, <1>1, <2>1, StateFacts
  <2> QED
    BY <1>2, <2>1, <2>2, <2>4, <2>5, ContextFacts DEF OwnSlot
<1>3. CASE ~IsStackFunction(program, Frame.entry)
  <2>1. context_object \in HeapContexts /\ Len(heap[context_object[2]]) = size
    BY <1>1, <1>3, ContextFacts
  <2>2. heap[context_object[2]] \in Seq(Value)
    BY <2>1, HeapContextFacts, HeapFacts
  <2>3. s + 1 \in DOMAIN heap[context_object[2]]
    BY <1>1, <2>1, <2>2
  <2>4. RecordedActs[d].ctx = context_object
    BY <1>1, <1>3, ActsFacts, ActivationFields
    DEF Recorded, ActivationOf, Entered, OwnContext, Frame
  <2>5. context_object # nullptr
    BY <2>1 DEF HeapContexts, nullptr, uvalue
  <2>6. ASSUME NEW k \in 1 .. d - 1
        PROVE  OwnContext(k) # context_object
    <3>1. k \in 1 .. d /\ k < d /\ k # d
      BY <1>1
    <3>2. Entered(k)
      BY <1>1, <3>1 DEF Entered
    <3>3. CASE IsStackFunction(program, frames[k].entry)
      <4>1. OwnContext(k) = <<"stack", frames[k].base>>
        BY <1>1, <3>1, <3>2, <3>3 DEF CallingConvention, ContextsOwned
      <4> QED
        BY <2>1, <4>1 DEF HeapContexts
    <3>4. CASE ~IsStackFunction(program, frames[k].entry)
      <4>1. RecordedActs[k].ctx = OwnContext(k)
        BY <1>1, <3>1, <3>2, <3>4, ActsFacts, ActivationFields DEF Recorded, ActivationOf
      <4> QED
        BY <1>1, <2>4, <2>5, <3>1, <4>1 DEF ContextsApart
    <3> QED
      BY <3>3, <3>4
  <2> QED
    BY <1>1, <1>3, <2>1, <2>3, <2>6 DEF OwnSlot
<1> QED
  BY <1>2, <1>3

-----------------------------------------------------------------------------
(* Errors *)

(* Why an engine that links calls with so many words gives up: the stack   *)
(* is full where push or FN_ENTER_STACK looks, or the callee is null.  An  *)
(* empty stack is not among the reasons.                                   *)
ErrorCause(words) ==
  LET i == program.code[ip] IN
  \/ i.op = "PUSH" /\ stack_pointer > STACK_MAX
  \/ i.op = "FN_ENTER_STACK" /\ stack_pointer + i.op1 > STACK_MAX
  \/ i.op = "CALL" /\ (IsNull(Local(i.op1)) \/ stack_pointer + words - 1 > STACK_MAX)

(* It is still there when the engine has given up. *)
LEMMA CauseStays ==
  ASSUME NEW words, UNCHANGED <<program, ip, machine>>
  PROVE  ErrorCause(words)' <=> ErrorCause(words)
<1>1. /\ UNCHANGED <<program, ip, stack_pointer>>
      /\ UNCHANGED <<context_object, value_stack, heap>>
  BY DEF machine
<1>2. Local(program.code[ip].op1)' = Local(program.code[ip].op1)
  BY <1>1 DEF Local, Slot, OnStack
<1> QED
  BY <1>1, <1>2 DEF ErrorCause, IsNull

-----------------------------------------------------------------------------
(* Integers *)

(* Applied to two ints, an int opcode yields the int arithmetic says, or   *)
(* nothing if there is none.                                               *)
LEMMA IntOperators ==
  ASSUME NEW o \in IntArithmetic, NEW m \in IntRange, NEW n \in IntRange,
         NEW v1, v1[1] = "int", v1[2] = m, NEW v2, v2[1] = "int", v2[2] = n
  PROVE  /\ \A v \in BinaryResults(o, v1, v2) :
              \E r \in IntRange : v = <<"int", r>> /\ IsIntResult(o, m, n, r)
         /\ BinaryResults(o, v1, v2) = {} => \A r \in IntRange : ~IsIntResult(o, m, n, r)
<1>1. HighWords(v1) = {m} /\ HighWords(v2) = {n}
  BY DEF HighWords
<1>2. BinaryResults(o, v1, v2) = IntOutcomes(o, v1, v2)
  BY SMT DEF BinaryResults, IntArithmetic, DecimalArithmetic, IntComparisons
<1>3. /\ \A v \in IntOutcomes(o, v1, v2) : \E r \in IntResults(o, m, n) : v = ivalue(r)
      /\ \A r \in IntResults(o, m, n) : ivalue(r) \in IntOutcomes(o, v1, v2)
  BY <1>1 DEF IntOutcomes
<1>4. ASSUME NEW v \in BinaryResults(o, v1, v2)
      PROVE  \E r \in IntRange : v = <<"int", r>> /\ IsIntResult(o, m, n, r)
  <2>1. PICK r \in IntResults(o, m, n) : v = ivalue(r)
    BY <1>2, <1>3, <1>4
  <2>2. PICK wrapped : wrapped = Wrap(r)
    OBVIOUS
  <2>3. wrapped \in IntRange /\ IsIntResult(o, m, n, wrapped)
    BY <2>2, IntResultsExact
  <2>4. v = <<"int", wrapped>>
    BY <2>1, <2>2 DEF ivalue
  <2> QED
    BY <2>3, <2>4
<1>5. ASSUME BinaryResults(o, v1, v2) = {}
      PROVE  \A r \in IntRange : ~IsIntResult(o, m, n, r)
  <2>1. IntResults(o, m, n) = {}
    BY <1>2, <1>3, <1>5
  <2>2. o \in {"DIV_INT", "MOD_INT"} /\ Traps(m, n)
    BY <2>1 DEF IntResults, IntArithmetic
  <2> QED
    BY <2>2, NoResultToStore
<1> QED
  BY <1>4, <1>5

(* The ints an opcode is about to read are in range. *)
LEMMA IntOperands ==
  ASSUME CallingConvention, WordsKnown, OnInts(program.code[ip])
  PROVE  LET i == program.code[ip] IN
         /\ ~Entering
         /\ i.op \in IntArithmetic /\ i.op \in BinaryOpcodes /\ WritesDest(i.op)
         /\ Local(i.op1)[1] = "int" /\ Local(i.op1)[2] \in IntRange
         /\ Local(i.op2)[1] = "int" /\ Local(i.op2)[2] \in IntRange
<1> DEFINE i == program.code[ip]
<1>1. /\ i.op \in IntArithmetic /\ i.op \in BinaryOpcodes /\ WritesDest(i.op)
      /\ Local(i.op1)[1] = "int" /\ Local(i.op2)[1] = "int"
  BY DEF OnInts, BinaryOpcodes, WritesDest
<1>2. ~Entering
  BY <1>1, InstructionFacts DEF FnEnters, IntArithmetic
<1>3. {i.op1, i.op2} \subseteq 0 .. FrameSize(program, Frame.entry) - 1
  BY <1>1, InstructionFacts DEF WellFormedAt, SlotsRead
<1>4. Known(Local(i.op1), fn_refs) /\ Known(Local(i.op2), fn_refs)
  BY <1>2, <1>3, LocalsKnown
<1> QED
  BY <1>1, <1>2, <1>4 DEF Known, IntInRange

(* A word stored into the destination is there afterwards. *)
LEMMA DestinationHolds ==
  ASSUME CallingConvention, ~Entering, NEW i, i = program.code[ip], WritesDest(i.op),
         NEW v, StoreSlot(context_object, i.dest, v), context_object' = context_object
  PROVE  Local(i.dest)' = v
<1>1. /\ Depth \in 1 .. Depth /\ Entered(Depth) /\ Frame = frames[Depth]
      /\ context_object = OwnContext(Depth)
      /\ FrameSize(program, Frame.entry) \in Nat
  BY FrameFacts DEF Entered, OwnContext, Frame
<1>2. i.dest \in 1 .. FrameSize(program, Frame.entry) - 1
  BY SlotFacts
<1>3. i.dest \in 0 .. FrameSize(program, frames[Depth].entry) - 1
  BY <1>1, <1>2
<1>4. PICK c, slot : c = context_object /\ slot = i.dest
  OBVIOUS
<1>5. Slot(c, slot)' = v
  BY <1>1, <1>3, <1>4, StoredSlots
<1> QED
  BY <1>4, <1>5 DEF Local, Slot, OnStack

(* So an engine that stores what the operator yields computes integers     *)
(* exactly.                                                                *)
LEMMA StoredExactly ==
  ASSUME CallingConvention, WordsKnown, NEW i, i = program.code[ip], OnInts(i),
         NEW v \in BinaryResults(i.op, Local(i.op1), Local(i.op2)),
         StoreSlot(context_object, i.dest, v), context_object' = context_object
  PROVE  \E r \in IntRange : Local(i.dest)' = <<"int", r>> /\ IsResult(i, r)
<1>1. /\ ~Entering /\ WritesDest(i.op) /\ i.op \in IntArithmetic
      /\ Local(i.op1)[1] = "int" /\ Local(i.op1)[2] \in IntRange
      /\ Local(i.op2)[1] = "int" /\ Local(i.op2)[2] \in IntRange
  BY IntOperands
<1>2. PICK r \in IntRange : /\ v = <<"int", r>>
                            /\ IsIntResult(i.op, Local(i.op1)[2], Local(i.op2)[2], r)
  BY <1>1, IntOperators
<1>3. Local(i.dest)' = v
  BY <1>1, DestinationHolds
<1> QED
  BY <1>2, <1>3 DEF IsResult

(* And one that has nothing to store was asked for what is no int.         *)
LEMMA NothingToStore ==
  ASSUME CallingConvention, WordsKnown, NEW i, i = program.code[ip], OnInts(i),
         BinaryResults(i.op, Local(i.op1), Local(i.op2)) = {}
  PROVE  ~\E r \in IntRange : IsResult(i, r)
<1>1. /\ i.op \in IntArithmetic
      /\ Local(i.op1)[1] = "int" /\ Local(i.op1)[2] \in IntRange
      /\ Local(i.op2)[1] = "int" /\ Local(i.op2)[2] \in IntRange
  BY IntOperands
<1> QED
  BY <1>1, IntOperators DEF IsResult

=============================================================================
