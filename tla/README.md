# A verification of zscript's compiler and virtual machines

zscript2 is a small statically typed language: an ANTLR parser builds a syntax tree, a type
extractor resolves names to slots, a generator emits register-style byte code, and the code is
run either by a direct-threaded interpreter or by a baseline JIT for x86-64. The specifications
here model that pipeline behind the parser, from the syntax tree to the words in memory. All paths
below are relative to `src/`.

The program is sequential and persists nothing. What is hard about it is not concurrency but
memory and agreement. Names become slots in one phase, temporaries are added to them in the next,
and the frame is sized last. One array, `value_stack`, carries call linkage, arguments, operands and
the variables of leaf functions; nothing records where one activation ends and the next begins, and
a generator, an interpreter and a JIT that never see each other must agree about every distance in
it.

## 1. Inventory

| Component | Code | State it keeps | Operations |
|---|---|---|---|
| Values | `include/vm/vm.h`, `src/vm/object_manager.cpp`, `src/vm/vm_shared_inline.cpp` | none; an 8-byte union, type in the low half and payload in the high half, or a pointer in both | constructors, arithmetic, comparisons, casts |
| Instruction set | `include/common/program.h` | a static descriptor table: which operands are slots, immediates, addresses | none |
| Program container | `src/compiler/program/program.cpp` | list of instructions and labels | add, merge, insert behind a label, resolve labels |
| Byte code generator | `src/compiler/bytecode_generator.cpp` | open functions, loops, occupancy of temporaries, code so far | one visit function per kind of node |
| Shared memory | `src/vm/vm_shared.cpp`, `src/vm/vm_shared_inline.cpp` | `value_stack`, stack and base pointers, `context_object`, heap contexts, function references, natives | push, pop, context initialisation, `native_print` |
| Interpreter | `src/vm/direct_threaded_vm.cpp` | instruction pointer, call depth | one handler per opcode |
| JIT | `src/vm/jit/x64/baseline_jitter.cpp`, `context_threaded_vm.cpp` | native stack, `rax` between a comparison and a branch | one compiled form per opcode, in-line or a call of a handler |
| Type and overload model | `src/compiler/type/`, `extractor/type_helper.cpp` | type table; for each function a context object: names, overloads, slots, a counter | add a property, a literal or a temporary; assignability, overload resolution, generic clones |
| Type extractor | `src/compiler/type/extractor/` | chain of contexts, open functions; annotations of the tree | one visit per kind of node, each of which may end the process |
| Operator table | `src/compiler/op/op.cpp` | static | result types of operators |
| Parser and tree builders | `ZParser.g4`, `src/compiler/ast/` | none | build records |
| Driver | `src/main.cpp`, `src/compiler/compiler.cpp` | the tree, then the image | run the phases once, in order |
| Logger, utilities | `src/common/` | none that matters | read a file, format |

Interactions. The driver runs the phases once, each reading what the one before it left. The
generator adds temporaries to the context types the extractor filled, so the size of a frame is
known only when its function has been visited, and `FN_ENTER` is inserted afterwards. The engines
share `vm_shared*` and the object layout; they differ in the linkage (five words on the value stack
for the interpreter; four and a native return address for the JIT) and in the unit of operands
(bytes or slots).

What makes each component correct:

* contexts: every declaration, overload, literal and temporary has a slot of its own, and the frame
  holds them all;
* types: a call means the one overload that suits, in whatever order overloads are declared; what the
  extractor takes for an int is one when an instruction computes with it;
* compiler: every program is refused or compiled to a well-formed image;
* generator: the code prints what the program means; slots stay inside frames; operands on the stack
  agree wherever control meets; a function whose variables a closure may capture is not a leaf;
* interpreter: a call passes exactly what was pushed, no store damages the linkage, a return gives
  the caller back its registers, closures see the variables of their creators, exhaustion of the
  stack stops the program;
* JIT: the same, and its native stack agrees with the value stack; in particular it computes what
  the interpreter computes;
* values: integer results are the mathematical ones truncated to the width.

The hazards, each at its line, are in `PROJECT.json`.

## 2. Modules

    SyntaxTree                  what the parser makes: one constructor per kind of node
    TypeContext                 context objects and the allocator of temporaries, as operators
      Assignability             types, what may be given for what, which overload a call means
        OverloadResolution      overloads added one after the other, and all calls
      TypeModel                 + Assignability; texts, generic clones, operator table
        TypeExtractor           the visitor that annotates trees with slots and types
      ContextLayout             the life of one context object
        SlotTable               abstract: slots are given out once, in order
    ZValue                      the word, the data half of every opcode
      SourceSemantics           reference meaning of source trees
      Bytecode                  instructions, descriptor table, WellFormed, WellScoped
        Program                 labels, merge, toBytes/getInstructions
          ByteCodeGenerator     the visitor, from annotated trees to Program
            SourcePrograms      source programs and opcode tests of the runs
              TypedPrograms     all typings of one small program
              Compiler          the driver: extract, generate, load
        VMShared                value stack, contexts, function references
          IntegerArithmetic     what the int opcodes should compute, without saying how
          Frames                history of calls; the calling convention of both engines
            LexicalScopes       + which function's variables a closure reaches
          DirectThreadedVM      the interpreter, one action per handler
            CallFrames          + Frames; its five words of linkage
            TypeSoundness       what the extractor promises the interpreter
          ContextThreadedVM     the JIT, one action per compiled opcode
            JitFrames           + Frames; its four words of linkage and the native stack
          Translation           a program compiled, run, and compared with its meaning
        ActivationMachine       abstract machine: what both engines promise
          DecodedStack          activations read out of the value stack
            InterpreterRefinement, JitRefinement
    ContextLayout_proof                   theorems about contexts
    OverloadResolution_proof              theorems about calls of overloads
    Frames_proof                          opcodes yield the ints arithmetic says; the convention
                                          survives five kinds of steps
      CallFrames_proof, JitFrames_proof   the handlers of the engines are such steps
      Activations_proof                   what such steps do to the activations in memory, to the
                                          scopes, and to who owns which word
        InterpreterRefinement_proof       the interpreter implements ActivationMachine; its scopes,
                                          variables, ints, errors and undefined behaviour
        JitRefinement_proof               so does the JIT, where JitAgrees; and the same of it
    MC*                         instances for TLC

How they correspond to the code:

* **ZValue.** A word is `<<tag, payload>>`. Arithmetic on a word of another type reads the high
  half, as the union does (`HighWords`, `Decimals`); half a pointer is an unspecified number. A
  decimal is fixed point; the negative zero is a word of its own, and all infinities and NaNs are one
  word, of which a comparison may say either. An int read as a float is the float with its bits
  (`FloatsOfBits`): a denormal, below the unit, if it is small, an infinity or a NaN if it is a small
  negative one. A float read as an int has its bits, those of an infinity or a NaN included. An
  operator yields the set of results the build can produce, the empty set being a trap (`idiv`).
  `CMP_GT_DECIMAL` compares a float with the bits of a float, as the code does.
* **Program.** `ToBytes` drops labels and resolves `MOV_FNC` and jumps. A runnable program also
  carries `entry` and `height`, a certificate like the stack maps of a byte code verifier, which
  `Bytecode!WellFormed` checks. It is not in the C++ program and no engine action reads it.
* **VMShared, DirectThreadedVM.** The variables are the C++ globals and the registers of
  `vm_interpret`. Each action is a whole handler. `ErrorExit` is `exit(1)` (stack overflow, null
  callee), `UndefinedBehaviour` a trap or an access outside a context; both end the program. `ErrorExit` leaves memory as it was before
  the handler, whose first pushes nobody sees any more once the process is gone; what such a handler
  writes behind the array before it gives up is said by `HeaderWords` (MCStackBound). The
  array has `STACK_MAX` words and the model two more behind it, because the checks of the code let
  the machine write there. A slot that was never written holds what the memory held.
* **ContextThreadedVM.** `rax` is what a fused branch tests, `returns` is the native stack. Operands
  are scaled where `compile_dispatch_function` scales them. The in-line int arithmetic leaves the tag
  of its destination alone when that is an operand (`Retagged`): the word becomes a primitive of the
  old type with the new half.
* **Frames, CallFrames, JitFrames.** `frames` is a history variable: what every `CALL` promised its
  callee. No engine action reads it. The engines differ in the words a `CALL` pushes (`Linkage`,
  `JitLinkage`), so a frame records them too.
* **LexicalScopes.** The compiler's side of a captured variable is in the code alone: `Outer` is the
  function whose `MOV_FNC` makes the closures of another, and `AskedScope` goes out through as many
  functions as `findPropertyInContextChainOrError` counted. The engines' side is in memory alone:
  `Ancestor` follows slot 0. `ScopesAreLexical` relates the two.
* **SyntaxTree.** A tree is a record; names are names. Nothing in a tree is resolved.
* **TypeContext, ContextLayout.** A context is a `TypeInfo`: properties by name, each a list of
  overloads with an index, and `indexCounter`. `AddProperty` is `addProperty` with its three cases
  (new name, overload, refusal). ContextLayout is the life of one context: an action for each call
  the extractor or the generator makes on it, in any order a body can cause, then `Finish`, which
  takes the number of *names* for the size of the frame, as `visitFunction` does.
* **Assignability, TypeModel.** A type is a record. Where the code compares addresses
  (`== &TypeInfo::INT`) the field `canonical` tells the registered object from a clone with the same
  name. Assignability has `toString` for a parameter (`TextOf`), because the text of a type is the
  text of its parts: a recursion, which TypeModel defines (`Text`).
* **OverloadResolution.** `overloads` is the list a name has in a context; `AddOverload` is what
  `addProperty` does when the name exists. `Admitted`, `Suits` and `Linked` are the rules as a
  reader would state them, without texts and addresses.
* **TypeExtractor.** One operator per visit function. The state is the chain of contexts, the open
  functions and a verdict: accepted, refused (`errorExit`), or undefined, where the code dereferences
  the end of a map or reads an object as one of another class.
* **ByteCodeGenerator.** One operator per visit function, on the trees TypeExtractor annotates. State
  is threaded through the visits: code of each function, context and occupied temporaries, open
  functions, loops, label counter. A label is a fresh number because the code compares labels by
  address.
* **Compiler.** `CompilationOf` is what the phases make of a source program; the actions are the
  phases, each of which may end the process.
* **SourceSemantics** is not translated from code. It is the reference: an evaluator of source
  trees with scopes, closures and conversions, and no slots, temporaries, labels or stack. Names are
  looked up in it by their scopes, so it shares nothing with the extractor but the choice of overloads.
* **ActivationMachine** has a list of activations, each with private arguments, operands and
  variables, and a budget of memory. There is no linkage to damage in it. About an argument that was
  not passed it promises nothing but a word: `ARG_READ` checks no index, in either engine. Of the
  JIT it promises no more about int arithmetic that replaces an operand of another type: the code in
  line stores the number and leaves the tag (`KeepsTag`, empty for the interpreter).

Definitions whose comment starts with "Broken" are deliberate bugs. Nothing uses them; each
property is known to fail when one of them replaces the definition it belongs to.

## 3. What the runs check

| Run | Question | Result |
|---|---|---|
| MCInterpreter | does the memory still say what every call promised, when a return needs it? does every step, seen through `DecodedStack`, implement `ActivationMachine`? does a closure reach the scope the compiler counted to? does every int opcode store what arithmetic says, has undefined behaviour only two causes, does every run end? | holds |
| MCJit | does the memory of the JIT still say what every call promised, do its native stack and its value stack agree, do closures reach their scopes, and is int arithmetic exact in line and in handlers, on all programs? on those where `JitAgrees`, does it implement the same `ActivationMachine`, do fused branches go where the handler would, and has undefined behaviour the same two causes? | holds |
| MCGenerator | does a compiled program print what its source means, and compute with ints, decimals and strings only where they are? | holds |
| MCContextLayout | has each declaration, overload, literal and temporary a slot of its own? | holds |
| MCCompiler | is whatever the phases let through a well-formed image? are exactly the stray jumps refused by the generator? | holds |
| MCOverloadResolution | does a call mean the only overload that suits, in every order of declaration? | holds |
| MCStackBound | are all words written on the stack in the array? | violated: `push` refuses one word late, `FN_ENTER_STACK` writes the header of a context before it checks |
| MCFrameSize | does a frame hold all slots, with overloads? | violated: overloads are not counted |
| MCGeneratorDefects | does one program with seven defective shapes print what it means? | violated: all seven prints are wrong |
| MCJitDifferences | does the JIT print what a program means that assigns a captured variable and branches behind a comparison of something else? | violated: both prints are wrong |
| MCCompilerJumpsOut | is a `break` in a function in a loop refused? | violated: it becomes a jump into other code |
| MCCompilerUndefined | are a generic function that returns the type parameter of the function around it, and a dot with a call on its right, refused or compiled? | violated by each of the two programs alone: the end of a map is dereferenced, a call is read as an atom |

The counterexample of MCStackBound ends in a call of a leaf function: the last word of its linkage is
behind the array, and so is the header that `FN_ENTER_STACK` is about to write. The two are
independent: with other sizes of frames (`UnboundedLeaf(0)`) the linkage ends with the array, and
only the header is behind it.

The counterexample of MCGeneratorDefects ends with the seven values the program means
(`program.meaning`) next to the seven it has printed (`output`): `a = a && b`, a captured assignment
that overwrites a parameter, a decimal declared from an int literal, an int passed for a decimal,
`2.0 > 0.5`, an explicit type argument that the parameter does not have, and the sum of a string and
the result of a generic function.

### Properties worth knowing

`LinkageIntact`, `FramesDisjoint`, `RegistersMatchFrame`, `ResumesInCaller`, `ContextsOwned` and
`NothingCapturesStack` relate the history of calls to memory. `LinkageIntact` is stated for each
engine in the terms of its own linkage; MCJit leaves out the three that speak of the value stack
only, which are proved for it as well. `ReturnRestoresCaller` and `ArgumentsArrive` are what a program notices of them.
`ImplementsActivations` is a refinement: one abstract specification, two engines, two mappings.

`ScopesAreLexical` is about what no unit of the program does: a `MOV_FNC` saves a pointer, a `CALL`
pushes it, an `FN_ENTER` stores it, and much later, perhaps when the creator has long returned, a
`GET_IN_PARENT` takes as many steps as the extractor counted in the text. The property says that
this ends in a context of the right function: every activation and every closure by which the
context is known agrees on whose it is.

`PrintsMeaning` ties extractor, generator, container and engine together end to end: names and
scopes, overloads, slots, temporaries, conversions and jumps against an evaluator that has none of
these but the choice of overloads. `OperandsHaveTheirKind` is type soundness: the engines never look
at a tag, so a program the extractor should have refused computes with the wrong bits silently.
`PrintsMeaning` takes a negative zero for the number zero (`Meant`).

`SlotsDistinct`, `SlotsDense`, `TemporariesPrivate` and `OverloadsDiffer` say of a context what the
instructions take for granted; `ImplementsSlotTable` says it as a refinement: slots are given out in
order and never change their owner. `FrameHoldsPlainSlots` is what is true of the frame's size.

`ImagesWellFormed` is the link between the compiler and the proofs about the engines: they assume
images that are `WellFormed` and `WellScoped`, the run shows that the compiler makes them. `StrayJumpsRefused`
characterises the generator's only refusal. `ChosenIsTheOnlySuitable` compares the two filters and
the checks of `getOverloadToCall` and `visitFunctionCall` with a table of what may be given where;
`NeverTakenOver` is an action property about a further declaration.

`IntegersExact` compares each int opcode with a specification that does not say how to compute it:
a sum is whatever int is congruent to it, a quotient whatever leaves a rest smaller than the divisor
and of the sign of the dividend, and a trap is right only where no int is a result. It is an action
property about memory, so the store counts too: the word behind the destination, also in the code
in line, which leaves the tag of the destination alone when it is an operand.

### Bounds, and why they are enough

* `STACK_MAX` is 60 words (100 in MCGenerator) instead of 10000 (`include/vm/vm.h:6`). Two to four
  activations fit, so every program that recurses meets the limit; `UnboundedLeaf(unused)` with
  frames of different sizes meets it at each alignment of a frame to the end of the array. The bound
  itself is a parameter of the theorems.
* `INT_MAX` is 127: wrap-around, the division trap and all sign combinations occur. Decimals are
  quarters; every result of the compiled programs is exact. The byte code written by hand
  also divides and compares decimals with an int whose bits are those of no number.
* MCGenerator: all conditions of three operands over two variables and a call that prints, with both
  values of the variables, each used as an initial value, as a condition and as the value assigned;
  all sums and products of three operands over an int, a decimal, a literal, a negation and a call
  that changes the int; comparisons; nested loops with `break` and `continue`, a search for primes,
  closures, shadowing and recursion; three programs of `test_files`; and TypedPrograms: a literal, a
  function with each type or a bounded type parameter for its parameter and result and each of eight
  bodies, a variable for its result, and a use of it. Programs that do not return
  satisfy `PrintsMeaning` trivially; in MCGenerator these are two, which call null and divide by 0.
* MCContextLayout: two names, one literal, five slots, five types, of which two are `TypeInfo`
  objects with one text, so that identity and text of a type differ. The bound is on slots only; the
  theorems have none.
* MCCompiler: all nests of functions, loops and conditions three deep with each kind of jump inside
  or behind, functions with stray jumps as operands of calls, operations and conditions, a type
  parameter declared twice, the programs of the other runs, and programs without sense.
* MCOverloadResolution: eleven function types that differ in number, types and type parameters of
  their arguments, up to three overloads, and calls with up to two parameters and up to two explicit
  type arguments. Two overloads are ambiguous or not; a third shows that an ambiguity is stable.
* Calculation, UnaryCalculation and Printing are byte code written by hand, for operands no literal
  denotes (-128) and for opcodes no construct of the language uses.

The sources of MCGenerator leave out what the compiler is known to get wrong, each a hazard in
`PROJECT.json`: the shapes of MCGeneratorDefects; an assigned variable among the operands of its own
`&&` or `||`; an operand that a later operand changes; an assignment used as a value; computing with
a type parameter (`Unchecked` in TypedPrograms says exactly which); `!`; a loop without a condition;
a condition that is not boolean. MCCompiler leaves out jumps from a function into the loop around it
(`JumpsOut`) and the two programs of MCCompilerUndefined. `named_functions.ze` is checked behind
three loops that are never entered: without them its frame is too small for its overloads, which is
MCFrameSize.

### Fairness

`Terminates` is checked under weak fairness of the interpreter's step (`HFairSpec`). An engine is
one thread in a loop that never waits, so a step that is possible is taken. Nothing else needs
fairness; the other properties are safety.

CHECK_DEADLOCK is left on for the engines: one that has stopped stutters in `Halted`, so a state
without a successor would be a missing case of a handler. It is off for MCContextLayout, MCCompiler
and MCOverloadResolution, whose systems come to an end: a context is finished, a compiler exits, the
declarations run out.

## 4. What is proved

`Frames_proof`, `CallFrames_proof` and `JitFrames_proof` show the calling convention of both
engines for every set of well-formed programs, every `STACK_MAX` and every `INT_MAX`; `Activations_proof` and on it `InterpreterRefinement_proof`
and `JitRefinement_proof` show, for the same, that each engine is an `ActivationMachine`, that
closures see the scopes they were written in, that ints are exact, that a handler touches no
variables but those of its activation, what an error means, and where behaviour can be undefined.
`ContextLayout_proof` shows the layout of contexts for every set of names, types and literals and any
bound on the slots; `OverloadResolution_proof` what a call means, for every set of types, functions
and calls and any number of overloads.

Assumptions, all named in the modules and evaluated by TLC in the runs: `ProgramsAssumption` (each
program is `WellFormed`), `ScopesAssumption` (and `WellScoped`), `StackMaxAssumption`, `IntMaxAssumption` and `MaxSlotsAssumption` (positive
naturals), `TypesAssumption` (the types of temporaries, literals and functions are types) and
`LiteralsAssumption`; for overloads, those listed below. `ProgramsAssumption` is not true of every image the generator can emit
(MCCompilerJumpsOut); `ImagesWellFormed` shows it of the compiled samples.

### The calling convention

The inductive invariant `CallingConvention` is the conjunction of `FramesTypeOK`, `RootStays` and
the six invariants of `Frames`. None of them is inductive alone, and they hold each other up:

* a return is right because the linkage is intact (`LinkageKept`) and the caller was left at an
  address of its own function with the operand height the certificate says (`ResumesInCaller`);
* the linkage is intact because every store goes to a slot of the current context or to the top of
  the operand stack, and both lie above it: that needs `RegistersMatchFrame` and `ContextsOwned`;
* a store through a parent pointer cannot hit the stack because nothing that outlives an activation
  points into it (`NothingCapturesStack`), which rests on well-formedness: only functions with heap
  contexts make closures;
* `RegistersMatchFrame` is re-established by a return from the linkage, which closes the circle;
* `FramesDisjoint` follows from the distances in the records and is what lets a push above the top
  frame leave the lower ones alone.

The proof has two layers, because two engines that share no handler keep this convention.
`Frames_proof` knows neither: it says what five kinds of steps do to the memory (`LocalStep` inside
an activation, `EnterStep`, `CallStep` with any linkage of three words or more that ends with the
parent, `ReturnStep`, `StopStep`), and proves that each preserves `CallingConvention`
(`FrameSteps`). `CallFrames_proof` and `JitFrames_proof` then have one lemma for each handler, which
says of what kind it is.

Each engine adds to the invariant what is its own.

* `InterpreterConvention`: the recorded linkage is argument count, return address, caller's context,
  byte offset of the result, parent (`LinkageRecorded`).
* `JitConvention`: the linkage has no return address and an index for the result; the native stack
  holds the host's address and then the resumption address of every frame (`ReturnsRecorded`); and
  while control is at a fused branch of a program where `JitAgrees`, `rax` is what the comparison
  stored (`RegisterHoldsComparison`). The last is inductive because such a branch can only be
  reached from the comparison before it: no jump leads there, a function entry is no comparison, and
  what precedes a resumption address is a `CALL`.

From them follow, for each engine, `TypeCorrect`, `RegistersCorrect`, `LinkageSurvives`,
`NoStackCapture` and the action properties `ReturnsRestore` and `ArgumentsDelivered`; for the
interpreter `ResumptionCorrect`, `StackPartitioned` and `ContextsSurvive`; and for the JIT
`NativeStackStays` and `FusedBranchesRight`. None of these excludes the programs the JIT runs
differently: even where `SET_IN_PARENT` goes astray, or stops the program, no linkage is lost. (In
the model; an access outside of a context ends a behaviour, whatever the hardware would do.)

### The engines implement ActivationMachine

`InterpreterImplements` (`HSpec => ImplementsActivations`) says that every step of the interpreter,
read through the memory it leaves, is a step of `ActivationMachine`. The mapping of
`InterpreterRefinement` follows the saved base pointers down the value stack and knows no history;
the proof goes through the history.

* *Decoding.* In every state the convention allows, what `DecodedStack` reads from the memory is
  what the history recorded (`Decoded`: `InterpreterActs = RecordedActs`). The mapping is a
  recursion along the stack, so the proof looks at the deepest activation that would be read wrong
  (`Smallest` and `Greatest` stand in for induction); the same way `WalkToAncestor` shows that the
  walk along slot 0 by pointers is the walk by numbers, and `WordsInUse` that the words of all
  activations add up to the stack pointer, so that the checks in `push`, `FN_ENTER_STACK` and `CALL`
  are the budget of `ActivationMachine`.
* *Steps.* `Activations_proof` says what each kind of step of `Frames_proof` does to the recorded
  activations, for any linkage: all but the running one stay (`WithinActs`), a call turns the upper
  operands into arguments (`CallActs`), a return changes one slot of the caller (`ReturnActs`).
  Then there is one lemma for each handler, which finds the action of `ActivationMachine` it is.
* *Ends.* `ExitCause` shows which checks of a handler can fail: a full stack and a null callee, which
  `ActivationMachine` may exit for as well (`ErrorRefines`). `UndefinedRefines` needs one more
  invariant, `WordsKnown`: every function reference in memory is one that `MOV_FNC` made, so that a
  `CALL` of a reference finds its function (and every int is in range, see below).
  `RefinementInvariant` is this and `InterpreterConvention`.

`JitImplements` says the same of the JIT, step by step: as long as a program is without the
constructs that the JIT runs differently (`JitAgrees(program)`; a program never changes), a step of
its machine code is a step of `ActivationMachine`. The lemmas about recorded activations are shared;
what differs is the engine.

* An activation is read from two stacks. Where it goes on is in `returns`, and everything else on
  the value stack; that they belong together is `ReturnsRecorded`.
* A fused branch never looks at the slot `ActivationMachine` branches on. It goes the right way
  because `rax` agrees with the slot (`RegisterAgrees`, from `RegisterHoldsComparison`).
* `InlineRefines` is where the tag comes in: the code in line computes what the handlers do unless
  the result replaces an operand that is no int, and there `KeepsTag` promises nothing.
* `JitAgrees` is used in three places only: for fused branches, to rule out `SET_IN_PARENT`, whose
  handler indexes the wrong slots, and `POP`, to which no destination is passed.

### Closures see their scopes

`ClosuresSeeTheirScopes` (`HSpec => []ScopesAreLexical`, for both engines) needs to know whose a
context is, also when its activation is gone and no closure made in it is left. No variable says so.
The inductive invariant `ContextsScoped` therefore asserts that there *is* an assignment of
functions to contexts (`ScopedBy(owner)`) that fits everything in memory:

* a closure of a function was made in a context of the function around it;
* slot 0 of a context is what some closure of its function was made in;
* so is the parent of an activation, which waits on the stack until the function is entered, and
  from then on the activation's context is its function's;
* a context is as large as the frames of its function.

A step inside an activation changes none of this, since slot 0 is nobody's destination
(`LocalScopes`); `MOV_FNC` adds a closure to the running context, whose function is the creator
because there is only one (`CreatorFacts`, from `WellScoped`). A `CALL` moves the parent from the
closure to the stack (`CallScopes`), an `FN_ENTER` from the stack to the new context, to which the
assignment is extended (`EnterScopes`), and a `RET` drops an activation (`ReturnScopes`). These are
lemmas about the five kinds of steps, so both engines share them. `WalkFollowsScopes` takes the walk
one step at a time, by way of the first step that would leave the scopes, and `OwnersAgree` makes the
assignment a matter of what `OwnersOf` can see.

### Whose words a handler touches

The convention says where contexts are; `OwnVariablesOnly` says it of each access. `SlotsAccessed`
takes the operands as the handler computes with them, byte offsets divided again, and the theorem
says that each such slot is a word of the running activation (`OwnSlot`): for a leaf a word above the
contexts of all its callers and below the operands, for any other function a slot of a heap context
that is not the context of another activation, a second activation of the same function included.
The first follows from the convention. The second needs one more inductive invariant,
`ContextsApart`: only `FN_ENTER_HEAP` gives an activation a context on the heap, and a new one
(`ApartSteps`). In the JIT the two instructions it gets wrong are left out, `SET_IN_PARENT`, whose
handler scales an index again, and `POP`.

### Integers

`IntegersAreExact` (`HSpec => IntegersExact`, for both engines) is true for every `INT_MAX`, the 32
bits of the code among them. It rests on

* the lemmas about arithmetic: `WrapFacts` (truncation yields the one int congruent to the exact
  number), `QuotientFacts` (division of magnitudes with the signs put back is division towards zero)
  and `QuotientFits` (a quotient of two ints is an int, but for the smallest divided by -1);
  `IntResultsExact` says it of the opcodes, and `NoResultToStore` that a trap is right: no int would
  have been a result;
* `WordsKnown`, an inductive invariant: every word in memory with the tag of an int holds an int of
  the type. The conversions, `ARG_READ`, the code in line and the memory behind the array are the
  cases to look at;
* the convention, for the store: the destination is a slot of the current context, and what is read
  there afterwards is what was stored (`StoredExactly`).

### Errors

`ErrorsHaveACause`: where an engine has called `exit(1)`, the next instruction is a `PUSH`, an
`FN_ENTER_STACK` or a `CALL` for which the stack is full, or a `CALL` of null. `pop` checks for an
empty stack too, in `FN_ENTER`, `RET`, `CALL_NATIVE` and the interpreter's `POP`; by the theorem
these checks never fail, whatever a well-formed program does.

### Undefined behaviour

`UndefinedOnlyByOperands` collects what follows for undefined behaviour: a walk that went astray, a
`POP` of an empty stack, a `CALL` of a reference nobody made and a slot outside of its context are
all excluded, for every program. What remains (`OperandAtFault`) is a word of another kind than the
handler takes it for, or a division that traps; in the JIT also `SET_IN_PARENT` and `POP`, as above.
Which of these a compiled program can still meet is a question of types, and model-checked:
`UndefinedCauses` and `DefinedBehaviour` allow only two.

`SoundTypesLeaveTraps` ties this to the type extractor: a program of which `OperandsHaveTheirKind` is
always true (`HSpec /\ []OperandsHaveTheirKind`), as it is of the samples of MCGenerator, leaves the
interpreter nothing undefined but a division that has no result and a `CALL_NATIVE` of a word that
is the number of no native. The latter is left because a tag does not tell natives from other
words, and a slot that was never written may hold any word.

### The layout of contexts

The inductive invariant `Layout` (`LayoutHolds`) is the conjunction of `LayoutTypeOK`, `SlotsDistinct`,
`SlotsDense`, `OverloadsDiffer` and `TemporariesPrivate` with three facts about the state: a context
has the shape of one (`IsContext`), the temporaries are numbered by their count (`TempsCounted`), and
a finished context has been measured (`SizeCounted`).

* A new declaration takes `indexCounter` for its slot; density makes it new (`NoSlotIsShared`,
  `NoSlotIsWasted`).
* A new temporary is named after the *number* of temporaries; because they are numbered from 0
  without gaps the name is new, and `addProperty` neither refuses nor overloads it. A slot that the
  allocator's map has marked free is therefore never that of a variable (`TemporariesAreApart`).
* `addProperty` compares overloads by text before it adds one (`OverloadsAreTold`).
* Without overloads names and slots are in bijection, so that counting names is right
  (`PlainFramesFit`); MCFrameSize shows that it is not with them.
* The refinement `ContextIsSlotTable` reads the owner of each slot off the context. The slot
  determines its declaration (`NoSlotIsShared`), so the old owners stay when a slot is added, and
  the new owner is no old one: a step is a `Give` or changes nothing.

### The choice of overloads

`OnlySuitableChosen` and `NobodyTakesOver` need one fact about the state, that no two overloads of a
name have the same text (`OverloadsDistinct`); it makes positions, over which the code filters, and
types, of which the property speaks, the same thing. The rest is about operators.

* `AssignableAsAdmitted`: `isAssignableFrom`, which decides by texts, names and addresses, is the
  table `Admitted`.
* `FitsAsSuits`: the two loops of `getOverloadToCall` find what the parameters suit.
* `AcceptedWhenLinked`: `visitFunctionCall` counts the type parameters it has found something out
  about and compares their number with that of the function's. The count is right because names
  are found only for the function's own parameters and two of these never have the same name
  (`ParametersCounted`, `LinkedWhenAllPassed`). What it then checks of each parameter again, it
  has checked before (`PassedAreAdmitted`).

The assumptions say where this is true. `TypesAssumption`: a type is one as declared, not a copy. A
generic function's clone has a copy of `int`, which is no longer `&TypeInfo::INT` and is refused
for a decimal. `FunctionTypesAssumption`: type parameters have names of their own, and no argument
is the type parameter of a function around (`Closed`). For such an argument `visitFunctionCall`
counts a foreign name in place of one of its own that is missing. `TextAssumption`: types of one
text have one name.

### What is only model-checked

That no operand but a divisor and a native passed as a callback is at fault (`UndefinedCauses`,
`DefinedBehaviour`, of which `UndefinedOnlyByOperands` is the part that does not depend on types),
termination, and everything about extractor and generator (`PrintsMeaning`, `OperandsHaveTheirKind`,
`ImagesWellFormed`, `StrayJumpsRefused`, `CompilerDefined`).
Liveness under fairness and ENABLED are beyond the prover, and so is what recursive operators (the
visitors and the reference) compute for all trees.

## 5. What is not modelled

* Lexer and parser, which ANTLR generates from the grammars, and the printing of trees. The trees
  of the runs are those the builders make (`SyntaxTree`).
* The generator's code for a dot. No type a program can name has properties, so the extractor lets
  no dot through (`VisitDot`).
* Wording of errors and output; the logger; reading the file. `native_print` appends the printed
  value to `output`.
* The JIT's frame pointer, padding and register saving, and the code buffer of asmjit.
* Failure of `malloc`; memory is never freed in the code, nor in the model.

A note for maintainers: TLC evaluates function constructors lazily, also under a prime. The
`<< >> \o [...]` in `DecodedStack`, `InterpreterActs` and `JitActs` forces a tuple, and the
`g.failed` test at the head of the visits forces the generator's state, which keeps its evaluation
from nesting as deep as the program is long. Sets of samples are written with
a LET, into which TLC's coverage does not look for the cost of what it evaluates beforehand.

## 6. Plan

Done: values, instruction set, container, both engines, their abstract machine, the calling
convention of both and its proof, the proofs that they implement the abstract machine, keep closures
in their scopes and activations to their variables, and compute with ints as they should; types,
contexts and the proof of their layout, overloads and the proof of their choice, the extractor, the
generator, the driver, and the reference semantics of source programs.

Left is label resolution: that every resolved address is the instruction behind the label is checked
by `ImagesWellFormed` and `PrintsMeaning` only. It is a fact about `SelectSeq`, of which the prover
knows nothing.
