------------------------------ MODULE MCCompiler ------------------------------
(* The compiler on nests of functions, loops and conditions with jumps at  *)
(* every place, on the programs of the repository and on programs without  *)
(* sense; and on three shapes it does not cope with.                       *)
EXTENDS Compiler

One == IntLiteral(1)
Yes == BooleanLiteral(1)
Yield == Returning(One)
Loop1(block) == For(Declare("i", One), Operation("lt", Var("i"), One), Increment("i"), block)
IntFunction(block) == Function(<<IntArgument("a")>>, AnInt, block)

(* Blocks with a function, a loop or a condition around each of blocks. *)
Around(blocks) ==
  UNION {{Loop1(b), When(Yes, b), Choose(Yes, <<Show(One)>>, b),
          Declare("f", Lambda(IntFunction(b))), Define("g", IntFunction(b))} : b \in blocks}

Level1 == Around({<<s>> : s \in {Breaking, Continuing, Yield, Show(One)}})
Level2 == Around({<<s>> : s \in Level1} \cup {<<s, t>> : s \in Level1, t \in {Breaking, Yield}})
Level3 == Around({<<s>> : s \in Level2})

(* Is there a function in a loop with a jump out of it? *)
RECURSIVE JumpsOut(_, _)
JumpsOut(block, inLoop) ==
  LET function(b) == (inLoop /\ Stray(b)) \/ JumpsOut(b, FALSE)
      statement(st) ==
        CASE st.kind = "loop" -> JumpsOut(st.block, TRUE)
          [] st.kind = "if" -> JumpsOut(st.then, inLoop) \/ JumpsOut(st.else, inLoop)
          [] st.kind = "function" -> function(st.function.block)
          [] st.kind = "variable" ->
               st.expression.kind = "function" /\ function(st.expression.function.block)
          [] OTHER -> FALSE
  IN  \E k \in DOMAIN block : statement(block[k])

Nests ==
  LET blocks == {<<s, t>> : s \in Level3, t \in {Breaking, Show(One)}}
                  \cup {<<s, t>> : s \in Level1, t \in Level2}
  IN  {b \in blocks : ~JumpsOut(b, FALSE)}

(* print(undeclared)   var x: int = "b"   print(1 + "b")   print()   1.one *)
(* fun open<T: Any, K: Any>(p: T): K { return p }  print(open(1))          *)
OpenCall ==
  LET open == GenericFunction(<<Argument("T", Anything), Argument("K", Anything)>>,
                <<Argument("p", Described("T"))>>, Described("K"), <<Returning(Var("p"))>>)
  IN  <<Define("open", open), Show(CallOf("open", <<One>>))>>
Senseless ==
  {OpenCall} \cup
  {<<Show(Var("undeclared"))>>, <<DeclareAs("x", AnInt, StringLiteral("b"))>>,
   <<Show(Operation("add", One, StringLiteral("b")))>>, <<Do(CallOf("print", << >>))>>,
   <<Do(Member(One, Var("one")))>>, <<Returning(Var("undeclared"))>>}

(* Functions among the operands of a call, with a jump in them or in a     *)
(* loop of theirs: print(fun(a: int): int { break })                       *)
(* print(1 + fun(a: int): int { for (...) { break } return 1 }(1))         *)
(* print(fun(a: int): int { print(fun(a: int): int { continue }) })        *)
Operands ==
  LET jumping == Lambda(IntFunction(<<Breaking>>))
      looping == Lambda(IntFunction(<<Loop1(<<Breaking>>), Yield>>))
      nested == Lambda(IntFunction(<<Show(Lambda(IntFunction(<<Continuing>>))), Yield>>))
  IN  {<<Show(jumping)>>, <<Show(nested)>>, <<Show(looping)>>,
       <<Show(Operation("add", One, Calling(looping, <<One>>)))>>,
       <<Show(Operation("add", One, Calling(jumping, <<One>>)))>>,
       <<When(Operation("lt", One, Calling(jumping, <<One>>)), <<Show(One)>>)>>}

(* fun pick<T: int, T: Any>(p: T): T { return p }  print(pick(1))          *)
(* print(pick("b"))   print(pick<String>("b"))                             *)
(* Only the first bound of the two counts.                                 *)
TwiceNamed(call) ==
  LET pick == GenericFunction(<<Argument("T", AnInt), Argument("T", Anything)>>,
                <<Argument("p", Described("T"))>>, Described("T"), <<Returning(Var("p"))>>)
  IN  <<Define("pick", pick), Show(call)>>
NamesTwice ==
  {TwiceNamed(CallOf("pick", <<One>>)), TwiceNamed(CallOf("pick", <<StringLiteral("b")>>)),
   TwiceNamed(CallingWith(<<AString>>, Var("pick"), <<StringLiteral("b")>>))}

MCCompilations ==
  LET sources == Nests \cup Senseless \cup Operands \cup NamesTwice \cup TestFiles
                   \cup {Counter, Closures, NestedLoops, Primes(4), Callback(1),
                         NestedArguments(5, 3), Recursive(2), NativeCallback, Digging}
  IN  {CompilationOf(s) : s \in sources}

-----------------------------------------------------------------------------
(* The three shapes *)

(* for (var i = 1; i < 1; i = i + 1) { var f = fun(a: int): int { break } } *)
JumpingOut ==
  LET tree == <<Loop1(<<Declare("f", Lambda(IntFunction(<<Breaking>>)))>>)>> IN {CompilationOf(tree)}

(* var outer = fun<T: Any>(t: T): T {                                      *)
(*   var inner = fun<P: Any>(p: P): T { return t }  return inner(1) }      *)
OuterParameter ==
  LET T == Described("T")
      generic(P, ident, block) ==
        Lambda(GenericFunction(<<Argument(P, Anything)>>, <<Argument(ident, Described(P))>>, T,
                               block))
      inner == generic("P", "p", <<Returning(Var("t"))>>)
      tree == <<Declare("outer", generic("T", "t",
                    <<Declare("inner", inner), Returning(CallOf("inner", <<One>>))>>))>>
  IN  {CompilationOf(tree)}

(* 1.(print(1)) *)
DotBeforeCall == LET tree == <<Do(Member(One, CallOf("print", <<One>>)))>> IN {CompilationOf(tree)}

(* The extractor reaches the end of a map for one of them and reads a call *)
(* as an atom for the other.                                               *)
Undefined == LET programs == OuterParameter \cup DotBeforeCall IN programs

=============================================================================
