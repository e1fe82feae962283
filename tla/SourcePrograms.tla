---------------------------- MODULE SourcePrograms ----------------------------
(***************************************************************************)
(* Source programs for the runs, as syntax trees (SyntaxTree), and         *)
(* the images the compiler makes of them (doCompile of                     *)
(* src/compiler/compiler.cpp).                                             *)
(***************************************************************************)
EXTENDS ByteCodeGenerator

Extractor == INSTANCE TypeExtractor

(* The programs below are accepted. *)
Compiled(block) ==
  LET extracted == Extractor!ExtractAndRegister(block)
  IN  CASE extracted.verdict = "accepted" -> Loaded(DoGenerateCode(extracted.root))

-----------------------------------------------------------------------------
(* Calls, closures, recursion *)

(* Variables nobody uses, for frames of different sizes. *)
Unused(n) == [k \in 1 .. n |-> DeclareAs("unused " \o ToString(k), AnInt, Nothing)]
Increment(name) == Assigned(name, Operation("add", Var(name), IntLiteral(1)))

(* var n: int                                                              *)
(* var inc = fun() { n = n + 1 }                                           *)
(* inc() inc() print(n)                                                    *)
Counter ==
  <<DeclareAs("n", AnInt, Nothing),
    Declare("inc", Lambda(Function(<< >>, Nil, <<Do(Increment("n"))>>))),
    Do(CallOf("inc", << >>)), Do(CallOf("inc", << >>)), Show(Var("n"))>>

(* fun sum(n: int): int { if (n < 1) { return n } return n + sum(n - 1) }  *)
(* print(sum(n))                                                           *)
Recursive(n) ==
  LET less == Operation("sub", Var("n"), IntLiteral(1))
      sum == Function(<<IntArgument("n")>>, AnInt,
               <<When(Operation("lt", Var("n"), IntLiteral(1)), <<Returning(Var("n"))>>),
                 Returning(Operation("add", Var("n"), CallOf("sum", <<less>>)))>>)
  IN  <<Define("sum", sum), Show(CallOf("sum", <<IntLiteral(n)>>))>>

(* fun make(m: int): fun<int> { return fun(): int { m = m - 1 return m } } *)
(* var f = make(2) var g = make(5) print(f()) print(g()) print(f())        *)
Closures ==
  LET down == Function(<< >>, AnInt,
                <<Do(Assigned("m", Operation("sub", Var("m"), IntLiteral(1)))),
                  Returning(Var("m"))>>)
      make == Function(<<IntArgument("m")>>, FunOf(<<AnInt>>), <<Returning(Lambda(down))>>)
      print(name) == Show(CallOf(name, << >>))
  IN  <<Define("make", make), Declare("f", CallOf("make", <<IntLiteral(2)>>)),
        Declare("g", CallOf("make", <<IntLiteral(5)>>)), print("f"), print("g"), print("f")>>

(* fun twice(f: fun<int,int>, x: int): int { return f(f(x)) }              *)
(* fun outer(k: int): int {                                                *)
(*   return twice(fun(y: int): int { return y - k }, 5) }                  *)
(* print(outer(k)), a callback that reads its creator's context            *)
Callback(k) ==
  LET f(params) == CallOf("f", params)
      twice == Function(<<Argument("f", FunOf(<<AnInt, AnInt>>)), IntArgument("x")>>, AnInt,
                        <<Returning(f(<<f(<<Var("x")>>)>>))>>)
      minus == Function(<<IntArgument("y")>>, AnInt,
                        <<Returning(Operation("sub", Var("y"), Var("k")))>>)
      outer == Function(<<IntArgument("k")>>, AnInt,
                        <<Returning(CallOf("twice", <<Lambda(minus), IntLiteral(5)>>))>>)
  IN  <<Define("twice", twice), Define("outer", outer),
        Show(CallOf("outer", <<IntLiteral(k)>>))>>

(* var n = 1                                                               *)
(* fun f(n: int): int {                                                    *)
(*   var m = n + 1                                                         *)
(*   fun g(m: int): int { return n * m }                                   *)
(*   fun h(): int { var n = 7 return n - m }                               *)
(*   print(h()) return g(n) }                                              *)
(* print(f(3)) print(n), names that mean something else further in         *)
Shadowing ==
  LET n == Var("n")
      m == Var("m")
      g == Function(<<IntArgument("m")>>, AnInt, <<Returning(Operation("mul", n, m))>>)
      h == Function(<< >>, AnInt,
                    <<Declare("n", IntLiteral(7)), Returning(Operation("sub", n, m))>>)
      f == Function(<<IntArgument("n")>>, AnInt,
             <<Declare("m", Operation("add", n, IntLiteral(1))), Define("g", g), Define("h", h),
               Show(CallOf("h", << >>)), Returning(CallOf("g", <<n>>))>>)
  IN  <<Declare("n", IntLiteral(1)), Define("f", f), Show(CallOf("f", <<IntLiteral(3)>>)), Show(n)>>

(* fun minus(a: int, b: int): int { return a - b }                         *)
(* print(minus(minus(x, 1), minus(2, y))), a call pending among operands   *)
NestedArguments(x, y) ==
  LET minus == Function(<<IntArgument("a"), IntArgument("b")>>, AnInt,
                        <<Returning(Operation("sub", Var("a"), Var("b")))>>)
      call(params) == CallOf("minus", params)
  IN  <<Define("minus", minus),
        Show(call(<<call(<<IntLiteral(x), IntLiteral(1)>>),
                    call(<<IntLiteral(2), IntLiteral(y)>>)>>))>>

(* fun forever(): int { return forever() }  forever(), with and without a  *)
(* function in the body: the calls exhaust the stack in either case.       *)
Unbounded(body) ==
  <<Define("forever", Function(<< >>, AnInt, body \o <<Returning(CallOf("forever", << >>))>>)),
    Do(CallOf("forever", << >>))>>
UnboundedLeaf(unused) == Unbounded(Unused(unused))
UnboundedHeap == Unbounded(<<Define("f", Function(<< >>, Nil, << >>))>>)

(* fun dig(a: int, b: int): int { return dig(a, dig(b, b)) }  dig(1, 1),   *)
(* arguments left behind at every level                                    *)
Digging ==
  LET again(x, y) == CallOf("dig", <<x, y>>)
      dig == Function(<<IntArgument("a"), IntArgument("b")>>, AnInt,
                      <<Returning(again(Var("a"), again(Var("b"), Var("b"))))>>)
  IN  <<Define("dig", dig), Do(again(IntLiteral(1), IntLiteral(1)))>>

-----------------------------------------------------------------------------
(* Control flow *)

(* for (var i = 0; i < n; i = i + 1) { if (i == 1) { continue }            *)
(*                                     if (i == 3) { break } print(i) }    *)
Loop(n) ==
  LET i == Var("i")
  IN  <<For(Declare("i", IntLiteral(0)), Operation("lt", i, IntLiteral(n)), Increment("i"),
            <<When(Operation("eq", i, IntLiteral(1)), <<Continuing>>),
              When(Operation("eq", i, IntLiteral(3)), <<Breaking>>), Show(i)>>)>>

(* var flag = b  if (flag) { print(1) } *)
Flag(b) ==
  <<Declare("flag", BooleanLiteral(b)), When(Var("flag"), <<Show(IntLiteral(1))>>)>>

(* var flag = true  var r = 3 < 2  if (flag) { print(1) } *)
StaleComparison ==
  <<Declare("flag", BooleanLiteral(1)),
    Declare("r", Operation("lt", IntLiteral(3), IntLiteral(2))),
    When(Var("flag"), <<Show(IntLiteral(1))>>)>>

(* var f: fun<Void>  f() *)
NullCallee == <<DeclareAs("f", FunOf(<<Nil>>), Nothing), Do(CallOf("f", << >>))>>

(* fun call(f: fun<Any,Void>) { f(null) }  call(print): the callback is    *)
(* called by CALL although it is a native.                                 *)
NativeCallback ==
  LET call == Function(<<Argument("f", FunOf(<<Anything, Nil>>))>>, Nil,
                       <<Do(CallOf("f", <<NullLiteral>>))>>)
  IN  <<Define("call", call), Do(CallOf("call", <<Var("print")>>))>>

(* fun isPrime(num: int): boolean {                                        *)
(*   for (var i = 2; i < num; i = i + 1) { if (num % i == 0) { return false } } *)
(*   return true }                                                         *)
(* for (var num = 2; num < limit; num = num + 1)                           *)
(*   { if (isPrime(num)) { print(num) } }                                  *)
Primes(limit) ==
  LET num == Var("num")
      i == Var("i")
      from2(name, end, block) ==
        For(Declare(name, IntLiteral(2)), Operation("lt", Var(name), end), Increment(name), block)
      divides == Operation("eq", Operation("mod", num, i), IntLiteral(0))
      isPrime == Function(<<IntArgument("num")>>, ABoolean,
                   <<from2("i", num, <<When(divides, <<Returning(BooleanLiteral(0))>>)>>),
                     Returning(BooleanLiteral(1))>>)
  IN  <<Define("isPrime", isPrime),
        from2("num", IntLiteral(limit), <<When(CallOf("isPrime", <<num>>), <<Show(num)>>)>>)>>

(* for (var i = 0; i < 3; i = i + 1) {                                     *)
(*   for (var j = 0; j < 3; j = j + 1) {                                   *)
(*     if (j == i) { continue } else if (j == 2) { break }                 *)
(*     print(i + j) }                                                      *)
(*   if (i == 2) { break } print(i) }                                      *)
NestedLoops ==
  LET i == Var("i")
      j == Var("j")
      loop(name, block) == For(Declare(name, IntLiteral(0)),
                               Operation("lt", Var(name), IntLiteral(3)), Increment(name), block)
      is2(v) == Operation("eq", v, IntLiteral(2))
      inner == <<Choose(Operation("eq", j, i), <<Continuing>>, <<When(is2(j), <<Breaking>>)>>),
                 Show(Operation("add", i, j))>>
  IN  <<loop("i", <<loop("j", inner), When(is2(i), <<Breaking>>), Show(i)>>)>>

-----------------------------------------------------------------------------
(* Overloads, generics, function values: what the programs of test_files   *)
(* do, with shorter texts                                                  *)

Text2(a, b) == Operation("add", a, b)
Say(s) == Show(StringLiteral(s))
StringArgument(ident) == Argument(ident, AString)

(* named_functions.ze *)
NamedFunctions ==
  LET test(name, arguments, params) ==
        Define("test", Function(arguments, AString,
          <<Returning(Text2(StringLiteral(name), CallOf("other", params)))>>))
      generic(typeArguments, arguments, said) ==
        Define("generic", GenericFunction(typeArguments,
          <<Argument("arg", Described("T"))>> \o arguments, Described("T"),
          said \o <<DeclareAs("ret", Described("T"), Var("arg")), Returning(Var("ret"))>>))
      anyT == Argument("T", Anything)
      a == StringLiteral("a")
      b == StringLiteral("b")
      five == IntLiteral(5)
      with(asts, params) == Show(CallingWith(asts, Var("generic"), params))
  IN  <<Show(CallOf("test", << >>)), Show(CallOf("test", <<five>>)),
        Show(CallOf("test", <<a>>)), Show(CallOf("test", <<a, five>>)),
        with(<< >>, <<a>>), with(<< >>, <<a, b>>), with(<< >>, <<a, five>>),
        with(<<AString>>, <<a>>), with(<<AString>>, <<a, b>>), with(<<AString, AnInt>>, <<a, five>>),
        test("test", << >>, << >>),
        test("overload 1", <<IntArgument("i")>>, << >>),
        test("overload 2", <<StringArgument("str")>>, <<a>>),
        test("overload 3", <<StringArgument("str"), IntArgument("i")>>, << >>),
        generic(<<anyT>>, << >>, << >>),
        generic(<<anyT>>, <<StringArgument("str")>>, <<Say("2")>>),
        generic(<<anyT, Argument("K", AnInt)>>, <<Argument("i", Described("K"))>>, <<Say("3")>>),
        Define("other", Function(<< >>, AString, <<Returning(StringLiteral("other"))>>)),
        Define("other", Function(<<StringArgument("str")>>, AString,
                                 <<Returning(Text2(StringLiteral("other"), Var("str")))>>))>>

(* The same behind three loops that are never entered.  Their temporaries,  *)
(* which nobody uses, make up for the slots that the size of the frame     *)
(* forgets when there are overloads.                                       *)
PaddedNamedFunctions ==
  LET loop(block) == <<For(Nothing, Var("no"), Assigned("n", Var("n")), block)>>
  IN  <<Declare("no", BooleanLiteral(0)), DeclareAs("n", AnInt, Nothing)>>
        \o loop(loop(loop(<< >>))) \o NamedFunctions

(* type_parameters.ze, without the function that computes with a T *)
TypeParameters ==
  LET T == Described("T")
      P == Described("P")
      anyT == <<Argument("T", Anything)>>
      arg == <<Argument("arg", T)>>
      identity == GenericFunction(anyT, arg, T,
                    <<DeclareAs("ret", T, Var("arg")), Returning(Var("arg"))>>)
      inner == Function(<<StringArgument("str")>>, T,
                 <<Show(Var("str")), DeclareAs("result", T, Var("arg")), Returning(Var("result"))>>)
      secondOrder == GenericFunction(anyT, arg, FunOf(<<AString, T>>), <<Returning(Lambda(inner))>>)
      made(name, ast, e) == DeclareAs(name, FunOf(<<AString, ast>>), CallOf("second", <<e>>))
      plus == Lambda(Function(<<IntArgument("i")>>, AnInt,
                              <<Returning(Operation("add", Var("i"), IntLiteral(10)))>>))
      ofP == GenericFunction(<<Argument("P", Anything)>>, <<Argument("p", P)>>, P,
                             <<Returning(Var("p"))>>)
      outer == GenericFunction(anyT, <<Argument("t", T)>>, T,
                 <<Declare("inner", Lambda(ofP)),
                   Returning(CallingWith(<<T>>, Var("inner"), <<Var("t")>>))>>)
      osman == StringLiteral("osman")
      shown(name, params) == Show(CallOf(name, params))
  IN  <<Declare("identity", Lambda(identity)),
        DeclareAs("n", AnInt, CallOf("identity", <<IntLiteral(3)>>)),
        DeclareAs("s", AString, CallingWith(<<AString>>, Var("identity"), <<osman>>)),
        Show(Var("n")), Show(Var("s")),
        Declare("second", Lambda(secondOrder)),
        made("f", ADecimal, DecimalLiteral(6)), made("g", AString, osman),
        made("h", AnInt, Negated(IntLiteral(5))),
        shown("f", <<osman>>), shown("g", <<osman>>), shown("h", <<osman>>),
        Declare("k", CallingWith(<<FunOf(<<AnInt, AnInt>>)>>, Var("identity"), <<plus>>)),
        shown("k", <<IntLiteral(5)>>),
        Declare("outer", Lambda(outer)),
        DeclareAs("t", AString, CallOf("outer", <<osman>>)), Show(Var("t"))>>

(* functions.ze *)
FunctionValues ==
  LET ofString == FunOf(<<AString>>)
      look == StringLiteral("look")
      declare(name, f) == Declare(name, Lambda(f))
      inner == Procedure(<< >>, <<Say("inner")>>)
      outer == Procedure(<< >>, <<Say("outer"), declare("inner", inner), Do(CallOf("inner", << >>))>>)
      message == Function(<<StringArgument("message")>>, ofString,
                   <<Returning(Lambda(Function(<< >>, AString,
                                <<Returning(Text2(look, Var("message")))>>)))>>)
      both == Function(<<StringArgument("a"), StringArgument("b")>>, AString,
                       <<Returning(Text2(Var("a"), Var("b")))>>)
      taking == Function(<<Argument("fn", ofString)>>, AString,
                         <<Say("hey"), Returning(CallOf("fn", << >>))>>)
      callback == Function(<< >>, AString, <<Returning(Text2(look, Var("something")))>>)
      main == Procedure(<< >>,
                <<Do(CallOf("outer", << >>)), Show(CallOf("both", <<look, StringLiteral("b")>>)),
                  Show(Calling(CallOf("message", <<look>>), << >>)),
                  Declare("something", StringLiteral("something")),
                  Show(CallOf("taking", <<Lambda(callback)>>))>>)
  IN  <<declare("outer", outer), declare("message", message), declare("both", both),
        declare("taking", taking), declare("main", main), Do(CallOf("main", << >>))>>

(* Programs of the repository. *)
TestFiles == {PaddedNamedFunctions, TypeParameters, FunctionValues}

-----------------------------------------------------------------------------
(* Opcodes, one at a time: print of an operation on operands no literal    *)
(* denotes, in the shape of the code for print(a op b).                    *)

MovInt(n, d) == Instr("MOV_INT", n, 0, d)
MovDec(x, d) == Instr("MOV_DECIMAL", x, 0, d)
PrintSlot(s, d) == <<Instr("PUSH", s, 0, 0), Instr("CALL_NATIVE", 1, 1, d)>>
Enter(opcode, name, size) == <<Label(name), Instr(opcode, size, 0, 0)>>
Ending == <<Instr("RET", 0, 0, 0)>>

Calculation(opcode, a, b) ==
  Loaded(Merge(<<Enter("FN_ENTER_HEAP", "root", 5), <<a, b, Instr(opcode, 2, 3, 4)>>,
                 PrintSlot(4, 4), Ending>>))
UnaryCalculation(opcode, a) ==
  Loaded(Merge(<<Enter("FN_ENTER_HEAP", "root", 4), <<a, Instr(opcode, 2, 0, 3)>>,
                 PrintSlot(3, 3), Ending>>))

(* Everything print can be given, and the opcodes no source construct of   *)
(* the present language uses.                                              *)
Printing ==
  Loaded(Merge(<<
    Enter("FN_ENTER_HEAP", "root", 5),
    <<Instr("MOV_FNC", "f", 0, 2)>>, PrintSlot(2, 3),
    <<Instr("MOV_NULL", 0, 0, 2)>>, PrintSlot(2, 3),
    <<Instr("MOV_STRING", <<"a">>, 0, 2), Instr("MOV_STRING", <<"b">>, 0, 3),
      Instr("ADD_STRING", 2, 3, 2)>>, PrintSlot(2, 3),
    <<Instr("MOV_BOOLEAN", 1, 0, 2)>>, PrintSlot(2, 3), PrintSlot(1, 3), PrintSlot(4, 3),
    <<Instr("SET_IN_OBJECT", 0, 0, 0), Instr("GET_IN_OBJECT", 0, 0, 0),
      Instr("PUSH", 2, 0, 0), Instr("POP", 0, 0, 3)>>, Ending,
    Enter("FN_ENTER_STACK", "f", 1), Ending>>))

=============================================================================
