---------------------------- MODULE MCContextLayout ----------------------------
(* ContextLayout for two names; among the types two of functions, one of   *)
(* which is the text of two TypeInfo objects.                              *)
EXTENDS ContextLayout

MCTypes == {<<"Any", 1>>, <<"int", 1>>, <<"fun<int,>", 1>>, <<"fun<int,>", 2>>, <<"fun<Any,>", 1>>}
MCFunctionTypes == {<<"fun<int,>", 1>>, <<"fun<int,>", 2>>, <<"fun<Any,>", 1>>}
MCTextOf(type) == type[1]
MCAnyType == <<"Any", 1>>
MCIntType == <<"int", 1>>

=============================================================================
