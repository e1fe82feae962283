------------------------- MODULE MCOverloadResolution -------------------------
(* Functions that differ in the number, the types and the type parameters  *)
(* of their arguments, and all calls with up to two parameters.            *)
EXTENDS OverloadResolution

Model == INSTANCE TypeModel
MCTextOf(t) == Model!Text(t)

Taking(types) == FunctionType(<< >>, types \o <<VoidType>>, FALSE)
Producer == FunctionType(<< >>, <<IntType>>, FALSE)
Generic(boundary, rest) ==
  LET T == TypeParameter("T", boundary)
  IN  FunctionType(<<[ident |-> "T", type |-> T]>>, <<T>> \o rest \o <<T>>, FALSE)
Open ==
  FunctionType(<<[ident |-> "T", type |-> TypeParameter("T", AnyType)]>>, <<IntType, VoidType>>,
               FALSE)

MCFunctionTypes ==
  {Taking(<< >>), Taking(<<IntType>>), Taking(<<DecimalType>>), Taking(<<StringType>>),
   Taking(<<AnyType>>), Taking(<<Producer>>), Taking(<<StringType, IntType>>),
   Taking(<<AnyType, DecimalType>>), Generic(IntType, << >>), Generic(AnyType, <<StringType>>),
   Open}

Given == {IntType, DecimalType, StringType, BooleanType, AnyType, NullType, VoidType, Producer,
          Taking(<< >>), TypeParameter("P", IntType)}
MCTypes ==
  Given \cup {TypeParameter("T", IntType), TypeParameter("T", AnyType), VoidType}
MCIdents == {"T"}
MCCalls ==
  [explicit : {<< >>, <<IntType>>, <<StringType>>, <<IntType, IntType>>},
   given : {<< >>} \cup {<<t>> : t \in Given} \cup (Given \X {IntType, StringType, NullType})]

=============================================================================
