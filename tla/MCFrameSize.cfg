SPECIFICATION Spec
CONSTANTS
  Idents = {"f", "x"}
  Literals = {7}
  MaxSlots = 5
  Types <- MCTypes
  FunctionTypes <- MCFunctionTypes
  TextOf <- MCTextOf
  AnyType <- MCAnyType
  IntType <- MCIntType
CHECK_DEADLOCK FALSE
INVARIANTS
  FrameHoldsSlots
