SPECIFICATION Spec
CONSTANTS
  TextOf <- MCTextOf
  Types <- MCTypes
  Idents <- MCIdents
  FunctionTypes <- MCFunctionTypes
  Calls <- MCCalls
  MaxOverloads = 3
CHECK_DEADLOCK FALSE
INVARIANTS
  ChosenIsTheOnlySuitable
PROPERTIES
  NeverTakenOver
