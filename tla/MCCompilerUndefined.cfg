SPECIFICATION Spec
CONSTANTS
  INT_MAX = 127
  Compilations <- Undefined
CHECK_DEADLOCK FALSE
INVARIANTS
  CompilerDefined
