SPECIFICATION Spec
CONSTANTS
  INT_MAX = 127
  Compilations <- MCCompilations
CHECK_DEADLOCK FALSE
INVARIANTS
  ImagesWellFormed
  StrayJumpsRefused
  CompilerDefined
