SPECIFICATION Spec
CONSTANTS
  INT_MAX = 127
  Compilations <- JumpingOut
CHECK_DEADLOCK FALSE
INVARIANTS
  ImagesWellFormed
