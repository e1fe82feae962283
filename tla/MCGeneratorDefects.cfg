SPECIFICATION Spec
CONSTANTS
  INT_MAX = 127
  STACK_MAX = 100
  Programs <- DefectivePrograms
INVARIANTS
  PrintsMeaning
