SPECIFICATION HSpec
CONSTANTS
  INT_MAX = 127
  STACK_MAX = 60
  Programs <- DifferingPrograms
INVARIANTS
  PrintsMeaning
