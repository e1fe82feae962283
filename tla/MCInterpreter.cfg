SPECIFICATION HFairSpec
CONSTANTS
  INT_MAX = 127
  STACK_MAX = 60
  Programs <- MCPrograms
INVARIANTS
  FramesTypeOK
  RegistersMatchFrame
  LinkageIntact
  ResumesInCaller
  FramesDisjoint
  ContextsOwned
  NothingCapturesStack
  ScopesAreLexical
  UndefinedCauses
PROPERTIES
  ReturnRestoresCaller
  ArgumentsArrive
  IntegersExact
  ImplementsActivations
  Terminates
