SPECIFICATION HSpec
CONSTANTS
  INT_MAX = 127
  STACK_MAX = 60
  Programs <- MCPrograms
INVARIANTS
  TypeOK
  RegistersMatchFrame
  LinkageIntact
  NothingCapturesStack
  ScopesAreLexical
  NativeStackAgrees
  FusedBranchAgrees
  DefinedBehaviour
PROPERTIES
  ReturnRestoresCaller
  ArgumentsArrive
  IntegersExact
  ImplementsActivations
