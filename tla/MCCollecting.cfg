CONSTANTS
  Requests <- MCRequests
  Scopes = 2
  NumPages = 2
  FirstPages = 2
  PerPage = 2
  MaxFailures = 2
SPECIFICATION RecoveringSpec
INVARIANTS
  TypeOK
  GapsExplained
  OnlyRequestedTypes
  SupportedIsCollected
  ListedInOrder
  StepsPaced
PROPERTIES
  ContractSpec
  OnlyForward
  Termination
