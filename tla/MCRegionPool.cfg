CONSTANTS
  NumRegions = 3
  NumGlobal = 1
  NumRegional = 2
  MaxWorkers = 4
  Found <- MCFound
  CtxValues <- MCCtxValues
SPECIFICATION Spec
INVARIANTS
  TypeOK
  IInv
  MergeAtomic
  SendsNeverBlock
  ClosedAfterWorkers
  NeverStuck
PROPERTIES
  ContractSpec
  AppendOnly
  OnlyForward
  Termination
