CONSTANTS
  Resources <- MCResources
  Pairs <- MCPairs
SPECIFICATION Spec
INVARIANTS
  TypeOK
  EveryIdOnce
  ReportIsTheDifference
