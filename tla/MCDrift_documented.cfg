CONSTANTS
  Resources <- MCResources
  Pairs <- MCDocumented
SPECIFICATION Spec
INVARIANTS
  ReportAsDocumented
