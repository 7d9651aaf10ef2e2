CONSTANTS
  Requests <- MCSilent
  Scopes = 1
  NumPages = 2
  FirstPages = 2
  PerPage = 2
  MaxFailures = 2
SPECIFICATION Spec
INVARIANTS
  NoSilentGap
