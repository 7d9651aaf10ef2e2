CONSTANTS
  Requests <- MCSQL
  Scopes = 1
  NumPages = 2
  FirstPages = 2
  PerPage = 2
  MaxFailures = 2
SPECIFICATION Spec
PROPERTIES
  Termination
