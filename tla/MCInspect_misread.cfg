CONSTANTS
  Objects <- MCObjects
  Attr <- MCAttr
  Types <- MCTypes
  ProviderNames <- MCProviderNames
  Accounts <- MCAccounts
  Regions <- MCRegions
  Tags <- MCTags
  Compiled <- MCCompiled
  Configs <- MCConfigs
  FlagChoices <- MCMisread
  Stopped <- MCStopped
  Running <- MCRunning
  Numbers <- MCNumbers
  Booleans <- MCBooleans
  Lower <- MCLower
  Dates <- MCDates
  Days <- MCDays
SPECIFICATION Spec
INVARIANTS
  ExportIsTheScan
