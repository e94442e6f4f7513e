SPECIFICATION Spec
CONSTANTS
  Table <- MCTable
  Accessing <- MCAccessing
  Depth <- MCDepth
  Terminals <- MCTerminals
  Inputs <- ManyFiles
  Limit = 4
INVARIANTS
  StacksInStep
  ReductionsFindValues
  EachTokenReportedOnce
  TreeKeepsOrder
  KeepsWhatWasTyped
  GivesUpOnlyOutside
