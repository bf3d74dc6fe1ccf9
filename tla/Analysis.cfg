SPECIFICATION Spec
CONSTANTS
  a1 = a1
  a2 = a2
  a3 = a3
  k1 = k1
  lost = lost
  NULL = NULL
  Top = 9
  MaxDepth = 6
  DescentDepth = 5
  MaxResults = 2
  MaxTraces = 3
  Intervals <- MCIntervals
  Contexts <- MCContexts
  KernelSymbols <- MCKernelSymbols
  Processes <- MCProcesses
  Traceables <- MCTraceables
  FlagSets <- MCFlagSets
INVARIANTS
  LookupRight
  Balanced
  TreeRight
  ContextsTold
  ListsRight
CHECK_DEADLOCK FALSE
