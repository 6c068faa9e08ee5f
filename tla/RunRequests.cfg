SPECIFICATION SystemFairSpec
CHECK_DEADLOCK FALSE
CONSTANTS
  k1 = k1
  k2 = k2
  MaxCalls = 3
  Keys <- MCKeys
  MaxRuns = 2
  Requests <- MCRequests
  Nothing = Nothing
  MaxContinuations = 1
  MaxFaults = 2
  MaxCrashes = 1
INVARIANTS
  OneSuccessor
  OneRunPerRequest
  RefusalLeavesNothing
PROPERTIES
  NeverReplayed
  EveryCallReturns
