SPECIFICATION FairSpec
CONSTANTS
  f1 = f1
  b1 = b1
  Foreground <- MCForeground
  Background <- MCBackground
  MaxRuns = 1
  Settings <- MCSettings
  MaxCrashes = 1
INVARIANTS
  ActiveRowIsOwned
  StatusesAgree
PROPERTIES
  RowsMoveForward
  EveryRunSettles
