SPECIFICATION FairSpec
CHECK_DEADLOCK FALSE
CONSTANTS
  Modes <- MCModes
  Clicks <- MCClicks
  MaxActs = 2
  MaxWrites = 1
  MaxFaults = 1
INVARIANTS
  RefreshIsFresh
  RestShowsTheMode
PROPERTIES
  ComposerSettles
  ModeIsFoundOut
