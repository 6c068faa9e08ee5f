SPECIFICATION FairSpec
CHECK_DEADLOCK FALSE
CONSTANTS
  r1 = r1
  r2 = r2
  none = none
  Runs <- MCRuns
  NoRun = none
  Settled = 2
  MaxPolls = 2
  Budgets <- MCBudgets
INVARIANTS
  OnePollChain
PROPERTIES
  PollsShowWhatWasDone
  ViewCatchesUp
