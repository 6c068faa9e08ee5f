SPECIFICATION FairSpec
CHECK_DEADLOCK FALSE
CONSTANTS
  unlimited = unlimited
  NoBudget = unlimited
  Settings <- MCAnyRun
  MaxTokens = 2
  Inherited = {0, 1}
  MaxFaults = 1
INVARIANTS
  UsageIsHonest
  CompletedIsApproved
PROPERTIES
  NoChildOnSpentBudget
  RunSettles
