SPECIFICATION FairSpec
CONSTANTS
  NoBudget = NoBudget
  N = 3
  Squads <- MCSquads
  ScopeFaults = TRUE
INVARIANTS
  StatusMatchesMembers
  BudgetOvershootBounded
PROPERTIES
  StartsAreAllowed
  EveryDispatchSettles
