SPECIFICATION Spec
CONSTANTS
  h1 = h1
  t1 = t1
  Hooks <- MCHook
  Tools <- MCTool
  Triggers <- MCTriggers
  MaxMessages = 3
  MaxChoices = 2
  MaxClaims = 2
  MaxCrashes = 2
INVARIANTS
  ChoicesHonoured
PROPERTIES
  UnclaimedChoiceKept
