SPECIFICATION Spec
CONSTANTS
  h1 = h1
  t1 = t1
  Hooks <- MCHook
  Tools <- MCNone
  Triggers <- MCGuaranteed
  MaxMessages = 1
  MaxChoices = 1
  MaxClaims = 1
  MaxCrashes = 1
PROPERTIES
  SoloChoiceHonoured
