SPECIFICATION AlgorithmsSpec
CHECK_DEADLOCK FALSE
CONSTANTS
  Members <- MCMembers
  Strangers <- MCStrangers
  Proposals <- MCProposals
  RequireAll = FALSE
  Sources <- MCSources
  Requests <- MCRequests
  MaxChars = 16
  MaxWidth = 3
  Frame <- MCFrame
  Note = 2
  Chains <- MCChains
INVARIANTS
  PlansAreExact
  ChainFits
  ChainIsFair
