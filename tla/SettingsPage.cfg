SPECIFICATION PageSpec
CHECK_DEADLOCK FALSE
CONSTANTS
  alpha = alpha
  beta = beta
  none = none
  v0 = v0
  mine = mine
  theirs = theirs
  doc1 = doc1
  doc2 = doc2
  nodoc = nodoc
  Teams <- MCTeams
  FirstTeam = alpha
  NoTeam = none
  Original = v0
  Docs <- MCDocs
  NoDoc = nodoc
  Mine = mine
  Theirs = theirs
  Scopes <- MCScopes
SYMMETRY DocSymmetry
INVARIANTS
  TypedIsKept
  OverwriteIsAsked
  AppliedAsShown
