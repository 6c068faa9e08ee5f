SPECIFICATION DefinitionsSpec
CHECK_DEADLOCK FALSE
SYMMETRY ClientSymmetry
CONSTANTS
  a1 = a1
  a2 = a2
  s1 = s1
  s2 = s2
  x1 = x1
  p1 = p1
  old = old
  new = new
  c1 = c1
  c2 = c2
  Agents <- MCAgents
  Squads <- MCSquads
  Sessions <- MCSessions
  Projects <- MCProjects
  Contents <- MCContents
  SquadRecords <- MCSquadRecords
  Documents <- MCDocuments
  StartGraphs <- MCStartGraphs
  Nothing = Nothing
  NoSquad = NoSquad
  NoAgent = NoAgent
  Clients = {c1, c2}
  Operations <- MCOperations
  KeepVersions = 2
  MaxOperations = 2
  MaxMishaps = 1
  RestoreMayFail = TRUE
INVARIANTS
  GraphIsClosed
PROPERTIES
  HistoryIsRight
  AppliedAsPreviewed
  ImplementsAtomicDefinitions
