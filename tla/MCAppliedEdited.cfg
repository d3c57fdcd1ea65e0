SPECIFICATION RacesSpec
CONSTANTS
  c1 = c1
  c2 = c2
  c3 = c3
  c4 = c4
  c5 = c5
  p1 = p1
  p2 = p2
  p3 = p3
  p4 = p4
  p5 = p5
  s1 = s1
  s2 = s2
  r1 = r1
  r2 = r2
  r3 = r3
  t1 = t1
  t2 = t2
  t3 = t3
  t4 = t4
  t5 = t5
  None = None
  Contracts <- MCContracts
  Players <- MCPlayers
  Seasons <- MCSeasons
  Requests <- Two
  Scenarios <- MCScenarios
  Exclusive = TRUE
  Rules <- MCRules
  Base = 1
  Officials <- MCOfficials
  Plans <- MCPlans
  RowIds <- MCRowIds
  Editable <- JustS1
  EditMoves <- Empty
  MaxRows = 2
  NewRows <- MCNewRows
  Signable <- Empty
  Terminable <- Empty
  StatusEdits <- Empty
  ScenarioEdits <- Empty
PROPERTIES
  AppliedIsReadOnly
CHECK_DEADLOCK FALSE
