SPECIFICATION FetchSpec
CONSTANTS
  r1 = r1
  r2 = r2
  Junk = Junk
  Absent = Absent
  Zero = Zero
  v = v
  w = w
  g = g
  None = None
  Runs = {r1, r2}
  Org <- MCOrg
  Ids <- MCIds
  Forms <- MCForms
  Teams <- MCTeams
  MaxPlayers = 3
  MaxLogs = 3
  Ttl = 2
  Timeout = 1
  TrainedAt <- MCTrainedAt
  MaxTime = 2
  MaxVersion = 1
INVARIANTS
  StagedAsSaid
  Traceable
  NothingHalf
PROPERTIES
  TablesTold
CHECK_DEADLOCK FALSE
