SPECIFICATION OutSpec
CONSTANTS
  h1 = h1
  h2 = h2
  r1 = r1
  r2 = r2
  r3 = r3
  r4 = r4
  v1 = v1
  v2 = v2
  g1 = g1
  None = None
  Nothing = Nothing
  Junk = Junk
  Visits = {v1, v2}
  Dates = {"now", "today"}
  Games = {g1}
  Seasons = {"2025-26"}
  TurnOfYear <- MCTurnOfYear
  Reports = 2
  LiveTtl = 1
  QuietTtl = 2
  InSeasonTtl = 1
  MaxTime = 3
  MaxVersion = 1
  Hosts <- MCHosts
  Requests <- MCRequests
  Interval <- MCInterval
  Early = 1
  IdleTime = 3
INVARIANTS
  FinishedSeason
CHECK_DEADLOCK FALSE
