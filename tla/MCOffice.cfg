SPECIFICATION OfficeSpec
CONSTANTS
  f1 = f1
  f2 = f2
  d1 = d1
  d2 = d2
  r1 = r1
  r2 = r2
  r3 = r3
  u1 = u1
  u2 = u2
  a1 = a1
  a2 = a2
  t1 = t1
  t2 = t2
  ann = ann
  bob = bob
  p1 = p1
  p2 = p2
  p3 = p3
  e1 = e1
  e2 = e2
  m1 = m1
  jo = jo
  al = al
  None = None
  Users = {ann, bob}
  Role <- MCRole
  Prospects = {p1, p2, p3}
  Group <- MCGroup
  RoleScore <- MCRoleScore
  FitScore <- MCFitScore
  FirstOrder <- MCFirstOrder
  Editors = {e1}
  Submitters = {q1}
  Scouts = {s1, s2}
  ScoutRanks = {1, 2}
  DirectorRanks = {1}
  Forms <- MCForms
  Statuses = {"active", "locked", "archived"}
  MaxFailures = 2
  MaxVersion = 6
SYMMETRY OfficeSymmetry
INVARIANTS
  RanksTold
  HistoryTold
  VersionsTold
  FailuresHeal
  ConsensusOfRankings
  OthersTold
  OneOrganization
  ScoresWhole
PROPERTIES
  LastWriterTold
CHECK_DEADLOCK FALSE
