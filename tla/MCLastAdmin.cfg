SPECIFICATION MembersSpec
CONSTANTS
  cap = cap
  floor = floor
  e1 = e1
  e2 = e2
  e3 = e3
  o1 = o1
  chi = chi
  det = det
  n1 = n1
  n2 = n2
  ann = ann
  bob = bob
  cat = cat
  i1 = i1
  i2 = i2
  a1 = a1
  a2 = a2
  j1 = j1
  j2 = j2
  h1 = h1
  None = None
  Handlers = {h1}
  Events <- MCEvents
  Keys = {cap, floor}
  FirstValue <- MCFirstValue
  Values = {1, 2}
  Editors = {e1, e2, e3}
  Role <- MCRole
  MaxVersion = 3
  MaxFailures = 1
  NoEdit = NoEdit
  Orgs = {o1}
  Clubs = {chi, det}
  NhlPlayers = {n1, n2}
  FirstClub <- MCFirstClub
  NhlYears = 2
  LeagueYears = 2
  Requests = {e1, e2}
  OrgOf <- MCOrgOf
  UserRole <- MCRole
  SerialModes = {TRUE, FALSE}
  MaxRequests = 4
  MaxTrades = 1
  MaxDeaths = 1
  Nothing = None
  FreeSeats = 1
  Users = {ann, bob, cat}
  Invites = {i1, i2}
  AdminSlots = {a1, a2}
  JoinSlots = {j1, j2}
  Databases = {TRUE, FALSE}
  InviteOnly = TRUE
  Offers <- MCOffers
  NewRoles <- MCNewRoles
  FirstRoles <- MCTwoAdmins
  Accounts = {ann, bob}
  MaxRows = 3
SYMMETRY MembersSymmetry
INVARIANT KeepsAnAdmin
CHECK_DEADLOCK FALSE
