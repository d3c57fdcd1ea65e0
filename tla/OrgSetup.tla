------------------------------ MODULE OrgSetup ------------------------------
(***************************************************************************)
(* Organizations, leagues, teams and NHL clubs set up (orgActions.ts,      *)
(* nhlClubService.ts, nhlClubActions.ts).                                  *)
(*                                                                         *)
(* An organization, and a team with a league of its own, are inserted row  *)
(* by row without a transaction.  A club is fetched from the NHL and       *)
(* written in one: PGlite runs one transaction at a time, Postgres several *)
(* side by side, each seeing what is committed.  What a transaction writes *)
(* is in its request's work until it commits.                              *)
(***************************************************************************)
EXTENDS Integers, FiniteSets, Roles

CONSTANTS
  Orgs,         \* the organizations that may be made
  Clubs,        \* NHL clubs; a team's abbreviation is one of them or Nothing
  NhlPlayers,   \* the players of the NHL
  FirstClub,    \* FirstClub[n]: n's club to begin with
  NhlYears,     \* the seasons of NHL_SEASON_FACTS
  LeagueYears,  \* the seasons of a league made with a team, 1..4 in the code
  Requests,     \* requests, each one at a time
  OrgOf,        \* OrgOf[e]: the organization whose requests e are
  UserRole,     \* UserRole[e]: the role of e's user there
  SerialModes,  \* the values of serial to run with
  MaxRequests,  \* bound: requests begun
  MaxTrades,    \* bound: players who change their club
  MaxDeaths,    \* bound: requests that fail or die with their server
  Nothing       \* null

VARIABLES
  serial,    \* TRUE on PGlite: one transaction at a time
  orgs,      \* the organizations that have a row
  staffed,   \* those whose maker is a member
  leagues,   \* leagues: [id, kind], kind "nhl" or "custom"
  seasons,   \* rows of league_seasons: [league, year]
  ruled,     \* the seasons whose rules are inserted
  teams,     \* teams: [id, org, league, club, active]
  players,   \* players[o][n]: the row of NHL player n in o, Nothing if none
  rosters,   \* members of official rosters: [team, season, player]
  nhl,       \* the NHL: the club of each player
  stage,     \* where each request stands
  work,      \* what each request has read and goes on with
  begun,     \* how many requests were begun
  trades,    \* how many players have changed their club
  failures   \* how many requests were cut short

setupTables == <<orgs, staffed, leagues, seasons, ruled, teams, players, rosters>>
setupVars == <<serial, setupTables, nhl, stage, work, begun, trades, failures>>

SetupInit ==
  /\ serial \in SerialModes
  /\ orgs = {} /\ staffed = {}
  /\ leagues = {} /\ seasons = {} /\ ruled = {}
  /\ teams = {}
  /\ players = [o \in Orgs |-> [n \in NhlPlayers |-> Nothing]]
  /\ rosters = {}
  /\ nhl = FirstClub
  /\ stage = [e \in Requests |-> "idle"]
  /\ work = [e \in Requests |-> Nothing]
  /\ begun = 0 /\ trades = 0 /\ failures = 0

MoveTo(e, label, data) ==
  /\ stage' = [stage EXCEPT ![e] = label]
  /\ work' = [work EXCEPT ![e] = data]

Proceed(e, label, data) == MoveTo(e, label, data) /\ UNCHANGED <<nhl, begun, trades, failures>>

Start(e, label, data) ==
  /\ stage[e] = "idle"
  /\ begun < MaxRequests
  /\ MoveTo(e, label, data)
  /\ begun' = begun + 1
  /\ UNCHANGED <<nhl, trades, failures>>

Transacting(e) == stage[e] \in {"team", "players", "roster", "commit"}

(* On PGlite a statement waits for the transaction that runs.              *)
Unblocked(e) == serial => \A d \in Requests \ {e} : ~Transacting(d)

-----------------------------------------------------------------------------
(* createOrganizationAction                                                *)
CreateOrganization(e) ==
  /\ Unblocked(e)
  /\ OrgOf[e] \notin orgs
  /\ Start(e, "member", Nothing)
  /\ orgs' = orgs \cup {OrgOf[e]}
  /\ UNCHANGED <<staffed, leagues, seasons, ruled, teams, players, rosters>>

InsertMember(e) ==
  /\ stage[e] = "member" /\ Unblocked(e)
  /\ staffed' = staffed \cup {OrgOf[e]}
  /\ Proceed(e, "idle", Nothing)
  /\ UNCHANGED <<orgs, leagues, seasons, ruled, teams, players, rosters>>

-----------------------------------------------------------------------------
(* createTeamAction with a new league: for each of its years a season and  *)
(* then that season's rules, and the team last.                            *)
League(id, kind) == [id |-> id, kind |-> kind]
SeasonRow(l, y) == [league |-> l, year |-> y]
Team(id, o, l, club) == [id |-> id, org |-> o, league |-> l, club |-> club, active |-> TRUE]

Manages(e, capability) == OrgOf[e] \in staffed /\ Can(UserRole[e], capability)

CreateLeague(e, club) ==
  LET id == <<e, begun + 1>> IN
  /\ Manages(e, "manage_team") /\ Unblocked(e)
  /\ Start(e, "season", [league |-> id, year |-> 1, club |-> club])
  /\ leagues' = leagues \cup {League(id, "custom")}
  /\ UNCHANGED <<orgs, staffed, seasons, ruled, teams, players, rosters>>

InsertSeason(e) ==
  /\ stage[e] = "season" /\ Unblocked(e)
  /\ seasons' = seasons \cup {SeasonRow(work[e].league, work[e].year)}
  /\ Proceed(e, "rules", work[e])
  /\ UNCHANGED <<orgs, staffed, leagues, ruled, teams, players, rosters>>

(* Fault: the rules of the first season only are inserted.                 *)
InsertRules_First(e) ==
  /\ stage[e] = "rules" /\ Unblocked(e)
  /\ ruled' = IF work[e].year = 1 THEN ruled \cup {SeasonRow(work[e].league, 1)} ELSE ruled
  /\ IF work[e].year = LeagueYears THEN Proceed(e, "insertTeam", work[e])
     ELSE Proceed(e, "season", [work[e] EXCEPT !.year = @ + 1])
  /\ UNCHANGED <<orgs, staffed, leagues, seasons, teams, players, rosters>>

(* Fault: the rules of the season after the one inserted.                  *)
InsertRules_Ahead(e) ==
  /\ stage[e] = "rules" /\ Unblocked(e)
  /\ ruled' = ruled \cup {SeasonRow(work[e].league, work[e].year + 1)}
  /\ IF work[e].year = LeagueYears THEN Proceed(e, "insertTeam", work[e])
     ELSE Proceed(e, "season", [work[e] EXCEPT !.year = @ + 1])
  /\ UNCHANGED <<orgs, staffed, leagues, seasons, teams, players, rosters>>

InsertRules(e) ==
  /\ stage[e] = "rules" /\ Unblocked(e)
  /\ ruled' = ruled \cup {SeasonRow(work[e].league, work[e].year)}
  /\ IF work[e].year = LeagueYears THEN Proceed(e, "insertTeam", work[e])
     ELSE Proceed(e, "season", [work[e] EXCEPT !.year = @ + 1])
  /\ UNCHANGED <<orgs, staffed, leagues, seasons, teams, players, rosters>>

(* createTeamAction in a league that is there already.                     *)
JoinLeague(e, l, club) ==
  /\ Manages(e, "manage_team") /\ Unblocked(e)
  /\ Start(e, "insertTeam", [league |-> l.id, year |-> LeagueYears, club |-> club])
  /\ UNCHANGED setupTables

InsertTeam(e) ==
  /\ stage[e] = "insertTeam" /\ Unblocked(e)
  /\ teams' = teams \cup {Team(<<e, begun>>, OrgOf[e], work[e].league, work[e].club)}
  /\ Proceed(e, "idle", Nothing)
  /\ UNCHANGED <<orgs, staffed, leagues, seasons, ruled, players, rosters>>
-----------------------------------------------------------------------------
(* importNhlClub.                                                          *)
(* The roster is fetched first; one that is empty ends the request.        *)
FetchRoster(e, club, hide) ==
  LET roster == {n \in NhlPlayers : nhl[n] = club} IN
  /\ Manages(e, "admin")
  /\ roster # {}
  /\ Start(e, "fetched", [club |-> club, roster |-> roster, hide |-> hide])
  /\ UNCHANGED setupTables

(* Fault: the league is made anew by each import.                          *)
NhlLeagues_Never == {}

NhlLeagues == {l \in leagues : l.kind = "nhl"}

(* ensureNhlLeague, the first statements of the transaction.               *)
EnsureNhlLeague(e) ==
  /\ stage[e] = "fetched" /\ Unblocked(e)
  /\ \E l \in IF NhlLeagues = {} THEN {League(<<e, begun>>, "nhl")} ELSE NhlLeagues :
       Proceed(e, "team", [club |-> work[e].club, roster |-> work[e].roster, hide |-> work[e].hide, league |-> l,
                           years |-> {y \in 1..NhlYears : SeasonRow(l.id, y) \notin seasons}])
  /\ UNCHANGED setupTables

(* Fault: the club is looked for in the NHL's league only.                 *)
ClubTeams_OfLeague(e) ==
  {t \in teams : t.org = OrgOf[e] /\ t.club = work[e].club /\ t.league = work[e].league.id}

(* The teams that go by the club's abbreviation.                           *)
ClubTeams(e) == {t \in teams : t.org = OrgOf[e] /\ t.club = work[e].club}

(* Fault: the club's own team is hidden with the others.                   *)
Hidden_All(e, t) == IF work[e].hide THEN {x.id : x \in {y \in teams : y.org = OrgOf[e] /\ y.active}} ELSE {}

(* The active teams that go out of sight beside the team t.                *)
Hidden(e, t) ==
  IF work[e].hide THEN {x.id : x \in {y \in teams : y.org = OrgOf[e] /\ y.active /\ y.id # t.id}}
  ELSE {}

(* The team is found or made; one that is not active becomes so.           *)
FindTeam(e) ==
  /\ stage[e] = "team"
  /\ \E t \in IF ClubTeams(e) = {}
               THEN {Team(<<e, begun>>, OrgOf[e], work[e].league.id, work[e].club)}
               ELSE ClubTeams(e) :
       Proceed(e, "players", [club |-> work[e].club, roster |-> work[e].roster, league |-> work[e].league,
                              years |-> work[e].years, team |-> t, show |-> ~t.active, hidden |-> Hidden(e, t)])
  /\ UNCHANGED setupTables

(* Players of the roster are written by another transaction just now.      *)
PlayersLocked(o, P) ==
  \E d \in Requests :
    OrgOf[d] = o /\ stage[d] \in {"roster", "commit"} /\ work[d].roster \cap P # {}

WritePlayers(e) ==
  /\ stage[e] = "players"
  /\ ~PlayersLocked(OrgOf[e], work[e].roster)
  /\ Proceed(e, "roster", work[e])
  /\ UNCHANGED setupTables

(* A player who was not there when e looked is inserted by another         *)
(* transaction: the unique index ends e's.                                 *)
AbortPlayers(e) ==
  /\ stage[e] = "players"
  /\ PlayersLocked(OrgOf[e], {n \in work[e].roster : players[OrgOf[e]][n] = Nothing})
  /\ Proceed(e, "idle", Nothing)
  /\ UNCHANGED setupTables

(* Fault: the roster is written outside the transaction.                   *)
WriteRoster_Outside(e) ==
  /\ stage[e] = "roster"
  /\ rosters' = rosters \cup {[team |-> work[e].team.id, season |-> SeasonRow(work[e].league.id, 1),
                               player |-> n] : n \in work[e].roster}
  /\ Proceed(e, "commit", work[e])
  /\ UNCHANGED <<orgs, staffed, leagues, seasons, ruled, teams, players>>

(* The official roster of the season of today, the first of the league.    *)
WriteRoster(e) ==
  /\ stage[e] = "roster"
  /\ Proceed(e, "commit", work[e])
  /\ UNCHANGED setupTables

(* Fault: the roster's status replaces the one on record.                  *)
Refreshed_Reset(row, t) == [team |-> t, status |-> "pro_active"]

(* A player of the roster: the row in the database, or a new one.          *)
Refreshed(row, t) ==
  IF row = Nothing THEN [team |-> t, status |-> "pro_active"] ELSE [row EXCEPT !.team = t]

CommitImport(e) ==
  LET u == work[e] IN
  /\ stage[e] = "commit"
  /\ leagues' = leagues \cup {u.league}
  /\ seasons' = seasons \cup {SeasonRow(u.league.id, y) : y \in u.years}
  /\ ruled' = ruled \cup {SeasonRow(u.league.id, y) : y \in u.years}
  /\ teams' = {IF t.id \in u.hidden THEN [t EXCEPT !.active = FALSE]
               ELSE IF t.id = u.team.id /\ u.show THEN [t EXCEPT !.active = TRUE] ELSE t :
                 t \in teams \cup {IF \E t \in teams : t.id = u.team.id
                                 THEN CHOOSE t \in teams : t.id = u.team.id ELSE u.team}}
  /\ players' = [players EXCEPT ![OrgOf[e]] =
                   [n \in NhlPlayers |-> IF n \in u.roster THEN Refreshed(@[n], u.team.id) ELSE @[n]]]
  /\ rosters' = rosters \cup {[team |-> u.team.id, season |-> SeasonRow(u.league.id, 1),
                               player |-> n] : n \in u.roster}
  /\ Proceed(e, "idle", Nothing)
  /\ UNCHANGED <<orgs, staffed>>

-----------------------------------------------------------------------------
(* Elsewhere.                                                              *)

(* A player's status is edited by hand.                                    *)
EditStatus(o, n, status) ==
  /\ players[o][n] # Nothing
  /\ players[o][n].status # status
  /\ ~PlayersLocked(o, {n})
  /\ serial => \A d \in Requests : ~Transacting(d)
  /\ players' = [players EXCEPT ![o][n].status = status]
  /\ UNCHANGED <<orgs, staffed, leagues, seasons, ruled, teams, rosters, nhl, stage, work, begun,
                 trades, failures>>

(* A player changes his club, or leaves the NHL.                           *)
Trade(n, club) ==
  /\ trades < MaxTrades
  /\ nhl[n] # club
  /\ nhl' = [nhl EXCEPT ![n] = club]
  /\ trades' = trades + 1
  /\ UNCHANGED <<setupTables, stage, work, begun, failures>>

Dies(e) ==
  /\ failures < MaxDeaths
  /\ stage[e] # "idle"
  /\ MoveTo(e, "idle", Nothing)
  /\ failures' = failures + 1
  /\ UNCHANGED <<setupTables, nhl, begun, trades>>

SetupNext ==
  /\ serial' = serial
  /\ \/ \E e \in Requests :
          \/ CreateOrganization(e) \/ InsertMember(e)
          \/ \E club \in Clubs \cup {Nothing} :
               CreateLeague(e, club) \/ \E l \in leagues : JoinLeague(e, l, club)
          \/ InsertSeason(e) \/ InsertRules(e) \/ InsertTeam(e)
          \/ \E club \in Clubs, hide \in BOOLEAN : FetchRoster(e, club, hide)
          \/ EnsureNhlLeague(e) \/ FindTeam(e) \/ WritePlayers(e) \/ AbortPlayers(e)
          \/ WriteRoster(e) \/ CommitImport(e) \/ Dies(e)
     \/ \E o \in Orgs, n \in NhlPlayers : EditStatus(o, n, "injured_reserve")
     \/ \E n \in NhlPlayers, club \in Clubs \cup {Nothing} : Trade(n, club)

SetupSpec == SetupInit /\ [][SetupNext]_setupVars

-----------------------------------------------------------------------------
Ids == Requests \X (1..MaxRequests)
LeagueRows == [id : Ids, kind : {"nhl", "custom"}]
SeasonRows == [league : Ids, year : 1..(LeagueYears + NhlYears)]
TeamRows == [id : Ids, org : Orgs, league : Ids, club : Clubs \cup {Nothing}, active : BOOLEAN]
PlayerRows == [team : Ids, status : {"pro_active", "injured_reserve"}]
RosterRows == [team : Ids, season : SeasonRows, player : NhlPlayers]

(* There are finitely many requests; years are counted from one; and a     *)
(* player without a row has none.                                          *)
ASSUME SetupAssumption ==
  /\ IsFiniteSet(Requests) /\ OrgOf \in [Requests -> Orgs]
  /\ LeagueYears \in Nat \ {0} /\ NhlYears \in Nat \ {0} /\ MaxRequests \in Nat
  /\ FirstClub \in [NhlPlayers -> Clubs \cup {Nothing}]
  /\ Nothing \notin PlayerRows
  /\ SerialModes \subseteq BOOLEAN

(* Rows keep their types.                                                  *)
SetupTypeOK ==
  /\ serial \in BOOLEAN
  /\ orgs \subseteq Orgs /\ staffed \subseteq orgs
  /\ leagues \subseteq LeagueRows /\ seasons \subseteq SeasonRows /\ ruled \subseteq seasons
  /\ teams \subseteq TeamRows
  /\ players \in [Orgs -> [NhlPlayers -> PlayerRows \cup {Nothing}]]
  /\ rosters \subseteq RosterRows
  /\ nhl \in [NhlPlayers -> Clubs \cup {Nothing}]
  /\ DOMAIN stage = Requests /\ DOMAIN work = Requests

YearsOf(l) == IF l.kind = "nhl" THEN NhlYears ELSE LeagueYears
Whole(l) == \A y \in 1..YearsOf(l) : SeasonRow(l.id, y) \in ruled

(* Without a transaction a request that dies leaves an organization        *)
(* without a member or a league without its seasons and rules, but one at  *)
(* most: all others that nobody works on are whole.                        *)
HalfMadePerFailure ==
  Cardinality({l \in leagues : ~Whole(l)}) + Cardinality(orgs \ staffed)
    <= failures + Cardinality({e \in Requests : stage[e] \in {"member", "season", "rules"}})

(* However imports cross on PGlite, there is one NHL league, with every    *)
(* season and its rules ("created once", nhlClubService.ts:27).            *)
OneNhlLeague ==
  serial => \A l, m \in {x \in leagues : x.kind = "nhl"} : l = m /\ Whole(l)

(* Whatever becomes of the imports that cross each other, who is on an     *)
(* official roster has a record in the organization of its team.           *)
MembersExist ==
  \A m \in rosters : \E t \in teams : t.id = m.team /\ players[t.org][m.player] # Nothing

(* What requests leave behind: rows of their types, organizations and      *)
(* leagues that are whole but for one for each request that died, on       *)
(* PGlite one NHL league, and rosters of players on record.                *)
SetUpWhole == SetupTypeOK /\ HalfMadePerFailure /\ OneNhlLeague /\ MembersExist

(* On PGlite an import makes a team only where there is none by the club's *)
(* abbreviation, and whoever hides teams leaves one to work with.          *)
OneTeamPerClub(o, c) ==
  LET ofClub == {t \in teams : t.org = o /\ t.club = c} IN
  ofClub # {} /\ (\E e \in Requests : stage[e] = "commit" /\ stage'[e] # "commit")
    => Cardinality({t \in teams' : t.org = o /\ t.club = c}) = Cardinality(ofClub)

TeamLeft(o) == (\E t \in teams : t.org = o /\ t.active) => \E t \in teams' : t.org = o /\ t.active

(* A request never changes a status that someone has recorded.             *)
StatusKept(o, n) ==
  players[o][n] # Nothing /\ stage' # stage
    => players'[o][n] # Nothing /\ players'[o][n].status = players[o][n].status

(* What a step may do to an organization's teams and players.              *)
SetupKept ==
  [][\A o \in Orgs :
       /\ serial => TeamLeft(o) /\ \A c \in Clubs : OneTeamPerClub(o, c)
       /\ \A n \in NhlPlayers : StatusKept(o, n)]_setupVars
=============================================================================
