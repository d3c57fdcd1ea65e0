-------------------------- MODULE ConnectorTables ---------------------------
(***************************************************************************)
(* What committing a connector dataset writes (connectorDefinitions.ts,    *)
(* connectorCommit.ts, db/schema.ts): twenty datasets of seven sources     *)
(* share ten tables, each with its unique index, and every row is upserted *)
(* by the natural key of its dataset.                                      *)
(*                                                                         *)
(* A cell stands for the fields of one kind that a dataset carries         *)
(* together and a table keeps in columns of the same kind, so "scoring" is *)
(* games, goals, assists and points; the fields that identify a row, that  *)
(* a table may not leave NULL or that a statement treats alone are cells   *)
(* of their own.  A page of a source is parsed, previewed and approved in  *)
(* one step: what may come between is ConnectorFetch's and ImportPipeline's*)
(* subject.                                                                *)
(***************************************************************************)
EXTENDS SourceParsers, FiniteSets

CONSTANTS
  MaxImports,  \* imports of a behaviour
  Pages(_, _), \* Pages(i, d): what the page of an i-th import of dataset d may be
  ChunkSize    \* rows of one INSERT

VARIABLES
  db,       \* the rows of each table
  approved   \* the imports approved, with what their previews said

vars == <<db, approved>>

-----------------------------------------------------------------------------
(* The datasets: the table and source of their rows, their natural key,    *)
(* the cells they require and those they may leave blank.                  *)

Dataset(table, source, key, required, optional) ==
  [table |-> table, source |-> source, key |-> key, required |-> required, optional |-> optional]

BioNeeds == {"external_id", "full_name"}
Bio == {"position", "bio"}
Line == {"external_player_id", "season", "game_type", "situation"}
About == {"player_name", "league", "team_name"}

NhlPlayers == Dataset("ext_players", "nhl", <<"external_id">>, BioNeeds, Bio \cup {"current", "drafted"})

NhlRoster ==
  Dataset("ext_roster", "nhl", <<"team_abbrev", "season", "external_id">>,
          BioNeeds \cup {"team_abbrev", "season"}, Bio \cup {"sweater_number"})

NhlPlayerSeasons ==
  Dataset("ext_player_seasons", "nhl_career",
          <<"external_player_id", "season", "game_type", "league", "m_sequence">>,
          Line \cup {"m_sequence"},
          About \cup {"scoring", "shots", "special_teams", "shares", "toi", "shots_against", "save_pct",
                      "goaltending"})

NhlGameLogs ==
  Dataset("ext_game_logs", "nhl", <<"external_player_id", "game_id">>,
          {"external_player_id", "game_id", "season", "game_type"},
          {"player_name", "game_date", "clubs", "scoring", "shots", "special_teams", "toi", "goaltending"})

NhlSkaterStats ==
  Dataset("ext_player_seasons", "nhl_stats", <<"external_player_id", "season", "game_type">>, Line,
          About \cup {"position", "scoring", "shots", "special_teams", "shares", "toi", "metrics"})

NhlGoalieStats ==
  Dataset("ext_player_seasons", "nhl_stats", <<"external_player_id", "season", "game_type">>, Line,
          About \cup {"position", "scoring", "toi", "goaltending"})

NhlTeamStats ==
  Dataset("ext_team_seasons", "nhl_stats", <<"club", "season", "game_type">>,
          {"team_name", "season", "game_type", "situation"},
          {"team_abbrev", "record", "goals", "shares", "metrics"})

NhlStandings ==
  Dataset("ext_team_standings", "nhl", <<"team_abbrev", "season", "game_type">>,
          {"team_abbrev", "team_name", "season", "game_type", "standings_date", "record"},
          {"division", "shares", "goals", "ranks", "form", "metrics"})

HockeytechSkaterStats ==
  Dataset("ext_player_seasons", "hockeytech", <<"external_player_id", "season", "game_type">>, Line,
          About \cup {"position", "scoring", "shots", "special_teams", "metrics"})

NhlDraftPicks ==
  Dataset("ext_draft_picks", "nhl", <<"draft_year", "overall_pick">>,
          {"draft_year", "round", "overall_pick", "player_name"},
          {"pick_in_round", "team_abbrev", "position", "country", "body", "amateur"})

NhlDraftRankings ==
  Dataset("ext_draft_rankings", "nhl_central_scouting",
          <<"draft_year", "category_id", "player_name", "birth_date">>,
          {"draft_year", "category_id", "category_key", "player_name"},
          {"position", "body", "birth_date", "birthplace", "amateur", "midterm_rank", "final_rank"})

MoneypuckSkaters ==
  Dataset("ext_player_seasons", "moneypuck",
          <<"external_player_id", "season", "game_type", "situation">>, Line,
          About \cup {"position", "scoring", "shots", "toi", "expected", "on_ice", "metrics"})

MoneypuckGoalies ==
  Dataset("ext_player_seasons", "moneypuck",
          <<"external_player_id", "season", "game_type", "situation">>, Line,
          About \cup {"position", "scoring", "toi", "expected", "goaltending", "metrics"})

MoneypuckTeams ==
  Dataset("ext_team_seasons", "moneypuck", <<"team_abbrev", "season", "game_type", "situation">>,
          {"team_abbrev", "season", "game_type", "situation"},
          {"team_name", "record", "toi", "goals", "expected", "possession", "metrics"})

EpPlayers == Dataset("ext_players", "eliteprospects", <<"external_id">>, BioNeeds, Bio)

XG_SOURCE == "rosteriq-xg-v1"

(* Fault: goalies' rows have the source of the shooters'.                  *)
XG_GOALIE_SOURCE_Shared == XG_SOURCE

XG_GOALIE_SOURCE == "rosteriq-xg-v1-goalies"

PROSPECT_SOURCE == "rosteriq-prospects-v1"

RosteriqXgSkaters ==
  Dataset("ext_player_seasons", XG_SOURCE,
          <<"external_player_id", "season", "game_type", "situation">>, Line,
          About \cup {"position", "scoring", "expected", "metrics"})

RosteriqXgGoalies ==
  Dataset("ext_player_seasons", XG_GOALIE_SOURCE,
          <<"external_player_id", "season", "game_type", "situation">>, Line,
          About \cup {"position", "goaltending", "expected", "metrics"})

RosteriqXgTeams ==
  Dataset("ext_team_seasons", XG_SOURCE, <<"team_abbrev", "season", "game_type", "situation">>,
          {"team_abbrev", "season", "game_type", "situation"}, {"goals", "expected", "metrics"})

RosteriqProspects ==
  Dataset("ext_prospect_projections", PROSPECT_SOURCE, <<"external_player_id">>,
          {"external_player_id", "player_name", "draft_year", "overall_pick",
           "projection_kind", "label_mature", "model_version"},
          {"round", "position", "drafted_by", "birth_date", "age_at_draft", "body", "d0", "dm1",
           "p_nhl_regular", "baseline_p", "p_by_pick", "contributions", "outcome"})

RosteriqNhle ==
  Dataset("ext_league_equivalencies", PROSPECT_SOURCE, <<"league">>, {"league", "model_version"},
          {"multiplier", "log_factor", "standard_error", "pairs"})

Datasets ==
  [nhl_players |-> NhlPlayers, nhl_roster |-> NhlRoster, nhl_player_seasons |-> NhlPlayerSeasons,
   nhl_game_logs |-> NhlGameLogs, nhl_skater_stats |-> NhlSkaterStats,
   nhl_goalie_stats |-> NhlGoalieStats, nhl_team_stats |-> NhlTeamStats,
   nhl_standings |-> NhlStandings, hockeytech_skater_stats |-> HockeytechSkaterStats,
   nhl_draft_picks |-> NhlDraftPicks, nhl_draft_rankings |-> NhlDraftRankings,
   moneypuck_skaters |-> MoneypuckSkaters, moneypuck_goalies |-> MoneypuckGoalies,
   moneypuck_teams |-> MoneypuckTeams, ep_players |-> EpPlayers,
   rosteriq_xg_skaters |-> RosteriqXgSkaters, rosteriq_xg_goalies |-> RosteriqXgGoalies,
   rosteriq_xg_teams |-> RosteriqXgTeams, rosteriq_prospects |-> RosteriqProspects,
   rosteriq_nhle |-> RosteriqNhle]

Cells(d) == d.required \cup d.optional

(* A team whose abbreviation was not found goes by its name.               *)
KeyPart(c, row) ==
  IF c # "club" THEN row[c] ELSE IF row.team_abbrev # None THEN row.team_abbrev ELSE row.team_name

RowKey(d, row) == [n \in DOMAIN d.key |-> KeyPart(d.key[n], row)]

(* The rows an approval commits: every required cell filled, every cell    *)
(* readable, and the first such row of each key.                           *)
ValidRows(d, rows) ==
  FoldLeft(LAMBDA valid, row :
             IF \/ \E c \in d.required : row[c] = None
                \/ \E c \in Cells(d) : row[c] = Junk
                \/ \E n \in DOMAIN valid : RowKey(d, valid[n]) = RowKey(d, row)
             THEN valid ELSE Append(valid, row),
           <<>>, rows)

-----------------------------------------------------------------------------
(* The tables: the columns of their unique index within an organization,   *)
(* those that may not be NULL, and the others.                             *)

Table(index, notNull, nullable) == [index |-> index, notNull |-> notNull \cup index, nullable |-> nullable]

extPlayers == Table({"source", "external_id"}, {"full_name"}, {"position", "bio", "current", "drafted"})

extRosterEntries ==
  Table({"source", "team_abbrev", "season", "external_id"}, {"full_name"}, {"sweater_number", "position"})

extPlayerSeasons ==
  Table({"source", "row_key"}, Line,
        About \cup {"position", "scoring", "shots", "special_teams", "shares", "toi", "shots_against",
                    "save_pct", "goaltending", "expected", "on_ice", "metrics", "m_sequence"})

extTeamSeasons ==
  Table({"source", "row_key"}, {"season", "game_type", "situation"},
        {"team_abbrev", "team_name", "record", "goals", "shares", "expected", "possession", "toi", "metrics"})

extTeamStandings ==
  Table({"source", "row_key"},
        {"team_abbrev", "team_name", "season", "game_type", "standings_date", "record"},
        {"division", "shares", "goals", "ranks", "form", "metrics"})

extDraftPicks ==
  Table({"source", "draft_year", "overall_pick"}, {"round", "player_name"},
        {"pick_in_round", "team_abbrev", "position", "country", "body", "amateur"})

extDraftRankings ==
  Table({"source", "draft_year", "category_id", "row_key"}, {"category_key", "player_name"},
        {"position", "body", "birth_date", "birthplace", "amateur", "midterm_rank", "final_rank"})

extPlayerGameLogs ==
  Table({"source", "external_player_id", "game_id"}, {"game_date", "season", "game_type"},
        {"player_name", "clubs", "scoring", "shots", "special_teams", "toi", "goaltending"})

extProspectProjections ==
  Table({"source", "external_player_id"},
        {"model_version", "player_name", "draft_year", "overall_pick", "p_nhl_regular", "baseline_p",
         "projection_kind", "label_mature"},
        {"round", "position", "drafted_by", "birth_date", "age_at_draft", "body", "d0", "dm1",
         "p_by_pick", "contributions", "outcome"})

extLeagueEquivalencies ==
  Table({"source", "league"}, {"model_version", "multiplier", "log_factor", "pairs"}, {"standard_error"})

Tables ==
  [ext_players |-> extPlayers, ext_roster |-> extRosterEntries, ext_player_seasons |-> extPlayerSeasons,
   ext_team_seasons |-> extTeamSeasons, ext_team_standings |-> extTeamStandings,
   ext_draft_picks |-> extDraftPicks, ext_draft_rankings |-> extDraftRankings,
   ext_game_logs |-> extPlayerGameLogs, ext_prospect_projections |-> extProspectProjections,
   ext_league_equivalencies |-> extLeagueEquivalencies]

Columns(t) == Tables[t].notNull \cup Tables[t].nullable

-----------------------------------------------------------------------------
(* The statements: the columns named by ON CONFLICT, the columns set, and  *)
(* whether a NULL erases what stood there.                                 *)

Writes(table, target, mode, cells) ==
  [table |-> table, target |-> target, mode |-> mode, cells |-> cells \cup target]

bioCells == {"full_name", "position", "bio", "current", "drafted"}
playerTarget == {"source", "external_id"}

WritesPlayers == <<Writes("ext_players", playerTarget, "overwrite", bioCells)>>

WritesRoster ==
  <<Writes("ext_players", playerTarget, "fill", bioCells),
    Writes("ext_roster", {"source", "team_abbrev", "season", "external_id"}, "overwrite",
           {"full_name", "sweater_number", "position"})>>

WritesPlayerSeasons ==
  <<Writes("ext_player_seasons", {"source", "row_key"}, "overwrite",
           Line \cup About \cup {"position", "scoring", "shots", "special_teams", "shares", "toi",
             "shots_against", "save_pct", "goaltending", "expected", "on_ice", "metrics", "m_sequence"})>>

WritesGameLogs ==
  <<Writes("ext_game_logs", {"source", "external_player_id", "game_id"}, "overwrite",
           {"player_name", "game_date", "season", "game_type", "clubs", "scoring", "shots",
            "special_teams", "toi", "goaltending"})>>

WritesTeamSeasons ==
  <<Writes("ext_team_seasons", {"source", "row_key"}, "overwrite",
           {"team_abbrev", "team_name", "season", "game_type", "situation", "record", "goals",
            "shares", "expected", "possession", "toi", "metrics"})>>

WritesTeamStandings ==
  <<Writes("ext_team_standings", {"source", "row_key"}, "overwrite",
           {"team_abbrev", "team_name", "season", "game_type", "standings_date", "record", "division",
            "shares", "goals", "ranks", "form", "metrics"})>>

WritesDraftPicks ==
  <<Writes("ext_draft_picks", {"source", "draft_year", "overall_pick"}, "overwrite",
           {"round", "player_name", "pick_in_round", "team_abbrev", "position", "country", "body", "amateur"})>>

WritesDraftRankings ==
  <<Writes("ext_draft_rankings", {"source", "draft_year", "category_id", "row_key"}, "overwrite",
           {"category_key", "player_name", "position", "body", "birth_date", "birthplace", "amateur",
            "midterm_rank", "final_rank"})>>

WritesProspects ==
  <<Writes("ext_prospect_projections", {"source", "external_player_id"}, "overwrite",
           {"model_version", "player_name", "draft_year", "overall_pick", "round", "position",
            "drafted_by", "birth_date", "age_at_draft", "body", "d0", "dm1", "p_nhl_regular",
            "baseline_p", "p_by_pick", "contributions", "projection_kind", "label_mature", "outcome"})>>

WritesEquivalencies ==
  <<Writes("ext_league_equivalencies", {"source", "league"}, "overwrite",
           {"model_version", "multiplier", "log_factor", "standard_error", "pairs"})>>

Statements(table) ==
  CASE table = "ext_players" -> WritesPlayers
    [] table = "ext_roster" -> WritesRoster
    [] table = "ext_player_seasons" -> WritesPlayerSeasons
    [] table = "ext_game_logs" -> WritesGameLogs
    [] table = "ext_team_seasons" -> WritesTeamSeasons
    [] table = "ext_team_standings" -> WritesTeamStandings
    [] table = "ext_draft_picks" -> WritesDraftPicks
    [] table = "ext_draft_rankings" -> WritesDraftRankings
    [] table = "ext_prospect_projections" -> WritesProspects
    [] table = "ext_league_equivalencies" -> WritesEquivalencies

(* A blank becomes NULL, but for the pairs of an equivalency.              *)
Cell(d, row, c) ==
  CASE c = "source" -> d.source
    [] c = "row_key" -> RowKey(d, row)
    [] c = "pairs" /\ row.pairs = None -> Zero
    [] c \in Cells(d) -> row[c]
    [] OTHER -> None

(* The record of a row that import i writes with statement w.              *)
Record(d, w, row, i) ==
  [c \in Columns(w.table) \cup {"import"} |->
     IF c = "import" THEN i ELSE IF c \in w.cells THEN Cell(d, row, c) ELSE None]

Meets(w, x, y) == \A c \in w.target : x[c] = y[c]

upsertSet(w, old, new) ==
  IF w.mode = "overwrite" THEN new
  ELSE [c \in DOMAIN new |-> IF new[c] = None THEN old[c] ELSE new[c]]

(* One INSERT, or None when the database refuses it: a NULL where none may *)
(* be, two rows for one target, or a target that is no unique index.       *)
Insert(w, stored, new) ==
  IF \/ \E n \in DOMAIN new : \E c \in Tables[w.table].notNull : new[n][c] = None
     \/ \E n \in DOMAIN new : \E m \in DOMAIN new \ {n} : Meets(w, new[n], new[m])
     \/ w.target # Tables[w.table].index
  THEN None
  ELSE {x \in stored : \A n \in DOMAIN new : ~Meets(w, x, new[n])} \cup
       {LET old == {x \in stored : Meets(w, x, new[n])}
        IN  IF old = {} THEN new[n] ELSE upsertSet(w, CHOOSE x \in old : TRUE, new[n]) :
        n \in DOMAIN new}

insertChunks(w, stored, new) ==
  LET chunks == (Len(new) + ChunkSize - 1) \div ChunkSize
      Chunk(k) == SubSeq(new, (k - 1) * ChunkSize + 1,
                         IF k = chunks THEN Len(new) ELSE k * ChunkSize)
  IN  FoldLeft(LAMBDA acc, k : IF acc = None THEN None ELSE Insert(w, acc, Chunk(k)),
               stored, [k \in 1..chunks |-> k])

(* The tables after the transaction that commits the rows, or None.        *)
commitConnectorRecords(d, rows, i) ==
  FoldLeft(LAMBDA acc, w :
             IF acc = None THEN None
             ELSE LET after == insertChunks(w, acc[w.table], [n \in DOMAIN rows |-> Record(d, w, rows[n], i)])
                  IN  IF after = None THEN None ELSE [acc EXCEPT ![w.table] = after],
           db, Statements(d.table))

(* What the preview looks for existing rows by.                            *)
CountColumns(table) ==
  CASE table \in {"ext_player_seasons", "ext_team_seasons", "ext_team_standings", "ext_draft_rankings"} ->
         {"source", "row_key"}
    [] table = "ext_roster" -> {"source", "team_abbrev", "season", "external_id"}
    [] table = "ext_game_logs" -> {"source", "external_player_id", "game_id"}
    [] table = "ext_draft_picks" -> {"source", "draft_year", "overall_pick"}
    [] table = "ext_league_equivalencies" -> {"source", "league"}
    [] table = "ext_prospect_projections" -> {"source", "external_player_id"}
    [] table = "ext_players" -> {"source", "external_id"}

countExistingRows(d, rows) ==
  Cardinality({x \in db[d.table] : \E n \in DOMAIN rows :
                 \A c \in CountColumns(d.table) : x[c] = Cell(d, rows[n], c)})

-----------------------------------------------------------------------------
Init ==
  /\ db = [t \in DOMAIN Tables |-> {}]
  /\ approved = <<>>

(* A page of dataset k is parsed, staged and approved: what is valid of it *)
(* is committed in one transaction, or nothing is.                         *)
Commit(k, page) ==
  LET d == Datasets[k]
      staged == ParsePage(k, page, Cells(d))
      rows == ValidRows(d, staged)
      after == commitConnectorRecords(d, rows, Len(approved) + 1)
  IN  /\ staged # None
      /\ rows # <<>>
      /\ db' = IF after = None THEN db ELSE after
      /\ approved' = Append(approved, [dataset |-> k, page |-> page, rows |-> rows,
                                     committed |-> after # None, told |-> countExistingRows(d, rows)])

Next ==
  /\ Len(approved) < MaxImports
  /\ \E k \in DOMAIN Datasets : \E page \in Pages(Len(approved) + 1, k) : Commit(k, page)

-----------------------------------------------------------------------------
Latest == approved'[Len(approved')]
OfLatest == Datasets[Latest.dataset]

(* What the page says of a cell of its nth item.                           *)
Said(n, c) ==
  LET page == Latest.page
  IN  IF c \in DOMAIN page.head THEN page.head[c]
      ELSE IF c \notin DOMAIN page.items[n] \/ page.items[n][c] \in {Absent, Junk} THEN None
      ELSE page.items[n][c]

(* A career line without the field of shots against reports no save        *)
(* percentage when it says 0.                                              *)
SaysNoPercentage(n) ==
  /\ Latest.dataset = "nhl_player_seasons"
  /\ Said(n, "save_pct") = Zero
  /\ Latest.page.items[n].shots_against = Absent

(* A row says what its item says and is blank where it says nothing, but   *)
(* for the points a league reports of special teams, which are 0 when it   *)
(* does not.                                                               *)
Faithful(row, n) ==
  \A c \in Cells(OfLatest) :
    \/ row[c] = IF c = "save_pct" /\ SaysNoPercentage(n) THEN None ELSE Said(n, c)
    \/ Latest.dataset = "hockeytech_skater_stats" /\ row[c] = Zero /\ c = "special_teams"

(* Every item that can be imported is, and nothing else is.                *)
Importable(n) ==
  /\ \A c \in OfLatest.required : Said(n, c) # None
  /\ "situation" \in DOMAIN Latest.page.items[n] /\ ~IsModelFile(Latest.dataset) =>
       Said(n, "situation") \in Latest.page.wanted

RowsAsSaid ==
  /\ \A r \in DOMAIN Latest.rows :
       \E n \in DOMAIN Latest.page.items : Importable(n) /\ Faithful(Latest.rows[r], n)
  /\ \A n \in DOMAIN Latest.page.items :
       Importable(n) /\ (\A c \in DOMAIN Latest.page.items[n] : Latest.page.items[n][c] # Junk) =>
         \E r \in DOMAIN Latest.rows :
           RowKey(OfLatest, Latest.rows[r]) =
             RowKey(OfLatest, [c \in Cells(OfLatest) |-> Said(n, c)])

(* Every approved row stands as it was previewed, a blank as NULL, and a   *)
(* league's factor with how many pairs it rests on.                        *)
From(x, row) == \A c \in Tables[OfLatest.table].index : x[c] = Cell(OfLatest, row, c)

NoneLost ==
  \A n \in DOMAIN Latest.rows :
    \E x \in db'[OfLatest.table] :
      /\ x.import = Len(approved')
      /\ From(x, Latest.rows[n])
      /\ \A c \in Cells(OfLatest) \cap DOMAIN x : c = "pairs" \/ x[c] = Latest.rows[n][c]

(* What an import replaces is its own dataset's, or a bio that a roster    *)
(* and the players' pages share, of which the roster erases nothing.       *)
BothBios(k, l) == {k, l} \subseteq {"nhl_players", "nhl_roster"}

NothingErased(x) ==
  \E y \in db'["ext_players"] :
    y.external_id = x.external_id /\ \A c \in DOMAIN x : x[c] # None => y[c] # None

NoneTaken ==
  \A t \in DOMAIN Tables : \A x \in db[t] \ db'[t] :
    /\ \/ approved[x.import].dataset = Latest.dataset
       \/ t = "ext_players" /\ BothBios(approved[x.import].dataset, Latest.dataset)
    /\ t = "ext_players" /\ Latest.dataset = "nhl_roster" => NothingErased(x)

(* The preview said how many rows would be updated.                        *)
ToldRight == Latest.told = Cardinality(db[OfLatest.table] \ db'[OfLatest.table])

CommitTold ==
  approved' # approved =>
    /\ RowsAsSaid
    /\ IF Latest.committed THEN NoneLost /\ NoneTaken /\ ToldRight ELSE db' = db
=============================================================================
