--------------------------- MODULE SourceParsers ----------------------------
(***************************************************************************)
(* What the parsers make of a source's page (lib/connectors: nhl.ts,       *)
(* moneypuck.ts, hockeytech.ts, eliteprospects.ts, rosteriqModels.ts and   *)
(* their helpers in util.ts): the cells of a dataset, one record to an     *)
(* item of the page, or an error when what they rely on is missing.        *)
(*                                                                         *)
(* An item says of each cell a value, nothing (None), or something that    *)
(* cannot be read (Junk): a word for a number, a fraction for a count, a   *)
(* code that is no position, a clock that is no clock.  Or it has no such  *)
(* field (Absent).  A page has its items, the cells that the request or    *)
(* the page's head give to all of them, and whether its envelope is whole. *)
(***************************************************************************)
EXTENDS Naturals, SequencesExt

CONSTANTS
  None,   \* null or the empty string
  Absent, \* undefined: the item does not have the field
  Junk,   \* what cannot be read
  Zero    \* a number: 0

(* A parser reads cells of each item and takes others from the head; it    *)
(* throws when one of needs is blank anywhere.                             *)
Parser(reads, head, needs) == [reads |-> reads, head |-> head, needs |-> needs]

parsePlayerBio ==
  Parser({"external_id", "full_name", "position", "bio", "current", "drafted"}, {}, {"external_id"})

parseRoster ==
  Parser({"external_id", "full_name", "position", "bio", "sweater_number"}, {"team_abbrev", "season"}, {})

parsePlayerCareer ==
  Parser({"season", "game_type", "league", "team_name", "m_sequence", "scoring", "shots",
          "special_teams", "shares", "toi", "shots_against", "save_pct", "goaltending"},
         {"external_player_id", "player_name", "situation"}, {"external_player_id"})

parseGameLog ==
  Parser({"game_id", "game_date", "clubs", "scoring", "shots", "special_teams", "toi", "goaltending"},
         {"external_player_id", "player_name", "season", "game_type"}, {"season", "game_type"})

parseSkaterSummary ==
  Parser({"external_player_id", "player_name", "season", "team_name", "position", "scoring", "shots",
          "special_teams", "shares", "toi", "metrics"},
         {"game_type", "league", "situation"}, {})

parseGoalieSummary ==
  Parser({"external_player_id", "player_name", "season", "team_name", "scoring", "toi", "goaltending"},
         {"game_type", "league", "situation", "position"}, {})

(* A team's abbreviation is that of its id in the index of teams, if any.  *)
parseTeamSummary ==
  Parser({"team_abbrev", "team_name", "season", "record", "goals", "shares", "metrics"},
         {"game_type", "situation"}, {})

parseStandings ==
  Parser({"team_abbrev", "team_name", "season", "game_type", "standings_date", "record", "division",
          "shares", "goals", "ranks", "form", "metrics"}, {},
         {"team_abbrev", "team_name", "season", "game_type", "standings_date", "record"})

parseDraftPicks ==
  Parser({"round", "overall_pick", "player_name", "pick_in_round", "team_abbrev", "position",
          "country", "body", "amateur"}, {"draft_year"}, {})

parseDraftRankings ==
  Parser({"player_name", "position", "body", "birth_date", "birthplace", "amateur", "midterm_rank",
          "final_rank"}, {"draft_year", "category_id", "category_key"}, {"draft_year", "category_id"})

parseMoneyPuckSkaters ==
  Parser({"external_player_id", "player_name", "season", "team_name", "position", "situation",
          "scoring", "shots", "toi", "expected", "on_ice", "metrics"}, {"game_type", "league"}, {})

parseMoneyPuckGoalies ==
  Parser({"external_player_id", "player_name", "season", "team_name", "position", "situation",
          "scoring", "toi", "expected", "goaltending", "metrics"}, {"game_type", "league"}, {})

parseMoneyPuckTeams ==
  Parser({"team_abbrev", "team_name", "season", "situation", "record", "toi", "goals", "expected",
          "possession", "metrics"}, {"game_type"}, {})

(* Points at even strength are worked out of the others.                   *)
htSkaterRecords ==
  Parser({"external_player_id", "player_name", "team_name", "position", "scoring", "shots",
          "special_teams"}, {"season", "game_type", "league", "situation"}, {"scoring"})

parseEpPlayers == Parser({"external_id", "full_name", "position", "bio"}, {}, {"external_id"})

(* A model's file has exactly the columns of its dataset.                  *)
parseModelCsv(cells) == Parser(cells, {}, {})

Parsers ==
  [nhl_players |-> parsePlayerBio, nhl_roster |-> parseRoster, nhl_player_seasons |-> parsePlayerCareer,
   nhl_game_logs |-> parseGameLog, nhl_skater_stats |-> parseSkaterSummary,
   nhl_goalie_stats |-> parseGoalieSummary, nhl_team_stats |-> parseTeamSummary,
   nhl_standings |-> parseStandings, hockeytech_skater_stats |-> htSkaterRecords,
   nhl_draft_picks |-> parseDraftPicks, nhl_draft_rankings |-> parseDraftRankings,
   moneypuck_skaters |-> parseMoneyPuckSkaters, moneypuck_goalies |-> parseMoneyPuckGoalies,
   moneypuck_teams |-> parseMoneyPuckTeams, ep_players |-> parseEpPlayers]

IsModelFile(k) == k \notin DOMAIN Parsers
ParserOf(k, cells) == IF IsModelFile(k) THEN parseModelCsv(cells) ELSE Parsers[k]

-----------------------------------------------------------------------------
(* What is not there or cannot be read is as good as not reported, and     *)
(* never 0.  The cells of a model's file are taken as they are.            *)
Read(k, u) == IF u = Absent \/ (u = Junk /\ ~IsModelFile(k)) THEN None ELSE u

(* A save percentage of 0 is a placeholder when the item has no field of   *)
(* shots against; one that is null, or cannot be read, does not make it so.*)
IsPlaceholder(item, record) == record.save_pct = Zero /\ item.shots_against = Absent

Cleaned(k, item, record) ==
  CASE k = "nhl_player_seasons" /\ IsPlaceholder(item, record) -> [record EXCEPT !.save_pct = None]
    [] k = "hockeytech_skater_stats" -> [record EXCEPT !.special_teams = IF @ = None THEN Zero ELSE @]
    [] OTHER -> record

(* Items of other game types, other situations than asked for, and lines   *)
(* of nobody are passed over.                                              *)
Kept(k, record, wanted) ==
  /\ k = "nhl_player_seasons" => record.game_type # None
  /\ k \in {"moneypuck_skaters", "moneypuck_goalies", "moneypuck_teams"} => record.situation \in wanted
  /\ k = "hockeytech_skater_stats" => record.external_player_id # None

(* The records of a page of dataset k, whose cells the import keeps in     *)
(* their order, a missing one blank, or None when the parser throws.       *)
ParsePage(k, page, cells) ==
  LET p == ParserOf(k, cells)
      Raw(item) == [c \in p.reads \cup p.head |-> IF c \in p.head THEN page.head[c] ELSE Read(k, item[c])]
      raws == [n \in DOMAIN page.items |-> Raw(page.items[n])]
      records == SelectSeq([n \in DOMAIN raws |-> Cleaned(k, page.items[n], raws[n])],
                           LAMBDA r : Kept(k, r, page.wanted))
      toRawData(r) == [c \in cells |-> IF c \in DOMAIN r THEN r[c] ELSE None]
  IN  IF \/ ~page.whole
         \/ \E c \in p.needs \cap p.head : page.head[c] = None
         \/ \E n \in DOMAIN raws : \E c \in p.needs \ p.head : raws[n][c] = None
         \/ k = "nhl_standings" /\ raws = <<>>
      THEN None
      ELSE [n \in DOMAIN records |-> toRawData(records[n])]
=============================================================================
