------------------------- MODULE MCConnectorFetch ---------------------------
(***************************************************************************)
(* Three instances of the fetches, one part of the model each: pages, where*)
(* one organization asks twice for the same players' pages; ages, where it *)
(* does so while the cached bodies grow old; and plans, where two          *)
(* organizations ask for datasets of other plans while the sources change. *)
(* The constants of the configuration take in those of all three.  A       *)
(* fourth part, tables, commits a page of any dataset and then another,    *)
(* while no fetch has begun.                                               *)
(***************************************************************************)
EXTENDS ConnectorFetch

CONSTANTS r1, r2, Junk, Absent, Zero, v, w, g

VARIABLES
  part,
  db,        \* part tables: the rows of each table
  approved   \* part tables: the imports approved

tableVars == <<db, approved>>
allVars == <<vars, tableVars, part>>

Form(dataset, of, bypass) == [dataset |-> dataset, of |-> of, bypass |-> bypass]

MCOrg == [r \in {r1, r2} |-> IF r = r2 THEN "b" ELSE "a"]
OneOrg == [r \in {r1, r2} |-> "a"]
MCIds == {"p1", "p2", "ANA", "BOS", "ALL"}
MCTeams == <<"ANA", "BOS">>
MCTrainedAt == {-5}
PageForms == {Form("nhl_game_logs", <<"p1", "p2", "p1">>, FALSE), Form("nhl_players", <<"p1">>, FALSE)}
TimedForms == {Form("nhl_players", <<"p1", "p2">>, FALSE), Form("nhl_player_seasons", <<"p1">>, TRUE)}
OtherForms == {Form("hockeytech_skater_stats", <<>>, FALSE), Form("nhl_roster", <<"ALL">>, FALSE),
               Form("xg_bundle", <<>>, FALSE), Form("xg_files", <<>>, FALSE)}

MCForms == PageForms \cup TimedForms \cup OtherForms

OfPages == INSTANCE ConnectorFetch WITH Org <- OneOrg, Forms <- PageForms, Ttl <- 1, MaxTime <- 0, MaxVersion <- 0
Ages == INSTANCE ConnectorFetch WITH Org <- OneOrg, Forms <- TimedForms, MaxVersion <- 0
Plans == INSTANCE ConnectorFetch WITH Forms <- OtherForms, Ttl <- 1, MaxTime <- 0

-----------------------------------------------------------------------------
(* The pages: an item says v of every cell, or g of the player when it is a*)
(* goalie's, and for one cell it may say another value, nothing or Junk, or*)
(* not have it.                                                            *)

NoPages(i, k) == {}
Of == INSTANCE ConnectorTables WITH ChunkSize <- 2, MaxImports <- 0, Pages <- NoPages

Named == DOMAIN Of!Datasets
CellsOf(k) == Of!Cells(Of!Datasets[k])
HeadOf(k) == Of!ParserOf(k, CellsOf(k)).head
OfGoalies == {"nhl_goalie_stats", "moneypuck_goalies", "rosteriq_xg_goalies"}
First(k, c) == IF c = "external_player_id" /\ k \in OfGoalies THEN g ELSE v

(* The metrics of a hockeytech line are worked out by its parser.          *)
ReadsOf(k) == CellsOf(k) \ (HeadOf(k) \cup IF k = "hockeytech_skater_stats" THEN {"metrics"} ELSE {})
Item(k) == [c \in ReadsOf(k) |-> First(k, c)]
Page(k, items) ==
  [whole |-> TRUE, wanted |-> {v, w}, head |-> [c \in HeadOf(k) |-> First(k, c)], items |-> items]

(* The skaters' rows of RosterIQ also name a goalie, who has both.         *)
Others(k, c) ==
  CASE c = "external_player_id" /\ k = "rosteriq_xg_skaters" -> {g}
    [] c = "external_player_id" /\ k \in OfGoalies -> {}
    [] OTHER -> {w}
Blanks(c) == IF c = "scoring" THEN {None, Junk, Absent} ELSE {None}
With(k, c, u) == [Item(k) EXCEPT ![c] = u]

(* One item that differs in a cell.                                        *)
Singles(k) ==
  {<<Item(k)>>} \cup {<<With(k, p[1], p[2])>> :
                       p \in UNION {{c} \X (Others(k, c) \cup Blanks(c)) : c \in ReadsOf(k)}}

(* The cells that tell rows apart, and a value or two besides.             *)
Telling(k) ==
  ReadsOf(k) \cap (Range(Of!Datasets[k].key) \cup Of!Datasets[k].required \cup
                   {"team_abbrev", "position", "bio", "scoring", "metrics"})

(* Two items that differ in a cell, and what a source does of its own: a   *)
(* roster of three, of which one INSERT takes two, a percentage of 0 with  *)
(* shots against left out, null or unreadable, and a situation that was    *)
(* not asked for.                                                          *)
Pairs(k) ==
  {<<With(k, p[1], p[2]), Item(k)>> : p \in UNION {{c} \X Others(k, c) : c \in Telling(k)}} \cup
  CASE k = "nhl_roster" -> {<<Item(k), With(k, "external_id", w), With(k, "bio", w)>>}
    [] k = "nhl_player_seasons" -> {<<[Item(k) EXCEPT !["save_pct"] = Zero, !["shots_against"] = u]>> : u \in {Absent, None, Junk}}
    [] k = "moneypuck_skaters" -> {<<With(k, "situation", Zero), Item(k)>>}
    [] OTHER -> {}

(* The first page has two items; the second one, or none that is whole.    *)
TablePages(i, k) ==
  IF i = 1 THEN {Page(k, items) : items \in Pairs(k)}
  ELSE {Page(k, items) : items \in Singles(k)} \cup
       {[Page(k, <<Item(k)>>) EXCEPT !.head[p[1]] = p[2]] :
          p \in UNION {{c} \X (Others(k, c) \cup {None}) : c \in HeadOf(k)}} \cup
       {[Page(k, <<Item(k)>>) EXCEPT !.whole = FALSE]}

Tables == INSTANCE ConnectorTables WITH ChunkSize <- 2, MaxImports <- 2, Pages <- TablePages

-----------------------------------------------------------------------------
NoTables == db = None /\ approved = None

FetchInit ==
  /\ Init
  /\ \/ part \in {"pages", "ages", "plans"} /\ NoTables
     \/ part = "tables" /\ Tables!Init

FetchNext ==
  /\ \/ part = "pages" /\ OfPages!Next /\ UNCHANGED tableVars
     \/ part = "ages" /\ Ages!Next /\ UNCHANGED tableVars
     \/ part = "plans" /\ Plans!Next /\ UNCHANGED tableVars
     \/ part = "tables" /\ Tables!Next /\ UNCHANGED vars
  /\ UNCHANGED part

FetchSpec == FetchInit /\ [][FetchNext]_allVars

(* An import leaves of the tables what its preview said: every row of the  *)
(* file as the source reported it, what it left blank as NULL, no row of   *)
(* another dataset replaced, as many replaced as told, and nothing written *)
(* when the database refuses a row.                                        *)
TablesTold == [][part = "tables" => Tables!CommitTold]_allVars
=============================================================================
