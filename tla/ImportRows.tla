----------------------------- MODULE ImportRows -----------------------------
(* What a file's rows may become and what approving them writes            *)
(* (importService.ts validateRows and commitImport, connectorCommit.ts).   *)
(* A row carries the cells the checks and the records tell apart: whom it  *)
(* names, what it refers to (a team, a school, a conference), its key in   *)
(* its table (a season, a game, a natural key) and its values; sound says  *)
(* that every cell passes its field's own check.                           *)
EXTENDS Naturals, FiniteSets

CONSTANTS
  None,
  Names,      \* names of players, prospects, schools and conferences
  Teams,      \* abbreviations of the organization's teams
  Keys,       \* seasons, games and natural keys
  Values,     \* what a cell may hold
  SeasonsOf   \* SeasonsOf[t]: the seasons of team t's league

NamedKinds == {"players", "ncaa_conferences", "ncaa_schools", "ncaa_players"}
StatKinds == {"ncaa_season_stats", "ncaa_game_logs", "ncaa_draft_status"}
ConnectorKinds == {"ext_players", "ext_roster"}
Kinds == NamedKinds \cup {"contracts"} \cup StatKinds \cup ConnectorKinds

Rows == [name : Names \cup {None}, ref : Names \cup Teams \cup {None}, key : Keys \cup {None},
         value : Values \cup {None}, extra : Values \cup {None}, sound : BOOLEAN]

(* Every cell a kind requires is filled.                                   *)
Complete(kind, row) ==
  /\ kind \notin ConnectorKinds => row.name \in Names
  /\ kind \in ConnectorKinds \cup {"contracts", "ncaa_season_stats", "ncaa_game_logs"} => row.key \in Keys

ASSUME NoneIsNoName == None \notin Names \cup Teams \cup Keys \cup Values
ASSUME KeysAssumption == SeasonsOf \in [Teams -> SUBSET Keys]
ASSUME NamesAssumption == IsFiniteSet(Names)

(* The records: rows imported and rows entered otherwise, by kind and      *)
(* name; contracts made by imports; statistics; connector rows by key with *)
(* the stamp of the import that wrote them.                                *)
Contracts ==
  [player : Names, seasons : SUBSET (Keys \X (Values \cup {None})), import : Nat,
   active : BOOLEAN, number : Nat]
ExtRows == [bio : Values \cup {None}, draft : Values \cup {None}, import : Nat]
Records ==
  [imported : [NamedKinds -> [Names -> Nat]],
   others : [NamedKinds -> [Names -> Nat]],
   contracts : SUBSET Contracts,
   stats : [Names -> [Keys -> Values \cup {None}]],
   logs : [Names -> [Keys -> Nat]],
   draft : [Names -> Values \cup {None}],
   ext : [Keys -> ExtRows \cup {None}],
   sources : SUBSET Nat]

-----------------------------------------------------------------------------
(* Validation of one row.                                                  *)

HowMany(kind, name, db) == db.imported[kind][name] + db.others[kind][name]

(* Fault: a player may have several active contracts.                      *)
Signed_Never(name, db) == FALSE

Signed(name, db) == \E c \in db.contracts : c.active /\ c.player = name

RefFound(kind, ref, db) ==
  \/ kind = "ncaa_conferences" \/ kind \in StatKinds \/ kind \in ConnectorKinds
  \/ kind = "players" /\ ref \in Teams \cup {None}
  \/ kind = "contracts" /\ ref \in Teams
  \/ kind = "ncaa_schools" /\ ref \in Names /\ HowMany("ncaa_conferences", ref, db) > 0
  \/ kind = "ncaa_players" /\ ref \in Names /\ HowMany("ncaa_schools", ref, db) > 0

(* What no two rows of a file may share, if anything.                      *)
Identity(kind, row) ==
  CASE kind \in NamedKinds \cup {"ncaa_draft_status"} -> <<row.name>>
    [] kind = "ncaa_game_logs" -> <<row.name, row.key>>
    [] kind \in ConnectorKinds -> <<row.key>>

Repeats(kind, rows, n) ==
  /\ kind \notin {"contracts", "ncaa_season_stats"}
  /\ \E m \in 1..(n - 1) :
       /\ Identity(kind, rows[m]) = Identity(kind, rows[n])
       /\ kind \in ConnectorKinds => rows[m].sound

(* Whose record the row is about: exactly one person of that name.         *)
Person(kind) == IF kind = "contracts" THEN "players" ELSE "ncaa_players"

Fits(kind, rows, n, db) ==
  LET row == rows[n]
  IN  /\ row.sound
      /\ RefFound(kind, row.ref, db)
      /\ ~Repeats(kind, rows, n)
      /\ kind \in NamedKinds => HowMany(kind, row.name, db) = 0
      /\ kind \in StatKinds \cup {"contracts"} => HowMany(Person(kind), row.name, db) = 1
      /\ kind = "contracts" => ~Signed(row.name, db) /\ row.key \in SeasonsOf[row.ref]

(* Fault: only the rows in error are skipped, not their whole group.       *)
BadNames_RowsOnly(rows, fit) == {}

(* The players with a row that does not fit, two rows for a season, or     *)
(* rows for two teams: none of their rows is taken.                        *)
BadNames(rows, fit) ==
  {rows[n].name : n \in DOMAIN rows \ fit} \cup
  {rows[n].name : n \in {k \in fit : \E m \in fit \ {k} :
                           /\ rows[m].name = rows[k].name
                           /\ rows[m].key = rows[k].key \/ rows[m].ref # rows[k].ref}}

(* The numbers of the rows that approving the file now would commit.       *)
ValidRows(kind, rows, db) ==
  LET fit == {n \in DOMAIN rows : Fits(kind, rows, n, db)}
  IN  IF kind = "contracts"
      THEN {n \in fit : rows[n].name \notin BadNames(rows, fit)}
      ELSE fit

-----------------------------------------------------------------------------
(* What the commit of the rows numbered valid of import i writes.          *)

Foremost(S) == {n \in S : \A m \in S : n <= m}
One(S) == CHOOSE n \in S : TRUE
About(rows, valid, name) == {n \in valid : rows[n].name = name}

AddNamed(kind, rows, valid, db) ==
  [db EXCEPT !.imported[kind] =
     [name \in Names |-> @[name] + Cardinality(About(rows, valid, name))]]

AddContracts(i, rows, valid, db) ==
  [db EXCEPT !.contracts = @ \cup
     {[player |-> name,
       seasons |-> {<<rows[n].key, rows[n].value>> : n \in About(rows, valid, name)},
       import |-> i, active |-> TRUE, number |-> Cardinality(@)] :
      name \in {rows[n].name : n \in valid}}]

(* INSERT ... ON CONFLICT DO NOTHING on the prospect and the season.       *)
AddStats(rows, valid, db) ==
  [db EXCEPT !.stats =
     [name \in Names |-> [key \in Keys |->
        LET first == Foremost({n \in About(rows, valid, name) : rows[n].key = key})
        IN  IF @[name][key] # None \/ first = {} THEN @[name][key] ELSE rows[One(first)].value]]]

AddLogs(rows, valid, db) ==
  [db EXCEPT !.logs =
     [name \in Names |-> [key \in Keys |->
        @[name][key] + Cardinality({n \in About(rows, valid, name) : rows[n].key = key})]]]

SetDraftStatus(rows, valid, db) ==
  [db EXCEPT !.draft =
     [name \in Names |->
        IF About(rows, valid, name) = {} THEN @[name]
        ELSE rows[One(About(rows, valid, name))].value]]

(* Fault: overwriting keeps what the incoming row leaves blank.            *)
Overwrite_Filled(old, new) ==
  IF old = None THEN new
  ELSE [new EXCEPT !.draft = IF @ = None THEN old.draft ELSE @]

Overwrite(old, new) == new

(* Fault: the fill mode overwrites.                                        *)
Fill_Erases(old, new) == new

Fill(old, new) ==
  IF old = None THEN new
  ELSE [new EXCEPT !.bio = IF @ = None THEN old.bio ELSE @,
                   !.draft = IF @ = None THEN old.draft ELSE @]

(* The data source is recorded first, then each row is upserted by key: an *)
(* "ext_players" dataset owns the whole row, a roster carries part of it.  *)
Upsert(i, kind, rows, valid, db) ==
  [db EXCEPT !.sources = @ \cup {i},
             !.ext = [key \in Keys |->
     LET here == {n \in valid : rows[n].key = key}
         new == [bio |-> rows[One(here)].value, draft |-> rows[One(here)].extra, import |-> i]
     IN  IF here = {} THEN @[key]
         ELSE IF kind = "ext_roster" THEN Fill(@[key], new)
         ELSE Overwrite(@[key], new)]]

Written(i, kind, rows, valid, db) ==
  CASE kind \in NamedKinds -> AddNamed(kind, rows, valid, db)
    [] kind = "contracts" -> AddContracts(i, rows, valid, db)
    [] kind = "ncaa_season_stats" -> AddStats(rows, valid, db)
    [] kind = "ncaa_game_logs" -> AddLogs(rows, valid, db)
    [] kind = "ncaa_draft_status" -> SetDraftStatus(rows, valid, db)
    [] kind \in ConnectorKinds -> Upsert(i, kind, rows, valid, db)
=============================================================================
