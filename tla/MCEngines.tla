----------------------------- MODULE MCEngines ------------------------------
(***************************************************************************)
(* The engines side by side, one part of the model at a time.  In "roster" *)
(* a user sets the statuses of three contracts, one of them a goalie's,    *)
(* with hits around the buried threshold, hits partly retained by others,  *)
(* dead cap, and an LTIR pool that is absent, small or ample; in "scenario"*)
(* moves are previewed and applied one by one, over two seasons, to two    *)
(* contracts, a free agent whose record can be reused and up to three new  *)
(* contracts.  Then the scouting engines over their inputs (MCScores), the *)
(* CSV files that are written and read (CsvFiles), the search for a draft  *)
(* pick's or a ranked prospect's NHL player (DraftLink) and what a player  *)
(* is worth (Valuation).  While one part is at work the variables of the   *)
(* others are null, or stay as they were, and the roster, of which the cap *)
(* properties speak throughout, has no contracts.                          *)
(***************************************************************************)
EXTENDS CapRoster, TLC, SequencesExt

CONSTANTS c1, c2, c3, c4, c5, p1, p2, p3, p4, p5, p6

VARIABLES part, db, preview, targets, taken, given, rows, need, weights

capVars == <<input, part, db, preview, targets, taken>>
scoreVars == <<given, rows, need, weights>>
allVars == <<capVars, scoreVars>>

Row(hit, kept, goalie) ==
  [hit |-> hit, base |-> hit, cash |-> hit, minor |-> None, twoWay |-> FALSE,
   kept |-> kept, goalie |-> goalie, status |-> "pro_active"]

MCInputs ==
  {[rows |-> (c1 :> Row(7, 0, FALSE) @@ c2 :> hit @@ c3 :> Row(4, 0, TRUE)),
    obligations |-> obs, ltirPool |-> pool] :
     hit \in {Row(3, 0, FALSE), Row(5, 25, FALSE)},
     obs \in {{}, {[kind |-> "retained", amount |-> 2], [kind |-> "buyout", amount |-> 3]}},
     pool \in {None, 4, 20}}

MCRules ==
  [k \in RuleKeys |->
     CASE k = "upper_limit" -> 14
       [] k = "lower_limit" -> 6
       [] k = "buried_allowance" -> 2
       [] k = "max_active" -> 2
       [] k = "min_active" -> 1
       [] k = "min_goalies" -> 1
       [] k = "max_slots" -> 3
       [] k = "min_salary" -> 1
       [] k = "max_individual_pct" -> 40]

-----------------------------------------------------------------------------
Contracts == {c1, c2, c3, c4, c5}
Players == {p1, p2, p3, p4, p5, p6}
Seasons == 1..2

Skater(name, status) == [name |-> name, goalie |-> FALSE, onTeam |-> status # "non_roster", status |-> status]
Goalie(name, status) == [Skater(name, status) EXCEPT !.goalie = TRUE]

OldRow(hit) == [hit |-> hit, base |-> hit, cash |-> hit]

Officials ==
  {[contracts |-> [c \in Contracts |->
      CASE c = c1 -> [player |-> p1, status |-> "active", twoWay |-> FALSE, kept |-> 0,
                      rows |-> [s \in 1..2 |-> OldRow(5)]]
        [] c = c2 -> [player |-> p2, status |-> "active", twoWay |-> FALSE, kept |-> 25,
                      rows |-> [s \in 1..2 |-> IF s = 1 THEN OldRow(4) ELSE None]]
        [] OTHER -> None],
    players |-> [p \in Players |->
      CASE p = p1 -> Skater("Lee", st1)
        [] p = p2 -> Goalie("Roy", st2)
        [] p = p3 -> Skater("Fox", "non_roster")
        [] OTHER -> None],
    obligations |-> {},
    log |-> <<>>] : <<st1, st2>> \in {<<"pro_active", "injured_reserve">>, <<"minor", "pro_active">>, <<"ltir", "pro_active">>}}

Years(ss, hit, bonus) == [s \in ss |-> [hit |-> hit, bonus |-> bonus]]

Moves ==
       {[kind |-> "sign_free_agent", name |-> n, goalie |-> FALSE, twoWay |-> FALSE, kept |-> 0,
         seasons |-> ss] : n \in {"Fox", "Lee"}, ss \in {Years({1, 2}, 3, 1), Years({2, 3}, 2, 0)}}
  \cup {[kind |-> "trade_in", name |-> "Orr", goalie |-> FALSE, twoWay |-> FALSE, kept |-> 50,
         seasons |-> Years({1}, 5, 2)]}
  \cup {[kind |-> "trade_out", contract |-> c1, pct |-> q] : q \in {0, 50}}
  \cup {[kind |-> "trade_out", contract |-> c2, pct |-> 50], [kind |-> "buyout", contract |-> c1, pct |-> 67]}
  \cup {[kind |-> k, contract |-> c] : k \in {"call_up", "send_down"}, c \in {c1, c2}}
  \cup {[kind |-> "ir_placement", contract |-> c, longTerm |-> c = c1] : c \in {c1, c2}}
  \cup {[kind |-> "extension", contract |-> c, seasons |-> Years({2}, 6, 0)] : c \in {c1, c2}}

SeasonRules ==
  [s \in Seasons |-> [k \in RuleKeys |->
     CASE k = "upper_limit" -> 10
       [] k = "lower_limit" -> 4
       [] k = "buried_allowance" -> 1
       [] k = "max_active" -> 2
       [] k = "min_active" -> 1
       [] k = "min_goalies" -> 1
       [] k = "max_slots" -> 3
       [] k = "min_salary" -> 1
       [] k = "max_individual_pct" -> 50]]

Scenario == INSTANCE PreviewApply WITH Rules <- SeasonRules, Base <- 1, MaxMoves <- 3

-----------------------------------------------------------------------------
Scores == INSTANCE MCScores WITH input <- given, db <- rows

Files == INSTANCE CsvFiles WITH MaxRows <- 1
Links == INSTANCE DraftLink WITH PlainOf <- [ch \in {"b-acute"} |-> "b"]

Worth == INSTANCE Valuation WITH DollarsPerGar <- 425, MinSalary <- 800

NoScores == given = None /\ rows = None /\ need = None /\ weights = None
NoRoster == input = [rows |-> <<>>, obligations |-> {}, ltirPool |-> None]
NoCap == NoRoster /\ db = None /\ preview = None /\ targets = None /\ taken = None

(* Texts of up to five characters; tables of one row; and files with a     *)
(* column of each field of a kind, some named by their label, in either    *)
(* order, and perhaps one more in front with the name of the first.        *)
Chars == {"a", "space", "quote", "comma", "return", "newline"}
UpTo(n, S) == UNION {[1..k -> S] : k \in 0..n}

Tables ==
  [headers : {<<h>> : h \in {<<"a">>, <<"space">>}}, rows : {<<>>} \cup {<< <<v>> >> : v \in UpTo(3, Chars)}] \cup
  [headers : {<<h, <<"a", "comma">> >> : h \in {<<"newline", "a">>, <<>>}}, rows : {<< <<v, w>> >> : v, w \in UpTo(2, Chars)}]

Columns(fields, labelled, reversed, extra) ==
  LET inOrder == [i \in DOMAIN fields |-> [header |-> IF i \in labelled THEN <<fields[i].label, "comma">> ELSE <<"space", fields[i].key>>,
                                          cell |-> <<fields[i].key>>]]
      first == [header |-> <<fields[1].label>>, cell |-> <<"x">>]
  IN  (IF extra THEN <<first>> ELSE <<>>) \o (IF reversed THEN Reverse(inOrder) ELSE inOrder)

ColumnInputs ==
  UNION {{[fields |-> fields, columns |-> Columns(fields, labelled, reversed, extra)] :
            labelled \in {{i} : i \in DOMAIN fields}, reversed, extra \in BOOLEAN} :
         fields \in ToSet(Files!CSV_IMPORT_DEFINITIONS)}

(* A person of the full name "a b", in one spelling with an accent, and    *)
(* four players whose names are his, have his last name, end like it or do *)
(* neither; what the index finds for each query, and whose page says what  *)
(* the pick or the ranking says: one player's pick, any players' birthday. *)
Persons == {[firstName |-> <<"a">>, lastName |-> <<b>>, draftYear |-> 2005, overallPick |-> 83, birthDate |-> "1987"] : b \in {"b", "b-acute"}}

Candidates ==
  {[playerId |-> 1, name |-> <<"a", "space", "b">>], [playerId |-> 2, name |-> <<"c", "dash", "b">>],
   [playerId |-> 3, name |-> <<"a", "space", "c", "b">>], [playerId |-> 4, name |-> <<"c", "space", "c">>]}

Pages(theirs) ==
  [id \in 1..4 |-> IF id \in theirs THEN [year |-> 2005, overallPick |-> 83, birthDate |-> "1987"]
                   ELSE IF id \in {1, 3} THEN [year |-> 2006, overallPick |-> 83, birthDate |-> "1988"]
                   ELSE [year |-> 2005, overallPick |-> 116, birthDate |-> "1986"]]

LinkInputs ==
  LET Searches(p, n, candidates, checks) ==
        [person : {p}, search : [{q[2] : q \in ToSet(Links!Queries(p))} ->
                                   UNION {{r \in [1..k -> candidates] : IsInjective(r)} : k \in 0..n}],
         theirs : {{}, {1}, {2}, {3}, {4}, {1, 2}, {3, 4}}, maxChecks : checks]
  IN  UNION {IF p.lastName = <<"b">> THEN Searches(p, 2, Candidates, {1, 2})
             ELSE Searches(p, 1, {c \in Candidates : c.playerId # 4}, {1}) : p \in Persons}

(* Pools of up to three comparables of every kind, and pools of six of few *)
(* kinds, some of whom contend for the fifth place; and pages of a player  *)
(* with no, one or two active contracts.                                   *)
Comparable(position, age, points, aav, org) ==
  [position |-> position, age |-> age, points |-> points, aav |-> aav, org |-> org]

Comparables ==
  {Comparable("C", 26, 60, 900, None), Comparable("C", 26, 48, 2000, None), Comparable("C", 29, 60, 7001, None),
   Comparable("C", 33, 40, 12000, None), Comparable("G", 26, 60, 3000, None)}

LongPools ==
  UNION {[1..6 -> {c \in Comparables : c.aav \in kinds}] : kinds \in {{900, 7001}, {2000, 7001}, {900, 3000}}}

MarketInputs ==
  LET Given(ages, values, pools) ==
        [player : [position : {"C"}, age : ages, points : {60}, status : {"ufa", "rfa"}], value : values, pool : pools]
  IN  Given({None, 22, 27}, {800, 5001}, UpTo(3, Comparables)) \cup Given({None, 27}, {801}, LongPools)

PageInputs ==
  LET projections == [gar : {-50, 101}, availability : {50}, points : {60}]
      contracts == {[player |-> who, active |-> active, hit |-> hit] : who \in 1..2, active \in BOOLEAN, hit \in {0, 4000}}
  IN  [player : [id : {1}, org : {"o1"}, position : {"C", "G"}, status : {"ufa"}, birth : {None, [year |-> 1999, day |-> 200]}],
       db : [minSalary : {None, 900}, start : [year : {2026}, day : {199, 200}], projection : {None} \cup projections,
             contracts : kSubset(2, contracts), comparables : UpTo(2, {Comparable("C", 26, 60, 9000, o) : o \in {None, "o1", "o2"}})]]

Readings ==
  [texts |-> UpTo(5, Chars), tables |-> Tables, columns |-> ColumnInputs,
   names |-> UpTo(3, {"a", "b", "b-acute", "space"}) \X UpTo(3, {"a", "b", "dash"}), links |-> LinkInputs,
   market |-> MarketInputs, page |-> PageInputs]

-----------------------------------------------------------------------------
CapInit ==
  /\ Scenario!Init
  /\ \/ part = "roster" /\ Init /\ db = CHOOSE d \in Officials : TRUE
     \/ part = "scenario" /\ NoRoster

CapNext ==
  \/ part = "roster" /\ Next /\ UNCHANGED <<part, db, preview, targets, taken>>
  \/ part = "scenario" /\ Scenario!Next /\ UNCHANGED <<part, input>>

CapSpec == CapInit /\ NoScores /\ [][CapNext /\ UNCHANGED scoreVars]_allVars

EnginesInit ==
  \/ CapInit /\ NoScores
  \/ Scores!Init /\ NoCap
  \/ part \in DOMAIN Readings /\ NoScores /\ NoCap

(* What is read, one input of the part after another.                      *)
Reading ==
  /\ part \in DOMAIN Readings
  /\ given = None
  /\ given' \in Readings[part]
  /\ UNCHANGED <<capVars, rows, need, weights>>

EnginesNext ==
  \/ Reading
  \/ CapNext /\ UNCHANGED scoreVars
  \/ Scores!Next /\ UNCHANGED <<input, db, preview, targets, taken>>

EnginesSpec == EnginesInit /\ [][EnginesNext]_allVars

-----------------------------------------------------------------------------
(* What a scenario's page promises is what applying it leaves, and nothing *)
(* is charged twice.                                                       *)
PreviewTold == part = "scenario" => Scenario!PreviewExact /\ Scenario!NothingChargedTwice

(* The apply page shows the charge after the moves for every season.       *)
EverySeasonTold == part = "scenario" => Scenario!PreviewExactEverySeason

(* Fits say what they are made of, which is the rows that pages show;      *)
(* missing metrics and other positions change no percentile, and trends    *)
(* compare what they say they compare: see MCScores.  An estimate of the   *)
(* market is of the nearest comparables of the organization's own pool,    *)
(* and no dearer contract makes it cheaper: see Valuation.                 *)
ScoresTold ==
  /\ Scores!FitTold /\ Scores!StatsTold /\ Scores!TrendsTold
  /\ part = "market" /\ given # None =>
       /\ Worth!EstimateOfNearest(given.player, given.value, given.pool)
       /\ Worth!EstimateMonotone(given.player, given.value, given.pool)
  /\ part = "page" /\ given # None => Worth!ViewIsOwn(given.player, given.db)

(* What is written as CSV is read back, each column as its field: see      *)
(* CsvFiles.                                                               *)
CsvTold ==
  given # None =>
  /\ part = "texts" => Files!ReadOnce(given)
  /\ part = "tables" => Files!ReadBack(given.headers, given.rows)
  /\ part = "columns" =>
       Files!EachOwnColumn(given.fields, [i \in DOMAIN given.columns |-> given.columns[i].header],
                           [i \in DOMAIN given.columns |-> given.columns[i].cell])

(* Picks and rankings are linked to whom they are of: see DraftLink.       *)
LinksTold ==
  given # None =>
  /\ part = "names" => Links!DistanceIsEdits(given[1], given[2])
  /\ part = "links" =>
       LET pages == Pages(given.theirs)
           found == Links!Found(given.person, given.search)
           full == Links!normalizeName(Links!FullName(given.person))
       IN  /\ Cardinality(given.theirs) <= 1 =>
                Links!LinkIsSure(given.person, given.theirs, given.search, found, given.maxChecks,
                                 Links!linkDraftPick(given.person, given.search, pages, given.maxChecks))
           /\ Links!LinkIsSure(given.person, given.theirs, given.search,
                               {c \in found : Links!Similar(Links!normalizeName(c.name), full)}, given.maxChecks,
                               Links!linkRankedPlayer(given.person, given.search, pages, given.maxChecks))

(* What texts say of values and persons is read as it is meant.            *)
TextsTold == CsvTold /\ LinksTold
=============================================================================
