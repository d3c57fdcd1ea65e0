------------------------------ MODULE CsvFiles ------------------------------
(***************************************************************************)
(* The CSV files that go out and come in: what the exports and templates   *)
(* write (csv.ts), what an upload is read as (csvParse.ts), and the fields *)
(* that its columns are taken for (definitions.ts, importService.ts).      *)
(*                                                                         *)
(* A text is a sequence of characters.  Those with a meaning for CSV and   *)
(* the space are named; a word that only its own name matters of, as that  *)
(* of a field, is one character, in any case and spelling of its letters.  *)
(***************************************************************************)
EXTENDS Naturals, SequencesExt, FiniteSets

CONSTANTS
  None,
  MaxRows   \* the rows a file may have

Whitespace == {"space", "return", "newline"}
Marks == {"quote", "comma", "return", "newline"}

-----------------------------------------------------------------------------
(* Writing.                                                                *)

(* Fault: only a cell with a comma or a quote is quoted.                   *)
Quoted_SameLine(cell) == \E i \in DOMAIN cell : cell[i] \in {"quote", "comma"}

Quoted(cell) == \E i \in DOMAIN cell : cell[i] \in Marks

escape(cell) ==
  IF Quoted(cell)
  THEN <<"quote">> \o FlattenSeq([i \in DOMAIN cell |-> IF cell[i] = "quote" THEN <<"quote", "quote">> ELSE <<cell[i]>>]) \o <<"quote">>
  ELSE cell

Line(row) ==
  FlattenSeq([i \in DOMAIN row |-> IF i = 1 THEN escape(row[i]) ELSE <<"comma">> \o escape(row[i])]) \o <<"return", "newline">>

toCsv(headers, rows) == Line(headers) \o FlattenSeq([i \in DOMAIN rows |-> Line(rows[i])])

-----------------------------------------------------------------------------
(* Reading: what has been read so far, and the effect of a character when  *)
(* another is next.  skip: the next one belongs to this one.               *)
Start == [records |-> <<>>, record |-> <<>>, field |-> <<>>, inQuotes |-> FALSE, skip |-> FALSE]

pushField(p) == [p EXCEPT !.record = Append(@, p.field), !.field = <<>>]

(* A blank line is no record.                                              *)
pushRecord(p) ==
  LET record == pushField(p).record
  IN  [p EXCEPT !.records = IF record = << <<>> >> THEN @ ELSE Append(@, record), !.record = <<>>, !.field = <<>>]

Read(p, ch, next) ==
  CASE p.skip -> [p EXCEPT !.skip = FALSE]
    [] p.inQuotes /\ ch = "quote" /\ next = "quote" -> [p EXCEPT !.field = Append(@, ch), !.skip = TRUE]
    [] p.inQuotes /\ ch = "quote" /\ next # "quote" -> [p EXCEPT !.inQuotes = FALSE]
    [] ~p.inQuotes /\ ch = "quote" /\ p.field = <<>> -> [p EXCEPT !.inQuotes = TRUE]
    [] ~p.inQuotes /\ ch = "comma" -> pushField(p)
    [] ~p.inQuotes /\ ch = "return" -> [pushRecord(p) EXCEPT !.skip = next = "newline"]
    [] ~p.inQuotes /\ ch = "newline" -> pushRecord(p)
    [] OTHER -> [p EXCEPT !.field = Append(@, ch)]

RECURSIVE trim(_)
trim(cell) ==
  IF cell # <<>> /\ Head(cell) \in Whitespace THEN trim(Tail(cell))
  ELSE IF cell # <<>> /\ Last(cell) \in Whitespace THEN trim(Front(cell))
  ELSE cell

Align(record, width) == [i \in 1..width |-> IF i <= Len(record) THEN trim(record[i]) ELSE <<>>]

(* None: the file is refused.                                              *)
parseCsv(text) ==
  LET p == FoldLeftDomain(LAMBDA q, i : Read(q, text[i], IF i < Len(text) THEN text[i + 1] ELSE None), Start, text)
      records == (IF p.field # <<>> \/ p.record # <<>> THEN pushRecord(p) ELSE p).records
  IN  IF \/ p.inQuotes
         \/ Len(records) > MaxRows + 1
         \/ records = <<>>
         \/ \A i \in DOMAIN records[1] : trim(records[1][i]) = <<>>
      THEN None
      ELSE LET width == Len(records[1])
           IN  [headers |-> Align(records[1], width),
                rows |-> [n \in 1..(Len(records) - 1) |-> Align(records[n + 1], width)]]

-----------------------------------------------------------------------------
(* The fields of each kind of file: their key and label, whatever is not a *)
(* letter or a digit left out, and whether the file must have them.        *)
Need(key, label) == [key |-> key, label |-> label, required |-> TRUE]
May(key, label) == [key |-> key, label |-> label, required |-> FALSE]

players ==
  <<Need("fullname", "fullname"), Need("position", "position"), May("dateofbirth", "dateofbirth"),
    May("shootscatches", "shootscatches"), May("nationality", "nationality"),
    May("teamabbreviation", "teamabbreviation"), May("rosterstatus", "rosterstatus"),
    May("freeagentstatus", "freeagentstatus")>>

contracts ==
  <<Need("playername", "playername"), Need("teamabbreviation", "teamabbreviation"), Need("seasonname", "season"),
    Need("caphit", "caphit"), May("basesalary", "basesalary"), May("performancebonus", "performancebonus"),
    May("contracttype", "contracttype")>>

ncaa_conferences == <<Need("name", "conferencename"), May("abbreviation", "abbreviation"), May("level", "level")>>

ncaa_schools ==
  <<Need("name", "schoolname"), May("shortname", "shortname"), May("abbreviation", "abbreviation"),
    Need("conferencename", "conference"), May("city", "city"), May("state", "stateprovince"), May("country", "country"),
    May("division", "division")>>

ncaa_players ==
  <<Need("fullname", "fullname"), Need("position", "position"), May("dateofbirth", "dateofbirth"),
    May("shootscatches", "shootscatches"), May("heightcm", "heightcm"), May("weightkg", "weightkg"),
    May("nationality", "nationality"), Need("schoolname", "school"), Need("classyear", "classyear"),
    May("nhldraftstatus", "nhldraftstatus"), May("nhlrightsholder", "nhlrightsholder"), May("draftyear", "draftyear")>>

ncaa_season_stats ==
  <<Need("playername", "prospectname"), Need("seasonname", "season"), Need("classyear", "classyear"),
    Need("gamesplayed", "gamesplayed"), Need("goals", "goals"), Need("assists", "assists"), May("shots", "shots"),
    May("penaltyminutes", "pim"), May("ppgoals", "ppgoals"), May("ppassists", "ppassists"), May("shgoals", "shgoals"),
    May("faceoffwins", "faceoffwins"), May("faceoffattempts", "faceoffattempts"),
    May("timeoniceseconds", "toiseconds"), May("teamgoalsfor", "teamgoalsfor")>>

ncaa_game_logs ==
  <<Need("playername", "prospectname"), Need("seasonname", "season"), Need("gamedate", "gamedate"),
    Need("opponent", "opponent"), May("homeaway", "homeaway"), Need("goals", "goals"), Need("assists", "assists"),
    May("shots", "shots"), May("pppoints", "pppoints"), May("penaltyminutes", "pim"),
    May("faceoffwins", "faceoffwins"), May("faceoffattempts", "faceoffattempts"), May("timeoniceseconds", "toiseconds")>>

ncaa_draft_status ==
  <<Need("playername", "prospectname"), Need("nhldraftstatus", "nhldraftstatus"),
    May("nhlrightsholder", "nhlrightsholder"), May("draftyear", "draftyear"), May("draftround", "draftround"),
    May("draftoverall", "overallpick"), May("collegefreeagentstatus", "collegefastatus")>>

CSV_IMPORT_DEFINITIONS ==
  <<players, contracts, ncaa_conferences, ncaa_schools, ncaa_players, ncaa_season_stats, ncaa_game_logs, ncaa_draft_status>>

-----------------------------------------------------------------------------
(* What the columns are taken for: field by field a header, or None.       *)
normalize(header) == SelectSeq(header, LAMBDA ch : ch \notin Whitespace \cup Marks)

LastOf(S) == CHOOSE i \in S : \A j \in S : j <= i

(* Fault: the first of several columns of one name is taken.               *)
Named_First(headers, name) ==
  LET hits == {i \in DOMAIN headers : normalize(headers[i]) = <<name>>}
  IN  IF hits = {} THEN None ELSE headers[CHOOSE i \in hits : \A j \in hits : i <= j]

Named(headers, name) ==
  LET hits == {i \in DOMAIN headers : normalize(headers[i]) = <<name>>}
  IN  IF hits = {} THEN None ELSE headers[LastOf(hits)]

autoMapHeaders(fields, headers) ==
  [f \in ToSet(fields) |-> IF Named(headers, f.key) # None THEN Named(headers, f.key) ELSE Named(headers, f.label)]

(* None: a required field has no column.                                   *)
Extract(fields, mapping, headers, row) ==
  LET Column(f) == {i \in DOMAIN headers : mapping[f] # None /\ headers[i] = mapping[f]}
  IN  IF \E f \in ToSet(fields) : f.required /\ Column(f) = {} THEN None
      ELSE [f \in ToSet(fields) |-> IF Column(f) = {} THEN <<>> ELSE row[LastOf(Column(f))]]

buildTemplateCsv(fields) == [i \in DOMAIN fields |-> <<fields[i].key>>]

-----------------------------------------------------------------------------
(* Properties, of one table or text each.                                  *)
Blank(row) == \A i \in DOMAIN row : row[i] = <<>>

(* Whatever its cells contain, a table that is written is read back as it  *)
(* was, its cells trimmed, but for the blank rows of a single column.      *)
ReadBack(headers, rows) ==
  LET file == parseCsv(toCsv(headers, rows))
      kept == SelectSeq(rows, LAMBDA row : Len(headers) > 1 \/ row[1] # <<>>)
  IN  IF \A i \in DOMAIN headers : trim(headers[i]) = <<>> THEN file = None
      ELSE file = [headers |-> Align(headers, Len(headers)), rows |-> [n \in DOMAIN kept |-> Align(kept[n], Len(headers))]]

(* What has been read once, from whatever text, and is written and read    *)
(* again is the same, but for blank rows of a single column.               *)
ReadOnce(text) ==
  LET file == parseCsv(text)
  IN  file # None =>
        parseCsv(toCsv(file.headers, file.rows)) =
          [file EXCEPT !.rows = IF Len(file.headers) = 1 THEN SelectSeq(@, LAMBDA row : ~Blank(row)) ELSE @]

(* A file with a column of every field, under its key or its label, in any *)
(* order and beside columns of its own, is read with each value under its  *)
(* own field; no two fields read one column.                               *)
EachOwnColumn(fields, headers, row) ==
  LET file == parseCsv(toCsv(headers, <<row>>))
      read == Extract(fields, autoMapHeaders(fields, file.headers), file.headers, file.rows[1])
  IN  read # None /\ \A f \in ToSet(fields) : read[f] = <<f.key>>
=============================================================================
