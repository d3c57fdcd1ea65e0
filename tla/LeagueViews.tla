---------------------------- MODULE LeagueViews -----------------------------
(***************************************************************************)
(* The two pages that show public league data straight from the NHL, never *)
(* stored in the database: the scoreboard (scoresService.ts, nhlScores.ts) *)
(* with its short cache in memory, and the teams' game situations          *)
(* (situationsService.ts, nhlSituations.ts), downloaded report by report,  *)
(* kept in memory and in a file, and refreshed behind a visitor's back.    *)
(*                                                                         *)
(* A visit is one request of a page.  What the NHL has is a version of each*)
(* report and a state of each game; an answer may also be JSON that is no  *)
(* report (Junk), or no answer.  The process may restart between any two   *)
(* steps, and loses what it has in memory.                                 *)
(***************************************************************************)
EXTENDS Integers, Sequences, Functions

CONSTANTS
  Nothing,     \* undefined, null
  Junk,        \* an answer, or a file, that is not what it should be
  Visits,      \* requests of a page
  Dates,       \* the boards asked for: "now" or a date
  Games,       \* the games of the day
  Seasons,     \* the seasons asked for
  TurnOfYear,  \* when each season stops being the current one
  Reports,     \* how many reports a download takes, the index included
  LiveTtl, QuietTtl, InSeasonTtl,
  MaxTime,     \* bound: the clock
  MaxVersion   \* bound: versions of a season's reports

(* What a report is, or not; what is kept of a download.                   *)
Answers == Nat \cup {Junk}
Copies == [fetchedAt : Nat, reports : Seq(Answers)]

ASSUME TimesAssumption ==
  /\ LiveTtl \in Nat \ {0} /\ QuietTtl \in Nat \ {0} /\ InSeasonTtl \in Nat
  /\ Reports \in Nat
ASSUME PagesAssumption ==
  /\ Dates \cap Seasons = {} /\ Nothing # Junk
  /\ \A x \in {Nothing, Junk} : x \notin Copies /\ x \notin Seq(Answers)

VARIABLES
  clock,
  games,       \* the NHL's games
  league,      \* the version of the NHL's reports of each season
  boards,      \* the scoreboards in memory
  memory,      \* the downloads in memory
  files,       \* the downloads on disk
  refreshing,  \* the seasons that are refreshed
  job,         \* what the refresh of a season has got so far
  visit        \* where each visit stands

nhlVars == <<games, league>>
seasonVars == <<memory, files, refreshing, job>>
pageVars == <<clock, games, league, boards, memory, files, refreshing, job, visit>>

-----------------------------------------------------------------------------
(* The scoreboard.                                                         *)

(* What the NHL says of a game, and what the page makes of it.             *)
Scheduled == [schedule |-> "OK", state |-> "FUT", intermission |-> FALSE, last |-> Nothing]

status(game) ==
  CASE game.schedule = "PPD" -> "postponed"
    [] game.schedule = "SUSP" -> "suspended"
    [] game.schedule = "CNCL" -> "cancelled"
    [] game.state \in {"LIVE", "CRIT"} -> IF game.intermission THEN "intermission" ELSE "live"
    [] game.state \in {"FINAL", "OFF"} -> "final"
    [] game.state = "PRE" -> "pregame"
    [] game.state = "FUT" -> "scheduled"
    [] OTHER -> Nothing

ScoreGame(game) ==
  LET s == status(game)
  IN  [status |-> s,
       period |-> s \in {"live", "intermission", "final"},
       clock |-> s \in {"live", "intermission"},
       finishedIn |-> IF s = "final" /\ game.last \in {"OT", "SO"} THEN game.last ELSE Nothing]

(* A body without games, or with one in a state it does not know, throws.  *)
parseScoreboard(body) ==
  IF body = Junk \/ \E g \in Games : status(body[g]) = Nothing THEN Nothing
  ELSE [g \in Games |-> ScoreGame(body[g])]

Active(board) == \E g \in Games : board[g].status \in {"live", "intermission", "pregame"}
BoardTtl(date, board) == IF Active(board) \/ date = "now" THEN LiveTtl ELSE QuietTtl

(* heard, here and below, is when the NHL said so: the code does not keep  *)
(* it.                                                                     *)
Shown(v, what, heard) ==
  [visit EXCEPT ![v] = [@ EXCEPT !.at = "shown", !.what = what, !.heard = heard]]
Failed(v) == [visit EXCEPT ![v].at = "failed"]

getScoreboard(v, date) ==
  LET hit == boards[date]
      asked == [at |-> "asked", page |-> date, since |-> clock, what |-> Nothing, heard |-> Nothing]
  IN  /\ visit[v] = Nothing
      /\ visit' = IF hit # Nothing /\ clock - hit.at < hit.ttl
                  THEN [visit EXCEPT ![v] = [asked EXCEPT !.at = "shown", !.what = hit.board, !.heard = hit.heard]]
                  ELSE [visit EXCEPT ![v] = asked]
      /\ UNCHANGED <<clock, nhlVars, boards, seasonVars>>

(* The NHL answers, or does not; other answers may be on their way.        *)
AnswerBoard(v) ==
  /\ visit[v] # Nothing /\ visit[v].at = "asked"
  /\ \/ visit' = Failed(v)
     \/ \E body \in {games, Junk} :
          visit' = [visit EXCEPT ![v] = [@ EXCEPT !.at = "answered", !.what = body, !.heard = clock]]
  /\ UNCHANGED <<clock, nhlVars, boards, seasonVars>>

(* Fault: the age of a board is counted from when its answer was read.     *)
BoardAt_Read(v) == clock

(* A board is as old as the visit that asked for it.                       *)
BoardAt(v) == visit[v].since

ReceiveBoard(v) ==
  /\ visit[v] # Nothing /\ visit[v].at = "answered"
  /\ LET board == parseScoreboard(visit[v].what)
         date == visit[v].page
     IN  IF board = Nothing
         THEN visit' = Failed(v) /\ UNCHANGED boards
         ELSE /\ boards' = [boards EXCEPT ![date] = [at |-> BoardAt(v), ttl |-> BoardTtl(date, board),
                                                      board |-> board, heard |-> visit[v].heard]]
              /\ visit' = Shown(v, board, visit[v].heard)
  /\ UNCHANGED <<clock, nhlVars, seasonVars>>

-----------------------------------------------------------------------------
(* The situations.                                                         *)

Raw(got) == [fetchedAt |-> clock, reports |-> got]

readFile(s) == IF files[s] = Junk THEN Nothing ELSE files[s]

(* A file is written whole, in part (the process or the disk gives out) or *)
(* not at all (the file system is read-only).                              *)
writeFile(s, raw) == \E file \in {files[s], Junk, raw} : files' = [files EXCEPT ![s] = file]

Live(s) == clock < TurnOfYear[s]

(* Fault: a copy that was only just read from disk is not asked its age.   *)
Stale_JustRead(s, raw) == Live(s) /\ memory[s] # Nothing /\ clock - raw.fetchedAt > InSeasonTtl

Stale(s, raw) == Live(s) /\ clock - raw.fetchedAt > InSeasonTtl

(* The page shows what it can parse.                                       *)
Page(v, raw) ==
  IF Junk \in Range(raw.reports) THEN Failed(v) ELSE Shown(v, raw.reports, raw.fetchedAt)

getTeamSituations(v, s) ==
  LET raw == IF memory[s] # Nothing THEN memory[s] ELSE readFile(s)
      asked == [at |-> "downloading", page |-> s, since |-> clock, what |-> <<>>, heard |-> Nothing]
  IN  /\ visit[v] = Nothing
      /\ IF raw = Nothing
         THEN visit' = [visit EXCEPT ![v] = asked] /\ UNCHANGED seasonVars
         ELSE /\ memory' = [memory EXCEPT ![s] = raw]
              /\ visit' = [visit EXCEPT ![v] =
                   IF Junk \in Range(raw.reports) THEN [asked EXCEPT !.at = "failed"]
                   ELSE [asked EXCEPT !.at = "shown", !.what = raw.reports, !.heard = raw.fetchedAt]]
              /\ IF Stale(s, raw) /\ s \notin refreshing
                 THEN refreshing' = refreshing \cup {s} /\ job' = [job EXCEPT ![s] = <<>>]
                 ELSE UNCHANGED <<refreshing, job>>
              /\ UNCHANGED files
      /\ UNCHANGED <<clock, nhlVars, boards>>

(* The next report of a visit's own download, or none.                     *)
Download(v) ==
  /\ visit[v] # Nothing /\ visit[v].at = "downloading" /\ Len(visit[v].what) < Reports
  /\ \/ visit' = Failed(v)
     \/ \E answer \in {league[visit[v].page], Junk} : visit' = [visit EXCEPT ![v].what = Append(@, answer)]
  /\ UNCHANGED <<clock, nhlVars, boards, seasonVars>>

Downloaded(v) ==
  /\ visit[v] # Nothing /\ visit[v].at = "downloading" /\ Len(visit[v].what) = Reports
  /\ LET s == visit[v].page
         raw == Raw(visit[v].what)
     IN  /\ writeFile(s, raw)
         /\ memory' = [memory EXCEPT ![s] = raw]
         /\ visit' = Page(v, raw)
  /\ UNCHANGED <<clock, nhlVars, boards, refreshing, job>>

(* Fault: a season is freed only by a refresh that succeeds.               *)
Freed_Fetched(s, ok) == IF ok THEN refreshing \ {s} ELSE refreshing

(* Whatever becomes of a refresh, the season may be refreshed again.       *)
Freed(s, ok) == refreshing \ {s}

Refresh(s) ==
  /\ job[s] # Nothing
  /\ \/ /\ Len(job[s]) < Reports
        /\ \E answer \in {league[s], Junk} : job' = [job EXCEPT ![s] = Append(@, answer)]
        /\ UNCHANGED <<memory, files, refreshing>>
     \/ /\ Len(job[s]) < Reports
        /\ job' = [job EXCEPT ![s] = Nothing]
        /\ refreshing' = Freed(s, FALSE)
        /\ UNCHANGED <<memory, files>>
     \/ /\ Len(job[s]) = Reports
        /\ memory' = [memory EXCEPT ![s] = Raw(job[s])]
        /\ writeFile(s, Raw(job[s]))
        /\ job' = [job EXCEPT ![s] = Nothing]
        /\ refreshing' = Freed(s, TRUE)
  /\ UNCHANGED <<clock, nhlVars, boards, visit>>

-----------------------------------------------------------------------------
(* The NHL and the process.                                                *)

NextStates(game) ==
  CASE game.state = "FUT" -> {[game EXCEPT !.state = "PRE"], [game EXCEPT !.schedule = "PPD"]}
    [] game.state = "PRE" -> {[game EXCEPT !.state = "LIVE"]}
    [] game.state = "LIVE" -> {[game EXCEPT !.intermission = ~@], [game EXCEPT !.state = "OFF", !.last = "OT"]}
    [] OTHER -> {}

Play(g) ==
  /\ games[g].schedule = "OK"
  /\ \E game \in NextStates(games[g]) : games' = [games EXCEPT ![g] = game]
  /\ UNCHANGED <<clock, league, boards, seasonVars, visit>>

Publish(s) ==
  /\ Live(s) /\ league[s] < MaxVersion
  /\ league' = [league EXCEPT ![s] = @ + 1]
  /\ UNCHANGED <<clock, games, boards, seasonVars, visit>>

Pass ==
  /\ clock < MaxTime
  /\ clock' = clock + 1
  /\ UNCHANGED <<nhlVars, boards, seasonVars, visit>>

Restart ==
  /\ boards' = [d \in Dates |-> Nothing]
  /\ memory' = [s \in Seasons |-> Nothing]
  /\ refreshing' = {}
  /\ job' = [s \in Seasons |-> Nothing]
  /\ visit' = [v \in Visits |->
                 IF visit[v] = Nothing \/ visit[v].at = "shown" THEN visit[v] ELSE [visit[v] EXCEPT !.at = "failed"]]
  /\ UNCHANGED <<clock, nhlVars, files>>

(* A file may be left from an earlier run of the process.                  *)
PagesInit ==
  /\ clock = 0
  /\ games = [g \in Games |-> Scheduled]
  /\ league = [s \in Seasons |-> 0]
  /\ boards = [d \in Dates |-> Nothing]
  /\ memory = [s \in Seasons |-> Nothing]
  /\ files \in [Seasons -> {Nothing, [fetchedAt |-> 0, reports |-> [i \in 1..Reports |-> 0]]}]
  /\ refreshing = {}
  /\ job = [s \in Seasons |-> Nothing]
  /\ visit = [v \in Visits |-> Nothing]

ScoreboardNext ==
  \/ \E g \in Games : Play(g)
  \/ \E v \in Visits : (\E d \in Dates : getScoreboard(v, d)) \/ AnswerBoard(v) \/ ReceiveBoard(v)

SituationsNext ==
  \/ \E s \in Seasons : Publish(s) \/ Refresh(s)
  \/ \E v \in Visits : (\E s \in Seasons : getTeamSituations(v, s)) \/ Download(v) \/ Downloaded(v)

PagesNext == Pass \/ Restart \/ ScoreboardNext \/ SituationsNext

PagesSpec == PagesInit /\ [][PagesNext]_pageVars

-----------------------------------------------------------------------------
(* A board says what the NHL said after its visit began, or while the copy *)
(* in memory was still good: it is never older than its time to live,      *)
(* however slow the answer was and whichever answer came last.             *)
BoardsFresh ==
  \A v \in Visits :
    visit[v] # Nothing /\ visit[v].at = "shown" /\ visit[v].page \in Dates =>
      visit[v].since - visit[v].heard < BoardTtl(visit[v].page, visit[v].what)

(* A visit to the season in progress that is shown a copy older than the   *)
(* time to live leaves a refresh under way.                                *)
StaleIsRefreshed ==
  \A v \in Visits :
    visit[v] = Nothing /\ visit'[v] # Nothing /\ visit'[v].at \in {"shown", "failed"} /\ visit'[v].page \in Seasons =>
      \/ ~Live(visit'[v].page)
      \/ clock - memory'[visit'[v].page].fetchedAt <= InSeasonTtl
      \/ visit'[v].page \in refreshing'

(* A newer download is never replaced by an older one while the process    *)
(* runs, and no visit is shown a file written in part.                     *)
NeverOlder ==
  \A s \in Seasons :
    /\ memory'[s] # Junk
    /\ memory[s] # Nothing /\ memory'[s] # Nothing => memory'[s].fetchedAt >= memory[s].fetchedAt

(* A season is refreshed by one download at a time.                        *)
OneRefresh == \A s \in Seasons : job[s] # Nothing <=> s \in refreshing

(* What visitors are shown: a board is never older than its time to live;  *)
(* a season is refreshed by one download at a time; who is shown a stale   *)
(* copy of the season in progress leaves a refresh under way; and no       *)
(* download gives way to an older one.                                     *)
PagesTold == [][BoardsFresh' /\ OneRefresh' /\ StaleIsRefreshed /\ NeverOlder]_pageVars

(* "A finished season is fetched once": whoever visits a season that is    *)
(* over sees a copy that was fetched when it was over.                     *)
FetchedWhenFinished ==
  \A v \in Visits :
    /\ visit[v] # Nothing /\ visit[v].at = "shown" /\ visit[v].page \in Seasons
    /\ visit[v].since >= TurnOfYear[visit[v].page]
    => visit[v].heard >= TurnOfYear[visit[v].page]
=============================================================================
