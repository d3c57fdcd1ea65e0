--------------------------- MODULE ConnectorFetch ---------------------------
(***************************************************************************)
(* Fetching real data (connectorService.ts, connectors/http.ts,            *)
(* connectorActions.ts): a request becomes a plan of pages, each page is   *)
(* taken from the organization's cache or fetched, and the parsed rows are *)
(* staged as one import that somebody still has to approve.                *)
(*                                                                         *)
(* A page is a record of what it shows and of whom; its body is the        *)
(* version of the source it was answered from, and whether it parses.      *)
(* The wait for the host's turn is RateLimiter's subject: here it is the   *)
(* time between two steps.                                                 *)
(***************************************************************************)
EXTENDS Integers, SequencesExt, FiniteSetsExt

CONSTANTS
  Runs,         \* requests to fetch, each made once
  Org,          \* Org[r]: the organization of run r
  Ids,          \* what a form may name: players, clubs and "ALL"
  Forms,        \* what the pages' forms may ask for, see RequestFromForm
  Teams,        \* every NHL club, in order
  MaxPlayers,   \* players in one request
  MaxLogs,      \* players in one request for game logs
  Ttl,          \* how long a cached body is used
  Timeout,      \* how long a request may go without an answer
  TrainedAt,    \* when the models were trained whose files may be there
  MaxTime,      \* bound: the clock
  MaxVersion,   \* bound: versions of the source
  None          \* null

ASSUME TtlAssumption == Ttl \in Nat \ {0} /\ Timeout \in Nat \ {0}
ASSUME FormsAssumption ==
  \A form \in Forms :
    /\ form \in [dataset : STRING, of : Seq(Ids), bypass : BOOLEAN]
    /\ form.dataset = "nhl_roster" => Len(form.of) = 1
ASSUME TrainedAtAssumption == TrainedAt \subseteq Int
ASSUME TeamsAssumption == Teams \in Seq(Ids) \ {<<>>} /\ IsInjective(Teams)
ASSUME BoundsAssumption == MaxTime \in Nat /\ MaxVersion \in Nat /\ MaxPlayers \in Nat /\ MaxLogs \in Nat

VARIABLES
  clock,     \* the time
  source,    \* the version of the sources' data
  cache,     \* the rows of connector_cache
  audits,    \* the rows of audit_logs of fetches
  imports,   \* the imports staged, awaiting approval
  run        \* where each run stands

vars == <<clock, source, cache, audits, imports, run>>

(***************************************************************************)
(* Requests and their plans.                                               *)
(***************************************************************************)
ByPlayer == {"nhl_players", "nhl_player_seasons"}
ModelFiles == <<"rosteriq_xg_skaters", "rosteriq_xg_goalies", "rosteriq_xg_teams">>

(* What a request stages: the pages of one dataset, then model files. A    *)
(* bundle with standings begins with them, so that nothing is staged of it *)
(* when the NHL does not answer.                                           *)
Files(q) ==
  CASE q.dataset \in {"xg_bundle", "xg_files"} -> ModelFiles
    [] Contains(ModelFiles, q.dataset) -> <<q.dataset>>
    [] OTHER -> <<>>
Online(q) == q.dataset = "xg_bundle" \/ Files(q) = <<>>

(* Each of s where it comes first.                                         *)
Unique(s) ==
  LET kept[n \in 0..Len(s)] ==
        IF n = 0 THEN <<>> ELSE IF Contains(kept[n - 1], s[n]) THEN kept[n - 1] ELSE Append(kept[n - 1], s[n])
  IN  kept[Len(s)]

(* Fault: the ids of a form are taken as they were typed.                  *)
RequestFromForm_Repeated(form) == form

RequestFromForm(form) ==
  CASE form.dataset \in ByPlayer \cup {"nhl_game_logs"} -> [form EXCEPT !.of = Unique(form.of)]
    [] form.dataset = "nhl_roster" /\ form.of = <<"ALL">> -> [form EXCEPT !.of = Teams]
    [] form.dataset = "xg_bundle" -> [form EXCEPT !.bypass = TRUE]
    [] OTHER -> form

ValidRequest(q) ==
  /\ q.dataset \in ByPlayer => Len(q.of) \in 1..MaxPlayers
  /\ q.dataset = "nhl_game_logs" => Len(q.of) \in 1..MaxLogs

Url(page, of) == [page |-> page, of |-> of]

PlanUrls(q) ==
  CASE q.dataset \in ByPlayer -> [i \in DOMAIN q.of |-> Url("landing", q.of[i])]
    [] q.dataset = "nhl_game_logs" ->
         [i \in 1..2 * Len(q.of) |-> Url(IF i % 2 = 1 THEN "game_log" ELSE "landing", q.of[(i + 1) \div 2])]
    [] q.dataset = "nhl_roster" -> [i \in DOMAIN q.of |-> Url("roster", q.of[i])]
    [] q.dataset = "nhl_team_stats" -> <<Url("team_stats", "all"), Url("team_index", "all")>>
    [] q.dataset = "hockeytech_skater_stats" -> <<Url("ht_seasons", "all")>>
    [] OTHER -> <<Url(q.dataset, "all")>>

HasFollowUp(q, got) == q.dataset = "hockeytech_skater_stats" /\ Len(got) = 1

(* The rows a plan's parser makes: whose row it is, and of whose pages.    *)
Rows(q, got) ==
  CASE q.dataset = "nhl_game_logs" ->
         [i \in DOMAIN q.of |-> [of |-> q.of[i], from |-> {got[2 * i - 1].url.of, got[2 * i].url.of}]]
    [] q.dataset = "nhl_roster" -> [i \in DOMAIN q.of |-> [of |-> q.of[i], from |-> {got[i].url.of}]]
    [] q.dataset \in ByPlayer -> [i \in DOMAIN got |-> [of |-> got[i].url.of, from |-> {got[i].url.of}]]
    [] q.dataset = "hockeytech_skater_stats" -> <<[of |-> "all", from |-> {got[2].url.of}]>>
    [] OTHER -> <<[of |-> "all", from |-> {got[1].url.of}]>>

(* parse and createConnectorImport: all that makes them throw.             *)
Parses(got) == \A i \in DOMAIN got : got[i].sound

(* Fault: an import is said to be as old as its last page.                 *)
Earliest_Last(got) == got[Len(got)].at

Earliest(got) == Min({got[i].at : i \in DOMAIN got})

(***************************************************************************)
(* A run: the request it answers, the pages it needs and has, the model    *)
(* files it has still to read, and the answer it is waiting for.  Of one   *)
(* that failed: why, and the page it had cached and not yet audited.       *)
(***************************************************************************)
Init ==
  /\ clock = 0
  /\ source = 0
  /\ cache = {}
  /\ audits = {}
  /\ imports = {}
  /\ run = [r \in Runs |-> [st |-> "idle"]]

NextUrl(r) == run[r].need[Len(run[r].got) + 1]
Fail(r, why, lost) == run' = [run EXCEPT ![r] = [st |-> "failed", q |-> @.q, why |-> why, lost |-> lost]]
Stop(r, why) == Fail(r, why, None)
Audit(r, action, url) == audits' = audits \cup {[org |-> Org[r], action |-> action, url |-> url]}

(* runConnectorAction, stageXgBundleAction.                                *)
Begin(r) ==
  /\ run[r].st = "idle"
  /\ \E form \in Forms :
       LET q == RequestFromForm(form)
       IN /\ ValidRequest(q)
          /\ run' = [run EXCEPT ![r] =
               [st |-> IF Online(q) THEN "look" ELSE "files", q |-> q, since |-> clock, got |-> <<>>,
                need |-> IF Online(q) THEN PlanUrls(q) ELSE <<>>,
                files |-> Files(q), sent |-> clock, answer |-> None]]
  /\ UNCHANGED <<clock, source, cache, audits, imports>>

Cached(r, url) == {row \in cache : row.org = Org[r] /\ row.url = url}

(* Fault: the cache is read by its key alone.                              *)
Hits_AnyOrg(r, url) == {row \in cache : row.url = url /\ row.at + Ttl > clock /\ ~run[r].q.bypass}

(* Fault: a row is used however old it is.                                 *)
Hits_Expired(r, url) == {row \in Cached(r, url) : ~run[r].q.bypass}

(* Fault: bypassing the cache only writes it.                              *)
Hits_Always(r, url) == {row \in Cached(r, url) : row.at + Ttl > clock}

Hits(r, url) == {row \in Cached(r, url) : ~run[r].q.bypass /\ row.at + Ttl > clock}

(* cachedFetch: the next page comes from the cache, or its host is asked.  *)
Look(r) ==
  /\ run[r].st = "look"
  /\ Len(run[r].got) < Len(run[r].need)
  /\ IF Hits(r, NextUrl(r)) = {}
     THEN run' = [run EXCEPT ![r].st = "wait", ![r].sent = clock]
     ELSE \E row \in Hits(r, NextUrl(r)) : run' = [run EXCEPT ![r].got = Append(@, row)]
  /\ UNCHANGED <<clock, source, cache, audits, imports>>

(* rateLimitedGet: the headers are there and the timer is stopped; the     *)
(* body is read next.                                                      *)
Answer(r) ==
  /\ run[r].st = "wait"
  /\ \E ok, sound \in BOOLEAN :
       /\ sound => ok
       /\ run' = [run EXCEPT ![r].st = "body", ![r].answer = [ok |-> ok, sound |-> sound, version |-> source]]
  /\ UNCHANGED <<clock, source, cache, audits, imports>>

(* Fault: a bundle goes on when its standings cannot be had.               *)
Unreachable_GoesOn(r) ==
  /\ run[r].st = "wait"
  /\ Audit(r, "connector.fetch_failed", NextUrl(r))
  /\ IF run[r].files = <<>> THEN Stop(r, "network") ELSE run' = [run EXCEPT ![r].st = "files"]
  /\ UNCHANGED <<clock, source, cache, imports>>

(* The host cannot be reached, or the timer aborts the request.            *)
Unreachable(r) ==
  /\ run[r].st = "wait"
  /\ Audit(r, "connector.fetch_failed", NextUrl(r))
  /\ Stop(r, "network")
  /\ UNCHANGED <<clock, source, cache, imports>>

(* The body is too large, or the status is an error.                       *)
Refused(r) ==
  /\ run[r].st = "body"
  /\ ~run[r].answer.ok
  /\ Audit(r, "connector.fetch_failed", NextUrl(r))
  /\ Stop(r, "network")
  /\ UNCHANGED <<clock, source, cache, imports>>

Response(r) == [org |-> Org[r], url |-> NextUrl(r), at |-> clock, ok |-> run[r].answer.ok,
                sound |-> run[r].answer.sound, version |-> run[r].answer.version]

(* Fault: a body is inserted beside the one that was there.                *)
Store_Beside(r) ==
  /\ run[r].st = "body"
  /\ run[r].answer.ok
  /\ cache' = cache \cup {Response(r)}
  /\ run' = [run EXCEPT ![r].st = "record", ![r].answer = Response(r)]
  /\ UNCHANGED <<clock, source, audits, imports>>

(* Fault: a body is cached before its status is looked at.                 *)
Store_AnyStatus(r) ==
  /\ run[r].st = "body"
  /\ cache' = (cache \ Cached(r, NextUrl(r))) \cup {Response(r)}
  /\ run' = [run EXCEPT ![r].st = "record", ![r].answer = Response(r)]
  /\ UNCHANGED <<clock, source, audits, imports>>

(* The row of the page is inserted or overwritten.                         *)
Store(r) ==
  /\ run[r].st = "body"
  /\ run[r].answer.ok
  /\ cache' = (cache \ Cached(r, NextUrl(r))) \cup {Response(r)}
  /\ run' = [run EXCEPT ![r].st = "record", ![r].answer = Response(r)]
  /\ UNCHANGED <<clock, source, audits, imports>>

(* Fault: only failed fetches are audited.                                 *)
Record_Silent(r) ==
  /\ run[r].st = "record"
  /\ run' = [run EXCEPT ![r].st = "look", ![r].got = Append(@, run[r].answer), ![r].answer = None]
  /\ UNCHANGED <<clock, source, cache, audits, imports>>

Record(r) ==
  /\ run[r].st = "record"
  /\ Audit(r, "connector.fetch", NextUrl(r))
  /\ run' = [run EXCEPT ![r].st = "look", ![r].got = Append(@, run[r].answer), ![r].answer = None]
  /\ UNCHANGED <<clock, source, cache, imports>>

Fetched(r) == run[r].st = "look" /\ Len(run[r].got) = Len(run[r].need)

(* The plan's follow-up: the season's id is looked up in the first page,   *)
(* and a season that is not there yet ends the run.                        *)
FollowUp(r) ==
  /\ Fetched(r)
  /\ HasFollowUp(run[r].q, run[r].got)
  /\ IF run[r].got[1].sound /\ run[r].got[1].version > 0
     THEN run' = [run EXCEPT ![r].need = Append(@, Url("ht_stats", "all"))]
     ELSE Stop(r, "parse")
  /\ UNCHANGED <<clock, source, cache, audits, imports>>

(* createConnectorImport: what is staged, under the dataset's name; trained*)
(* is when the model of a file was trained, if that is known.              *)
StageImport(r, dataset, got, rows, trained, retrievedAt) ==
  imports' = imports \cup {[run |-> r, org |-> Org[r], dataset |-> dataset, got |-> got, rows |-> rows,
                            since |-> run[r].since, bypass |-> run[r].q.bypass, trained |-> trained,
                            retrievedAt |-> retrievedAt]}

(* Fault: the pages that do parse are staged.                              *)
Stage_Partly(r) ==
  /\ Fetched(r)
  /\ ~HasFollowUp(run[r].q, run[r].got)
  /\ StageImport(r, run[r].q.dataset, run[r].got, Rows(run[r].q, run[r].got), None, Earliest(run[r].got))
  /\ run' = [run EXCEPT ![r].st = "files"]
  /\ UNCHANGED <<clock, source, cache, audits>>

(* runConnectorImport once it has every page: they are parsed, and either  *)
(* all is staged or nothing.                                               *)
Stage(r) ==
  /\ Fetched(r)
  /\ ~HasFollowUp(run[r].q, run[r].got)
  /\ IF Parses(run[r].got)
     THEN /\ StageImport(r, run[r].q.dataset, run[r].got, Rows(run[r].q, run[r].got), None, Earliest(run[r].got))
          /\ run' = [run EXCEPT ![r].st = "files"]
     ELSE Stop(r, "parse") /\ UNCHANGED imports
  /\ UNCHANGED <<clock, source, cache, audits>>

(* runModelImport: a model file is read, and may be missing, be of other   *)
(* columns or have no row of the season.  That it was read is audited, and *)
(* then it is staged as retrieved when its model was trained, or now when  *)
(* no model card says when that was; its insert may fail.                  *)
ReadFile(r) ==
  /\ run[r].st = "files"
  /\ run[r].files # <<>>
  /\ \/ Stop(r, "file") /\ UNCHANGED <<imports, audits>>
     \/ /\ Audit(r, "connector.read_model_file", Url(Head(run[r].files), "all"))
        /\ \/ Stop(r, "file") /\ UNCHANGED imports
           \/ \E trained \in TrainedAt \cup {None} :
                /\ StageImport(r, Head(run[r].files), <<>>, <<>>, trained,
                               IF trained = None THEN clock ELSE trained)
                /\ run' = [run EXCEPT ![r].files = Tail(@)]
  /\ UNCHANGED <<clock, source, cache>>

Finish(r) ==
  /\ run[r].st = "files"
  /\ run[r].files = <<>>
  /\ run' = [run EXCEPT ![r] = [st |-> "done", q |-> @.q]]
  /\ UNCHANGED <<clock, source, cache, audits, imports>>

Working(r) == run[r].st \in {"look", "wait", "body", "record", "files"}

(* A statement fails or the server stops: no transaction holds together    *)
(* what a request writes, so what it has written stays.                    *)
Die(r) ==
  /\ Working(r)
  /\ Fail(r, IF run[r].st = "files" THEN "file" ELSE "died",
          IF run[r].st = "record" THEN run[r].answer ELSE None)
  /\ UNCHANGED <<clock, source, cache, audits, imports>>

(* Time passes, but not past the timer of a request without headers.       *)
Tick ==
  /\ clock < MaxTime
  /\ \A r \in Runs : run[r].st = "wait" => clock < run[r].sent + Timeout
  /\ clock' = clock + 1
  /\ UNCHANGED <<source, cache, audits, imports, run>>

Publish ==
  /\ source < MaxVersion
  /\ source' = source + 1
  /\ UNCHANGED <<clock, cache, audits, imports, run>>

Next ==
  \/ Tick
  \/ Publish
  \/ \E r \in Runs : \/ Begin(r) \/ Look(r) \/ Answer(r) \/ Unreachable(r) \/ Refused(r) \/ Store(r) \/ Record(r)
                     \/ FollowUp(r) \/ Stage(r) \/ ReadFile(r) \/ Finish(r) \/ Die(r)

Spec == Init /\ [][Next]_vars

(***************************************************************************)
(* Properties.                                                             *)
(***************************************************************************)
Orgs == {Org[r] : r \in Runs}
Asked == {RequestFromForm(form) : form \in Forms}
PageNames == {"landing", "game_log", "roster", "team_stats", "team_index", "ht_seasons", "ht_stats"}
Urls == [page : PageNames \cup {q.dataset : q \in Asked}, of : Ids \cup {"all"}]
Answers == [ok : BOOLEAN, sound : BOOLEAN, version : Nat]
CacheRows == [org : Orgs, url : Urls, at : Nat, ok : BOOLEAN, sound : BOOLEAN, version : Nat]

AtWork ==
  [st : {"look", "wait", "body", "record", "files"}, q : Asked, since : Nat, got : Seq(CacheRows), need : Seq(Urls),
   files : Seq(Range(ModelFiles)), sent : Nat, answer : CacheRows \cup Answers \cup {None}]
Failed ==
  [st : {"failed"}, q : Asked, why : {"network", "parse", "file", "died"}, lost : CacheRows \cup {None}]
Done == [st : {"done"}, q : Asked]

(* Rows and runs keep their types; a page of an organization has one row,  *)
(* and it is of no later time or version than there has been.              *)
TypeOK ==
  /\ clock \in Nat /\ source \in Nat
  /\ cache \subseteq CacheRows
  /\ \A row \in cache : row.at <= clock /\ row.version <= source
  /\ \A x, y \in cache : x.org = y.org /\ x.url = y.url => x = y
  /\ run \in [Runs -> {[st |-> "idle"]} \cup AtWork \cup Failed \cup Done]

(* Tenancy and provenance (connectorService.ts:11): every page of an       *)
(* import was fetched from the network for its organization, and the audit *)
(* log says so, or the request that fetched it is just about to write it,  *)
(* or failed between the two statements; nobody else writes it then.       *)
Traced(page) ==
  \/ [org |-> page.org, action |-> "connector.fetch", url |-> page.url] \in audits
  \/ \E r \in DOMAIN run : run[r].st = "record" /\ run[r].answer = page
  \/ \E r \in DOMAIN run : run[r].st = "failed" /\ run[r].lost = page

Traceable ==
  \A imp \in imports : \A i \in DOMAIN imp.got : imp.got[i].org = imp.org /\ Traced(imp.got[i])

(* An import of pages is not older than the cache may be, nor than its     *)
(* request when the cache was to be bypassed, and no page of it is older   *)
(* than it says it is.  A model's file is as old as its model, which may   *)
(* be any time.                                                            *)
RetrievedAsSaid ==
  \A imp \in imports :
    /\ imp.trained = None => imp.retrievedAt > imp.since - Ttl
    /\ imp.trained = None /\ imp.bypass => imp.retrievedAt >= imp.since
    /\ \A i \in DOMAIN imp.got : imp.got[i].at >= imp.retrievedAt

(* Rows are put together from pages that were fetched one by one, some     *)
(* from the cache: each is of the pages of its own player or club, and no  *)
(* player has two.                                                         *)
RowsOfTheirPages ==
  \A imp \in imports :
    /\ \A i \in DOMAIN imp.rows : imp.rows[i].from = {imp.rows[i].of}
    /\ \A i, j \in DOMAIN imp.rows : imp.rows[i].of = imp.rows[j].of => i = j

(* What is staged is what was asked for: of the pages of its own players,  *)
(* none of them older than the import says or than the request allows.     *)
(* Rows and runs keep their types.                                         *)
StagedAsSaid == TypeOK /\ RetrievedAsSaid /\ RowsOfTheirPages

(* A failed answer is never kept: neither a later request nor an import    *)
(* can be made of it.                                                      *)
NoErrorKept ==
  /\ \A row \in cache : row.ok
  /\ \A imp \in imports : Parses(imp.got) /\ \A i \in DOMAIN imp.got : imp.got[i].ok

StagedBy(r) == {imp \in imports : imp.run = r}
Wanted(q) == Range(Files(q)) \cup IF Online(q) THEN {q.dataset} ELSE {}

(* "if the NHL API is unreachable, nothing is staged ... instead of a half *)
(* bundle" (connectorService.ts:581): what a run leaves staged is all it   *)
(* was asked for, each dataset once, or it stopped among its files.        *)
NoHalfBundle ==
  \A r \in DOMAIN run :
    /\ run[r].st = "done" => {imp.dataset : imp \in StagedBy(r)} = Wanted(run[r].q)
    /\ run[r].st = "failed" => run[r].why = "file" \/ StagedBy(r) = {}
    /\ \A x, y \in StagedBy(r) : x.dataset = y.dataset => x = y

(* Nothing is made of a failed answer, and no bundle is staged in half.    *)
NothingHalf == NoErrorKept /\ NoHalfBundle
=============================================================================
