----------------------------- MODULE FetchProofs -----------------------------
(***************************************************************************)
(* Proofs about ConnectorFetch, for any number of requests, of any forms,  *)
(* pages and organizations, and for any age of the cache: what is staged   *)
(* is what was asked for and as old as it says, every page of it can be    *)
(* traced, and nothing is staged in half or of a failed answer.            *)
(*                                                                         *)
(* The argument follows a run: the pages it has got are those it needs, in *)
(* their order (RunInv), each fetched for its organization, by itself or   *)
(* by the request that filled the cache, and young enough (PageGood); so   *)
(* what it stages is good (ImportGood) and stays so, since no row of an    *)
(* import changes.                                                         *)
(***************************************************************************)
EXTENDS ConnectorFetch, BasicFacts, TLAPS

(***************************************************************************)
(* The ids of a form, each once.                                           *)
(***************************************************************************)
NextKept(s, n, before) == IF Contains(before, s[n]) THEN before ELSE Append(before, s[n])
IsKept(s, n, kept) == kept = [i \in 0..n |-> IF i = 0 THEN <<>> ELSE NextKept(s, i, kept[i - 1])]

(* The function that Unique is defined by exists.                          *)
LEMMA KeptExists ==
  ASSUME NEW s, NEW n \in Nat
  PROVE  \E kept : IsKept(s, n, kept)
<1> DEFINE T == {k \in Nat : \E kept : IsKept(s, k, kept)}
<1>1. 0 \in T
  <2>1. IsKept(s, 0, [i \in 0..0 |-> <<>>])
    BY DEF IsKept
  <2>2. QED
    BY <2>1
<1>2. ASSUME NEW k \in Nat, k \in T PROVE k + 1 \in T
  <2>1. PICK kept : IsKept(s, k, kept)
    BY <1>2
  <2> DEFINE more == [i \in 0..k + 1 |-> IF i = k + 1 THEN NextKept(s, k + 1, kept[k]) ELSE kept[i]]
  <2>2. \A i \in 0..k : kept[i] = IF i = 0 THEN <<>> ELSE NextKept(s, i, kept[i - 1])
    BY <2>1 DEF IsKept
  <2>3. /\ more[k + 1] = NextKept(s, k + 1, kept[k])
        /\ \A i \in 0..k : more[i] = kept[i]
        /\ more = [i \in 0..k + 1 |-> more[i]]
    OBVIOUS
  <2> HIDE DEF more
  <2>4. \A i \in 0..k + 1 : more[i] = IF i = 0 THEN <<>> ELSE NextKept(s, i, more[i - 1])
    BY <2>2, <2>3
  <2>5. IsKept(s, k + 1, more)
    BY <2>3, <2>4 DEF IsKept
  <2>6. QED
    BY <2>5
<1> HIDE DEF T
<1>3. Nat \subseteq T
  BY <1>1, <1>2, AllNumbers
<1>4. QED
  BY <1>3 DEF T

(* Appended to distinct elements if it is not among them, an element       *)
(* leaves distinct elements.                                               *)
LEMMA NextKeptGood ==
  ASSUME NEW S, NEW s \in Seq(S), NEW n \in 1..Len(s), NEW before \in Seq(S), IsInjective(before)
  PROVE  NextKept(s, n, before) \in Seq(S) /\ IsInjective(NextKept(s, n, before))
<1>1. CASE Contains(before, s[n])
  BY <1>1 DEF NextKept
<1>2. CASE ~Contains(before, s[n])
  <2> DEFINE more == Append(before, s[n])
  <2>1. /\ more \in Seq(S) /\ Len(more) = Len(before) + 1
        /\ \A i \in 1..Len(before) : more[i] = before[i] /\ more[i] # s[n]
        /\ more[Len(before) + 1] = s[n]
    BY <1>2 DEF Contains
  <2>2. \A i, j \in 1..Len(before) : before[i] = before[j] => i = j
    BY DEF IsInjective
  <2> HIDE DEF more
  <2>3. \A i, j \in 1..Len(more) : more[i] = more[j] => i = j
    BY <2>1, <2>2
  <2>4. IsInjective(more)
    BY <2>1, <2>3 DEF IsInjective
  <2>5. NextKept(s, n, before) = more
    BY <1>2 DEF NextKept, more
  <2>6. QED
    BY <2>1, <2>4, <2>5
<1>3. QED
  BY <1>1, <1>2

(* Unique leaves each id once (connectorActions.ts:21).                    *)
LEMMA UniqueOnce ==
  ASSUME NEW S, NEW s \in Seq(S)
  PROVE  Unique(s) \in Seq(S) /\ IsInjective(Unique(s))
<1> DEFINE kept == CHOOSE f : IsKept(s, Len(s), f)
           T == {n \in Nat : n <= Len(s) => kept[n] \in Seq(S) /\ IsInjective(kept[n])}
<1>1. Len(s) \in Nat
  OBVIOUS
<1>2. IsKept(s, Len(s), kept)
  BY <1>1, KeptExists
<1>3. Unique(s) = kept[Len(s)]
  BY DEF Unique, IsKept, NextKept
<1> HIDE DEF kept
<1>4. \A n \in 0..Len(s) : kept[n] = IF n = 0 THEN <<>> ELSE NextKept(s, n, kept[n - 1])
  BY <1>2 DEF IsKept
<1>5. 0 \in T
  <2>1. kept[0] = <<>>
    BY <1>1, <1>4
  <2>2. <<>> \in Seq(S) /\ IsInjective(<<>>)
    BY DEF IsInjective
  <2>3. QED
    BY <2>1, <2>2
<1>6. ASSUME NEW n \in Nat, n \in T PROVE n + 1 \in T
  <2>1. CASE n + 1 <= Len(s)
    <3>1. n + 1 \in 1..Len(s) /\ kept[n + 1] = NextKept(s, n + 1, kept[n])
      BY <1>1, <1>4, <2>1
    <3>2. kept[n] \in Seq(S) /\ IsInjective(kept[n])
      BY <1>1, <1>6, <2>1
    <3>3. QED
      BY <3>1, <3>2, NextKeptGood
  <2>2. QED
    BY <2>1
<1> HIDE DEF T
<1>7. Nat \subseteq T
  BY <1>5, <1>6, AllNumbers
<1>8. QED
  BY <1>1, <1>3, <1>7 DEF T
-----------------------------------------------------------------------------
(***************************************************************************)
(* Requests, their plans and their files.                                  *)
(***************************************************************************)

(* A request is of a form's dataset, and names each id once where its rows *)
(* are told apart by them.                                                 *)
LEMMA AskedTyped ==
  ASSUME NEW q \in Asked
  PROVE  /\ q \in [dataset : STRING, of : Seq(Ids), bypass : BOOLEAN]
         /\ q.dataset \in ByPlayer \cup {"nhl_game_logs"} => IsInjective(q.of)
         /\ q.dataset = "nhl_roster" => Len(q.of) >= 1 /\ IsInjective(q.of)
<1>1. PICK form \in Forms : q = RequestFromForm(form)
  BY DEF Asked
<1>2. /\ form \in [dataset : STRING, of : Seq(Ids), bypass : BOOLEAN]
      /\ form.dataset = "nhl_roster" => Len(form.of) = 1
  BY FormsAssumption
<1>3. Unique(form.of) \in Seq(Ids) /\ IsInjective(Unique(form.of))
  BY <1>2, UniqueOnce
<1>4. Teams \in Seq(Ids) /\ Len(Teams) >= 1 /\ IsInjective(Teams)
  BY TeamsAssumption
<1>5. CASE form.dataset \in ByPlayer \cup {"nhl_game_logs"}
  <2>1. q = [form EXCEPT !.of = Unique(form.of)]
    BY <1>1, <1>5 DEF RequestFromForm, ByPlayer
  <2>2. QED
    BY <1>2, <1>3, <1>5, <2>1 DEF ByPlayer
<1>6. CASE form.dataset = "nhl_roster"
  <2>1. q = IF form.of = <<"ALL">> THEN [form EXCEPT !.of = Teams] ELSE form
    BY <1>1, <1>6 DEF RequestFromForm, ByPlayer
  <2>2. Len(form.of) = 1 => IsInjective(form.of)
    BY <1>2 DEF IsInjective
  <2>3. CASE form.of = <<"ALL">>
    BY <1>2, <1>4, <1>6, <2>1, <2>3 DEF ByPlayer
  <2>4. CASE form.of # <<"ALL">>
    <3>1. q = form
      BY <2>1, <2>4
    <3>2. IsInjective(form.of) /\ Len(form.of) >= 1
      BY <1>2, <1>6, <2>2
    <3>3. QED
      BY <1>2, <1>6, <3>1, <3>2 DEF ByPlayer
  <2>5. QED
    BY <2>3, <2>4
<1>7. CASE form.dataset \notin ByPlayer \cup {"nhl_game_logs", "nhl_roster"}
  <2>1. q.dataset = form.dataset /\ q \in [dataset : STRING, of : Seq(Ids), bypass : BOOLEAN]
    BY <1>1, <1>2, <1>7 DEF RequestFromForm
  <2>2. QED
    BY <1>7, <2>1
<1>8. QED
  BY <1>5, <1>6, <1>7

(* The pages of a plan have an id of their own, or are of all.             *)
LEMMA UrlTyped ==
  ASSUME NEW of \in Ids \cup {"all"}
  PROVE  /\ \A page \in PageNames : Url(page, of) \in Urls
         /\ \A q \in Asked : Url(q.dataset, of) \in Urls
BY DEF Url, Urls

(* Every plan asks for pages, of the ids that the request names.           *)
LEMMA PlanTyped ==
  ASSUME NEW q \in Asked, ValidRequest(q)
  PROVE  PlanUrls(q) \in Seq(Urls) /\ Len(PlanUrls(q)) >= 1
<1>1. q.dataset \in STRING /\ q.of \in Seq(Ids)
  BY AskedTyped
<1>2. CASE q.dataset \in ByPlayer
  <2>1. PlanUrls(q) = [i \in 1..Len(q.of) |-> Url("landing", q.of[i])]
    <3>1. DOMAIN q.of = 1..Len(q.of)
      BY <1>1
    <3>2. QED
      BY <1>2, <3>1 DEF PlanUrls, ByPlayer
  <2>2. Len(q.of) >= 1
    BY <1>2, BoundsAssumption DEF ValidRequest
  <2>3. \A i \in 1..Len(q.of) : Url("landing", q.of[i]) \in Urls
    BY <1>1, UrlTyped DEF PageNames
  <2>4. QED
    BY <1>1, <2>1, <2>2, <2>3
<1>3. CASE q.dataset = "nhl_game_logs"
  <2> DEFINE n == 2 * Len(q.of)
             url(i) == Url(IF i % 2 = 1 THEN "game_log" ELSE "landing", q.of[(i + 1) \div 2])
  <2>1. PlanUrls(q) = [i \in 1..n |-> url(i)]
    BY <1>3 DEF PlanUrls, ByPlayer
  <2>2. Len(q.of) \in Nat /\ Len(q.of) >= 1 /\ n \in Nat /\ n >= 1
    BY <1>1, <1>3, BoundsAssumption DEF ValidRequest
  <2>3. ASSUME NEW i \in 1..n PROVE url(i) \in Urls
    <3>1. (i + 1) \div 2 \in 1..Len(q.of)
      BY <2>2
    <3>2. q.of[(i + 1) \div 2] \in Ids
      BY <1>1, <3>1
    <3>3. QED
      BY <3>2, UrlTyped DEF PageNames
  <2> HIDE DEF n, url
  <2>4. QED
    BY <2>1, <2>2, <2>3
<1>4. CASE q.dataset = "nhl_roster"
  <2>1. PlanUrls(q) = [i \in 1..Len(q.of) |-> Url("roster", q.of[i])]
    BY <1>1, <1>4 DEF PlanUrls, ByPlayer
  <2>2. Len(q.of) >= 1
    BY <1>4, AskedTyped
  <2>3. \A i \in 1..Len(q.of) : Url("roster", q.of[i]) \in Urls
    BY <1>1, UrlTyped DEF PageNames
  <2>4. QED
    BY <1>1, <2>1, <2>2, <2>3
<1>5. CASE q.dataset \notin ByPlayer \cup {"nhl_game_logs", "nhl_roster"}
  <2>1. \/ PlanUrls(q) = <<Url("team_stats", "all"), Url("team_index", "all")>>
        \/ PlanUrls(q) = <<Url("ht_seasons", "all")>>
        \/ PlanUrls(q) = <<Url(q.dataset, "all")>>
    BY <1>5 DEF PlanUrls
  <2>2. /\ Url("team_stats", "all") \in Urls /\ Url("team_index", "all") \in Urls
        /\ Url("ht_seasons", "all") \in Urls /\ Url(q.dataset, "all") \in Urls
    BY UrlTyped DEF PageNames
  <2>3. /\ \A x \in Urls : <<x>> \in Seq(Urls) /\ Len(<<x>>) >= 1
        /\ \A x, y \in Urls : <<x, y>> \in Seq(Urls) /\ Len(<<x, y>>) >= 1
    OBVIOUS
  <2>4. QED
    BY <2>1, <2>2, <2>3, Zenon
<1>6. QED
  BY <1>2, <1>3, <1>4, <1>5

(* The files of a request are model files, each once, and none is called   *)
(* as the dataset that is fetched with them.                               *)
LEMMA FilesGood ==
  ASSUME NEW q \in Asked
  PROVE  /\ Files(q) \in Seq(Range(ModelFiles)) /\ IsInjective(Files(q))
         /\ Online(q) => \A i \in 1..Len(Files(q)) : Files(q)[i] # q.dataset
<1> DEFINE skaters == "rosteriq_xg_skaters"  goalies == "rosteriq_xg_goalies"  teams == "rosteriq_xg_teams"
<1>1. ModelFiles = <<skaters, goalies, teams>> /\ Range(ModelFiles) = {skaters, goalies, teams}
  BY DEF ModelFiles, Range
<1>2. Contains(ModelFiles, q.dataset) => q.dataset \in Range(ModelFiles)
  BY <1>1 DEF Contains
<1>3. \/ Files(q) = ModelFiles /\ q.dataset \in {"xg_bundle", "xg_files"}
      \/ Files(q) = <<q.dataset>> /\ q.dataset \in Range(ModelFiles)
      \/ Files(q) = <<>>
  BY <1>2 DEF Files
<1>4. CASE Files(q) = ModelFiles /\ q.dataset \in {"xg_bundle", "xg_files"}
  BY <1>1, <1>4 DEF IsInjective
<1>5. CASE Files(q) = <<q.dataset>> /\ q.dataset \in Range(ModelFiles)
  BY <1>1, <1>5 DEF IsInjective, Online
<1>6. CASE Files(q) = <<>>
  BY <1>6 DEF IsInjective
<1>7. QED
  BY <1>3, <1>4, <1>5, <1>6

(* An import of pages is as old as the oldest of them.                     *)
LEMMA EarliestGood ==
  ASSUME NEW got \in Seq(CacheRows), Len(got) >= 1
  PROVE  /\ \E i \in 1..Len(got) : Earliest(got) = got[i].at
         /\ \A i \in 1..Len(got) : Earliest(got) <= got[i].at
<1> DEFINE T == {got[i].at : i \in DOMAIN got}
<1>1. T \subseteq Nat /\ T # {}
  <2>1. DOMAIN got = 1..Len(got) /\ 1 \in DOMAIN got
    OBVIOUS
  <2>2. \A i \in DOMAIN got : got[i] \in CacheRows
    BY <2>1
  <2>3. \A row \in CacheRows : row.at \in Nat
    BY DEF CacheRows
  <2>4. QED
    BY <2>1, <2>2, <2>3
<1>2. PICK n \in T : \A m \in T : n <= m
  BY <1>1, LeastNumber
<1>3. Min(T) \in T /\ \A m \in T : Min(T) <= m
  BY <1>2 DEF Min
<1>4. DOMAIN got = 1..Len(got) /\ Earliest(got) = Min(T)
  BY DEF Earliest
<1> HIDE DEF T
<1>5. \A x : x \in T <=> \E i \in 1..Len(got) : x = got[i].at
  BY <1>4 DEF T
<1>6. QED
  BY <1>3, <1>4, <1>5
-----------------------------------------------------------------------------
(***************************************************************************)
(* The inductive invariant.                                                *)
(***************************************************************************)

(* A page that a run may use: fetched for its organization, without error, *)
(* and young enough for its request.                                       *)
PageGood(r, page) ==
  /\ page \in CacheRows
  /\ page.org = Org[r] /\ page.ok
  /\ page.at > run[r].since - Ttl
  /\ run[r].q.bypass => page.at >= run[r].since

(* Of what is cached nothing is an error, and all of it is traced.         *)
CacheInv == \A row \in cache : row.ok /\ Traced(row)

Staged(r) == {imp.dataset : imp \in StagedBy(r)}

(* What a run fetches: the pages of its plan, in order.                    *)
NeedInv(r) ==
  /\ \/ run[r].need = PlanUrls(run[r].q)
     \/ /\ run[r].q.dataset = "hockeytech_skater_stats"
        /\ run[r].need = <<Url("ht_seasons", "all"), Url("ht_stats", "all")>>
  /\ Len(run[r].got) <= Len(run[r].need)
  /\ \A i \in 1..Len(run[r].got) :
       run[r].got[i].url = run[r].need[i] /\ PageGood(r, run[r].got[i]) /\ Traced(run[r].got[i])

(* What a run is waiting for is the next of them.                          *)
WaitInv(r) ==
  /\ run[r].st \in {"wait", "body", "record"} => Len(run[r].got) < Len(run[r].need)
  /\ run[r].st = "body" => run[r].answer \in Answers /\ run[r].answer.version <= source
  /\ run[r].st = "record" => PageGood(r, run[r].answer) /\ run[r].answer.url = NextUrl(r)

(* Before its files, a run has staged nothing; among them, what it fetched *)
(* and the files it has read.                                              *)
StageInv(r) ==
  LET all == Files(run[r].q)
      read == Len(all) - Len(run[r].files)
  IN  /\ run[r].st # "files" => Online(run[r].q) /\ run[r].files = all /\ Staged(r) = {}
      /\ run[r].st = "files" =>
           /\ Len(run[r].files) <= Len(all)
           /\ \A i \in 1..Len(run[r].files) : run[r].files[i] = all[read + i]
           /\ Staged(r) = {all[i] : i \in 1..read} \cup IF Online(run[r].q) THEN {run[r].q.dataset} ELSE {}

RunInv(r) ==
  /\ run[r].st = "idle" => Staged(r) = {}
  /\ Working(r) => run[r].since <= clock /\ ValidRequest(run[r].q) /\ StageInv(r)
  /\ Working(r) /\ run[r].st # "files" => NeedInv(r) /\ WaitInv(r)
  /\ run[r].st = "done" => Staged(r) = Wanted(run[r].q)
  /\ run[r].st = "failed" => run[r].why = "file" \/ Staged(r) = {}

(* An import of good pages, as old as it says, with each row of the pages  *)
(* of its own player or club.                                              *)
ImportGood(imp) ==
  /\ imp.trained = None => imp.retrievedAt > imp.since - Ttl
  /\ imp.trained = None /\ imp.bypass => imp.retrievedAt >= imp.since
  /\ \A i \in DOMAIN imp.got :
       /\ imp.got[i].at >= imp.retrievedAt
       /\ imp.got[i].org = imp.org /\ imp.got[i].ok /\ imp.got[i].sound
       /\ Traced(imp.got[i])
  /\ \A i \in DOMAIN imp.rows : imp.rows[i].from = {imp.rows[i].of}
  /\ \A i, j \in DOMAIN imp.rows : imp.rows[i].of = imp.rows[j].of => i = j

(* What is staged is good, is of a run, and is each dataset once.          *)
ImportsInv ==
  /\ \A imp \in imports : imp.run \in Runs /\ ImportGood(imp)
  /\ \A x, y \in imports : x.run = y.run /\ x.dataset = y.dataset => x = y

IInv == TypeOK /\ CacheInv /\ (\A r \in Runs : RunInv(r)) /\ ImportsInv

(* The invariant implies the properties.                                   *)
LEMMA IInvProperties == IInv => StagedAsSaid /\ Traceable /\ NothingHalf
<1> SUFFICES ASSUME IInv PROVE StagedAsSaid /\ Traceable /\ NothingHalf
  OBVIOUS
<1> USE DEF IInv
<1>1. RetrievedAsSaid /\ RowsOfTheirPages /\ Traceable
  BY DEF ImportsInv, ImportGood, RetrievedAsSaid, RowsOfTheirPages, Traceable
<1>2. NoErrorKept
  BY DEF ImportsInv, ImportGood, CacheInv, NoErrorKept, Parses
<1>3. NoHalfBundle
  <2>1. DOMAIN run = Runs
    BY DEF TypeOK
  <2>2. ASSUME NEW r \in Runs
        PROVE  /\ run[r].st = "done" => Staged(r) = Wanted(run[r].q)
               /\ run[r].st = "failed" => run[r].why = "file" \/ StagedBy(r) = {}
               /\ \A x, y \in StagedBy(r) : x.dataset = y.dataset => x = y
    BY DEF RunInv, ImportsInv, Staged, StagedBy
  <2>3. QED
    BY <2>1, <2>2 DEF NoHalfBundle, Staged
<1>4. QED
  BY <1>1, <1>2, <1>3 DEF StagedAsSaid, NothingHalf

-----------------------------------------------------------------------------
(***************************************************************************)
(* What a step leaves alone.                                               *)
(***************************************************************************)
Standing == {[st |-> "idle"]} \cup AtWork \cup Failed \cup Done

(* A run that is neither idle nor over has the fields of one at work.      *)
LEMMA AtWorkTyped ==
  ASSUME TypeOK, NEW r \in Runs, Working(r)
  PROVE  run[r] \in AtWork
<1>1. run[r] \in Standing
  BY DEF TypeOK, Standing
<1>2. QED
  BY <1>1 DEF Standing, AtWork, Failed, Done, Working

(* What is traced stays so: the audit log only grows, a run leaves the page*)
(* that it is about to audit by doing so or by failing, and one that has   *)
(* failed does no more.                                                    *)
LEMMA TracedKept ==
  ASSUME TypeOK, NEW r \in Runs, NEW new, run' = [run EXCEPT ![r] = new], audits \subseteq audits',
         run[r].st = "record" => \A page : page = run[r].answer => Traced(page)',
         run[r].st # "failed", NEW page, Traced(page)
  PROVE  Traced(page)'
<1>1. DOMAIN run = Runs /\ DOMAIN run' = Runs /\ \A s \in Runs \ {r} : run'[s] = run[s]
  BY DEF TypeOK
<1>2. CASE [org |-> page.org, action |-> "connector.fetch", url |-> page.url] \in audits
  BY <1>2 DEF Traced
<1>3. CASE \E s \in DOMAIN run : run[s].st = "record" /\ run[s].answer = page
  <2>1. PICK s \in Runs : run[s].st = "record" /\ run[s].answer = page
    BY <1>1, <1>3
  <2>2. CASE s = r
    BY <2>1, <2>2
  <2>3. CASE s # r
    BY <1>1, <2>1, <2>3 DEF Traced
  <2>4. QED
    BY <2>2, <2>3
<1>4. CASE \E s \in DOMAIN run : run[s].st = "failed" /\ run[s].lost = page
  <2>1. PICK s \in Runs : run[s].st = "failed" /\ run[s].lost = page
    BY <1>1, <1>4
  <2>2. run'[s] = run[s]
    BY <1>1, <2>1
  <2>3. QED
    BY <1>1, <2>1, <2>2 DEF Traced
<1>5. QED
  BY <1>2, <1>3, <1>4 DEF Traced

(* A run is as before when nothing of it changes, and time passes.         *)
LEMMA Undisturbed ==
  ASSUME TypeOK, NEW r \in Runs, RunInv(r), run'[r] = run[r], Staged(r)' = Staged(r),
         clock' \in Nat, clock' >= clock, source' \in Nat, source' >= source,
         \A page : Traced(page) => Traced(page)'
  PROVE  RunInv(r)'
<1>1. Working(r)' = Working(r)
  BY DEF Working
<1>2. Working(r) => run[r] \in AtWork
  BY AtWorkTyped
<1>3. Working(r) => (run[r].since <= clock)'
  BY <1>2 DEF RunInv, TypeOK, AtWork
<1>4. StageInv(r)' = StageInv(r)
  BY DEF StageInv
<1>5. \A page : PageGood(r, page)' = PageGood(r, page)
  BY DEF PageGood
<1>6. NeedInv(r) => NeedInv(r)'
  BY <1>5 DEF NeedInv
<1>7. NextUrl(r)' = NextUrl(r)
  BY DEF NextUrl
<1>8. WaitInv(r) => WaitInv(r)'
  <2>1. \A a \in Answers : a.version <= source => a.version <= source'
    BY DEF TypeOK, Answers
  <2>2. QED
    BY <1>5, <1>7, <2>1 DEF WaitInv
<1>9. QED
  BY <1>1, <1>3, <1>4, <1>6, <1>8 DEF RunInv

(* What an import is made of stays good.                                   *)
LEMMA ImportKept ==
  ASSUME NEW imp, ImportGood(imp), \A page : Traced(page) => Traced(page)'
  PROVE  ImportGood(imp)'
BY DEF ImportGood

(* A step of one run: time does not pass, what is audited stays, and what  *)
(* is new in the cache is good.                                            *)
StepOf(r, new) ==
  /\ run' = [run EXCEPT ![r] = new]
  /\ clock' = clock /\ source' = source
  /\ audits \subseteq audits'
  /\ run[r].st # "failed"
  /\ run[r].st = "record" => \A page : page = run[r].answer => Traced(page)'
  /\ cache' \subseteq CacheRows
  /\ \A row \in cache' : row \in cache \/ (row.at <= clock /\ row.version <= source /\ row.ok /\ Traced(row)')
  /\ \A x, y \in cache' : x.org = y.org /\ x.url = y.url => x = y

(* A step of one run, which may stage an import of a dataset that it has   *)
(* not staged yet, keeps the invariant if the run keeps its own part.      *)
LEMMA RunStep ==
  ASSUME IInv, NEW r \in Runs, NEW new \in Standing, StepOf(r, new), RunInv(r)',
         \/ UNCHANGED imports
         \/ \E imp : /\ imports' = imports \cup {imp}
                    /\ imp.run = r /\ imp.dataset \notin Staged(r) /\ ImportGood(imp)'
  PROVE  IInv'
<1> USE DEF IInv, StepOf
<1>1. TypeOK'
  <2>1. run' \in [Runs -> Standing]
    BY DEF TypeOK, Standing
  <2>2. \A row \in cache' : row.at <= clock' /\ row.version <= source'
    BY DEF TypeOK
  <2>3. QED
    BY <2>1, <2>2 DEF TypeOK, Standing
<1>2. \A page : Traced(page) => Traced(page)'
  BY TracedKept
<1>3. CacheInv'
  BY <1>2 DEF CacheInv
<1>4. ASSUME NEW s \in Runs PROVE RunInv(s)'
  <2>1. CASE s = r
    BY <2>1
  <2>2. CASE s # r
    <3>1. run'[s] = run[s]
      BY <2>2 DEF TypeOK
    <3>2. StagedBy(s)' = StagedBy(s)
      BY <2>2 DEF StagedBy
    <3>3. Staged(s)' = Staged(s)
      BY <3>2 DEF Staged
    <3>4. clock' \in Nat /\ clock' >= clock /\ source' \in Nat /\ source' >= source
      BY DEF TypeOK
    <3>5. QED
      BY <1>2, <3>1, <3>3, <3>4, Undisturbed
  <2>3. QED
    BY <2>1, <2>2
<1>5. ImportsInv'
  <2>1. \A imp \in imports : ImportGood(imp)'
    BY <1>2, ImportKept DEF ImportsInv
  <2>2. CASE UNCHANGED imports
    BY <2>1, <2>2 DEF ImportsInv
  <2>3. CASE \E imp : /\ imports' = imports \cup {imp}
                     /\ imp.run = r /\ imp.dataset \notin Staged(r) /\ ImportGood(imp)'
    <3>1. PICK imp : /\ imports' = imports \cup {imp}
                     /\ imp.run = r /\ imp.dataset \notin Staged(r) /\ ImportGood(imp)'
      BY <2>3
    <3>2. \A x \in imports : x.run = r => x.dataset # imp.dataset
      BY <3>1 DEF Staged, StagedBy
    <3>3. \A x \in imports' : x.run \in Runs /\ ImportGood(x)'
      BY <2>1, <3>1 DEF ImportsInv
    <3>4. \A x, y \in imports' : x.run = y.run /\ x.dataset = y.dataset => x = y
      BY <3>1, <3>2 DEF ImportsInv
    <3>5. QED
      BY <3>3, <3>4 DEF ImportsInv
  <2>4. QED
    BY <2>2, <2>3
<1>6. QED
  BY <1>1, <1>3, <1>4, <1>5

(* A step that leaves the cache and time alone is one of its run.          *)
LEMMA QuietStep ==
  ASSUME IInv, NEW r \in Runs, NEW new, run' = [run EXCEPT ![r] = new],
         UNCHANGED <<clock, source, cache>>, audits \subseteq audits',
         run[r].st \notin {"record", "failed"}
  PROVE  StepOf(r, new)
BY DEF StepOf, IInv, TypeOK

(* A step between two states of fetching keeps the invariant if it keeps   *)
(* the run's pages in order.                                               *)
LEMMA FetchStep ==
  ASSUME IInv, NEW r \in Runs, NEW new \in AtWork, StepOf(r, new), UNCHANGED imports,
         Working(r), run[r].st # "files", new.st # "files",
         new.q = run[r].q, new.since = run[r].since, new.files = run[r].files,
         NeedInv(r)', WaitInv(r)'
  PROVE  IInv'
<1>1. run'[r] = new /\ new \in Standing
  BY DEF IInv, TypeOK, StepOf, Standing
<1>2. RunInv(r)
  BY DEF IInv
<1>3. Staged(r)' = Staged(r)
  BY DEF Staged, StagedBy
<1>4. StageInv(r)'
  BY <1>1, <1>2, <1>3 DEF RunInv, StageInv
<1>5. new.st \notin {"idle", "done", "failed", "files"}
  BY DEF AtWork
<1>6. RunInv(r)'
  BY <1>1, <1>2, <1>4, <1>5 DEF RunInv, StepOf
<1>7. QED
  BY <1>1, <1>6, RunStep

(* The pages got and needed are in order when neither changes.             *)
LEMMA SameNeed ==
  ASSUME IInv, NEW r \in Runs, NEW new, StepOf(r, new), NeedInv(r),
         new.q = run[r].q, new.since = run[r].since, new.got = run[r].got, new.need = run[r].need
  PROVE  NeedInv(r)' /\ NextUrl(r)' = NextUrl(r) /\ \A page : PageGood(r, page)' = PageGood(r, page)
<1>1. run'[r] = new
  BY DEF IInv, TypeOK, StepOf
<1>2. \A page : Traced(page) => Traced(page)'
  BY TracedKept DEF IInv, StepOf
<1>3. \A page : PageGood(r, page)' = PageGood(r, page)
  BY <1>1 DEF PageGood
<1>4. QED
  BY <1>1, <1>2, <1>3 DEF NeedInv, NextUrl

(* The pages are in order when the next of them is added.                  *)
LEMMA NextGot ==
  ASSUME IInv, NEW r \in Runs, NEW new \in AtWork, NEW page, StepOf(r, new), NeedInv(r), Working(r),
         Len(run[r].got) < Len(run[r].need),
         new.q = run[r].q, new.since = run[r].since, new.got = Append(run[r].got, page), new.need = run[r].need,
         page.url = NextUrl(r), PageGood(r, page), Traced(page)'
  PROVE  NeedInv(r)'
<1>1. run'[r] = new
  BY DEF IInv, TypeOK, StepOf
<1>2. \A x : Traced(x) => Traced(x)'
  BY TracedKept DEF IInv, StepOf
<1>3. \A x : PageGood(r, x)' = PageGood(r, x)
  BY <1>1 DEF PageGood
<1>4. run[r].got \in Seq(CacheRows) /\ run[r].need \in Seq(Urls) /\ page \in CacheRows
  BY AtWorkTyped DEF IInv, AtWork, PageGood
<1>5. /\ Len(new.got) = Len(run[r].got) + 1
      /\ \A i \in 1..Len(run[r].got) : new.got[i] = run[r].got[i]
      /\ new.got[Len(run[r].got) + 1] = page
  BY <1>4
<1>6. Len(new.got) <= Len(new.need)
  BY <1>4, <1>5
<1>7. ASSUME NEW i \in 1..Len(new.got)
      PROVE  new.got[i].url = new.need[i] /\ PageGood(r, new.got[i]) /\ \A x : x = new.got[i] => Traced(x)'
  <2>1. CASE i = Len(run[r].got) + 1
    BY <1>5, <2>1 DEF NextUrl
  <2>2. CASE i # Len(run[r].got) + 1
    <3>1. i \in 1..Len(run[r].got)
      BY <1>4, <1>5, <2>2
    <3>2. QED
      BY <1>2, <1>5, <3>1 DEF NeedInv
  <2>3. QED
    BY <2>1, <2>2
<1>8. \A i \in 1..Len(run'[r].got) : PageGood(r, run[r].got[i])' /\ Traced(run[r].got[i])'
  BY <1>1, <1>3, <1>7
<1>9. QED
  BY <1>1, <1>6, <1>7, <1>8 DEF NeedInv

-----------------------------------------------------------------------------
(***************************************************************************)
(* The steps of a run that fetches.                                        *)
(***************************************************************************)

(* A run begins: nothing of it is staged, and its plan is of its request.  *)
LEMMA BeginKept == ASSUME IInv, NEW r \in Runs, Begin(r) PROVE IInv'
<1>1. PICK form \in Forms :
        /\ ValidRequest(RequestFromForm(form))
        /\ run' = [run EXCEPT ![r] =
             [st |-> IF Online(RequestFromForm(form)) THEN "look" ELSE "files",
              q |-> RequestFromForm(form), since |-> clock, got |-> <<>>,
              need |-> IF Online(RequestFromForm(form)) THEN PlanUrls(RequestFromForm(form)) ELSE <<>>,
              files |-> Files(RequestFromForm(form)), sent |-> clock, answer |-> None]]
  BY DEF Begin
<1> DEFINE q == RequestFromForm(form)
           new == [st |-> IF Online(q) THEN "look" ELSE "files", q |-> q, since |-> clock, got |-> <<>>,
                   need |-> IF Online(q) THEN PlanUrls(q) ELSE <<>>, files |-> Files(q), sent |-> clock, answer |-> None]
<1>2. run' = [run EXCEPT ![r] = new]
  BY <1>1
<1>3. q \in Asked /\ ValidRequest(q)
  BY <1>1 DEF Asked
<1>4. Files(q) \in Seq(Range(ModelFiles)) /\ Len(Files(q)) \in Nat
  BY <1>3, FilesGood
<1>5. PlanUrls(q) \in Seq(Urls) /\ Len(PlanUrls(q)) >= 1
  BY <1>3, PlanTyped
<1>6. clock \in Nat
  BY DEF IInv, TypeOK
<1> HIDE DEF q
<1>7. new \in AtWork
  BY <1>3, <1>4, <1>5, <1>6 DEF AtWork
<1> DEFINE st == IF Online(q) THEN "look" ELSE "files"
<1>8. /\ new.st = st /\ new.q = q /\ new.since = clock /\ new.got = <<>>
      /\ new.files = Files(q)
      /\ Online(q) => new.need = PlanUrls(q)
  OBVIOUS
<1> HIDE DEF new
<1>9. run'[r] = new /\ run[r].st = "idle"
  BY <1>2 DEF IInv, TypeOK, Begin
<1>10. Staged(r)' = {} /\ clock' = clock /\ imports' = imports
  BY <1>9 DEF Begin, IInv, RunInv, Staged, StagedBy
<1>11. StageInv(r)'
  <2>1. CASE Online(q)
    BY <1>8, <1>9, <1>10, <2>1 DEF StageInv
  <2>2. CASE ~Online(q)
    <3>1. {Files(q)[i] : i \in 1..Len(Files(q)) - Len(Files(q))} = {}
      BY <1>4
    <3>2. run'[r].q = q /\ run'[r].files = Files(q) /\ run'[r].st = "files"
      BY <1>8, <1>9, <2>2
    <3>3. Len(Files(q)) <= Len(Files(q)) /\ \A i \in 1..Len(Files(q)) : Files(q)[i] = Files(q)[Len(Files(q)) - Len(Files(q)) + i]
      BY <1>4
    <3>4. Staged(r)' = {Files(q)[i] : i \in 1..Len(Files(q)) - Len(Files(q))} \cup IF Online(q) THEN {q.dataset} ELSE {}
      BY <1>10, <2>2, <3>1
    <3> HIDE DEF st
    <3>5. QED
      BY <3>2, <3>3, <3>4, Zenon DEF StageInv
  <2>3. QED
    BY <2>1, <2>2
<1>12. st # "files" => NeedInv(r)' /\ WaitInv(r)'
  <2>1. st # "files" => Online(q) /\ st = "look"
    OBVIOUS
  <2>2. Len(<<>>) = 0 /\ 1..0 = {}
    OBVIOUS
  <2> HIDE DEF st
  <2>3. QED
    BY <1>5, <1>8, <1>9, <2>1, <2>2 DEF NeedInv, WaitInv
<1>13. RunInv(r)'
  BY <1>3, <1>6, <1>8, <1>9, <1>10, <1>11, <1>12 DEF RunInv
<1>14. StepOf(r, new)
  BY <1>2, <1>9, QuietStep DEF Begin
<1>15. QED
  BY <1>7, <1>10, <1>13, <1>14, RunStep DEF Standing

(* The next page comes from the cache, or its host is asked.               *)
LEMMA LookKept == ASSUME IInv, NEW r \in Runs, Look(r) PROVE IInv'
<1>1. Working(r) /\ run[r].st = "look" /\ Len(run[r].got) < Len(run[r].need)
  BY DEF Look, Working
<1>2. run[r] \in AtWork /\ NeedInv(r) /\ DOMAIN run = Runs /\ clock \in Nat
  BY <1>1, AtWorkTyped DEF IInv, RunInv, TypeOK
<1>3. CASE Hits(r, NextUrl(r)) = {}
  <2> DEFINE new == [run[r] EXCEPT !.st = "wait", !.sent = clock]
  <2>1. run' = [run EXCEPT ![r] = new] /\ new \in AtWork
    BY <1>2, <1>3 DEF Look, AtWork
  <2>2. /\ new.st = "wait" /\ new.q = run[r].q /\ new.since = run[r].since /\ new.got = run[r].got
        /\ new.need = run[r].need /\ new.files = run[r].files
    BY <1>2 DEF AtWork
  <2> HIDE DEF new
  <2>3. StepOf(r, new)
    BY <1>1, <2>1, QuietStep DEF Look
  <2>4. NeedInv(r)'
    BY <1>2, <2>2, <2>3, SameNeed
  <2>5. WaitInv(r)'
    BY <1>1, <1>2, <2>1, <2>2 DEF WaitInv
  <2>6. QED
    BY <1>1, <2>1, <2>2, <2>3, <2>4, <2>5, FetchStep DEF Look
<1>4. CASE Hits(r, NextUrl(r)) # {}
  <2>1. PICK row \in Hits(r, NextUrl(r)) : run' = [run EXCEPT ![r].got = Append(@, row)]
    BY <1>4 DEF Look
  <2> DEFINE new == [run[r] EXCEPT !.got = Append(@, row)]
  <2>2. row \in cache /\ row.org = Org[r] /\ row.url = NextUrl(r) /\ ~run[r].q.bypass /\ row.at + Ttl > clock
    BY DEF Hits, Cached
  <2>3. row \in CacheRows /\ row.ok /\ Traced(row)
    BY <2>2 DEF IInv, TypeOK, CacheInv
  <2>4. PageGood(r, row)
    <3>1. run[r].since <= clock /\ run[r].since \in Nat /\ row.at \in Nat
      BY <1>1, <1>2, <2>3 DEF IInv, RunInv, AtWork, CacheRows
    <3>2. row.at > run[r].since - Ttl
      BY <1>2, <2>2, <3>1, TtlAssumption
    <3>3. QED
      BY <2>2, <2>3, <3>2 DEF PageGood
  <2>5. run' = [run EXCEPT ![r] = new] /\ new \in AtWork
    <3>1. Append(run[r].got, row) \in Seq(CacheRows)
      BY <1>2, <2>3 DEF AtWork
    <3>2. QED
      BY <1>2, <2>1, <3>1 DEF AtWork
  <2>6. /\ new.st = "look" /\ new.q = run[r].q /\ new.since = run[r].since
        /\ new.got = Append(run[r].got, row) /\ new.need = run[r].need /\ new.files = run[r].files
    BY <1>1, <1>2 DEF AtWork
  <2> HIDE DEF new
  <2>7. StepOf(r, new)
    BY <1>1, <2>5, QuietStep DEF Look
  <2>8. Traced(row)'
    BY <1>1, <2>3, <2>5, <2>7, TracedKept DEF IInv, StepOf
  <2>9. NeedInv(r)'
    BY <1>1, <1>2, <2>2, <2>4, <2>5, <2>6, <2>7, <2>8, NextGot
  <2>10. WaitInv(r)'
    BY <1>2, <2>5, <2>6 DEF WaitInv
  <2>11. QED
    BY <1>1, <2>5, <2>6, <2>7, <2>9, <2>10, FetchStep DEF Look
<1>5. QED
  BY <1>3, <1>4

(* The headers of an answer are there.                                     *)
LEMMA AnswerKept == ASSUME IInv, NEW r \in Runs, Answer(r) PROVE IInv'
<1>1. Working(r) /\ run[r].st = "wait"
  BY DEF Answer, Working
<1>2. run[r] \in AtWork /\ NeedInv(r) /\ WaitInv(r) /\ source \in Nat
  BY <1>1, AtWorkTyped DEF IInv, RunInv, TypeOK
<1>3. PICK ok \in BOOLEAN, sound \in BOOLEAN :
        run' = [run EXCEPT ![r].st = "body", ![r].answer = [ok |-> ok, sound |-> sound, version |-> source]]
  BY DEF Answer
<1> DEFINE answer == [ok |-> ok, sound |-> sound, version |-> source]
           new == [run[r] EXCEPT !.st = "body", !.answer = answer]
<1>4. answer \in Answers /\ answer.version = source
  BY <1>2 DEF Answers
<1>5. run' = [run EXCEPT ![r] = new]
  BY <1>3 DEF IInv, TypeOK
<1> HIDE DEF answer
<1>6. new \in AtWork
  BY <1>2, <1>4 DEF AtWork
<1>7. /\ new.st = "body" /\ new.q = run[r].q /\ new.since = run[r].since /\ new.got = run[r].got
      /\ new.need = run[r].need /\ new.files = run[r].files /\ new.answer = answer
  BY <1>2 DEF AtWork
<1> HIDE DEF new
<1>8. StepOf(r, new) /\ run'[r] = new
  BY <1>1, <1>5, QuietStep DEF Answer, IInv, TypeOK
<1>9. NeedInv(r)'
  BY <1>2, <1>7, <1>8, SameNeed
<1>10. WaitInv(r)'
  <2>1. Len(run[r].got) < Len(run[r].need) /\ source' = source /\ source <= source
    BY <1>1, <1>2 DEF WaitInv, Answer
  <2>2. answer \in Answers /\ answer.version <= source'
    BY <1>2, <1>4, <2>1
  <2>3. QED
    BY <1>7, <1>8, <2>1, <2>2 DEF WaitInv
<1>11. QED
  BY <1>1, <1>6, <1>7, <1>8, <1>9, <1>10, FetchStep DEF Answer

(* A run that stops before its files has staged nothing, and a page that it*)
(* was about to audit is told of as lost.                                  *)
LEMMA FailKept ==
  ASSUME IInv, NEW r \in Runs, NEW why \in {"network", "parse", "file", "died"}, NEW lost \in CacheRows \cup {None},
         Fail(r, why, lost), Working(r), run[r].st = "record" => lost = run[r].answer,
         why = "file" \/ run[r].st # "files",
         UNCHANGED <<clock, source, cache, imports>>, audits \subseteq audits'
  PROVE  IInv'
<1> DEFINE new == [st |-> "failed", q |-> run[r].q, why |-> why, lost |-> lost]
<1>1. run' = [run EXCEPT ![r] = new] /\ run'[r] = new /\ DOMAIN run' = Runs
  BY DEF IInv, TypeOK, Fail
<1>2. run[r] \in AtWork /\ RunInv(r)
  BY AtWorkTyped DEF IInv
<1>3. new \in Standing
  BY <1>2 DEF Standing, Failed, AtWork
<1>4. Staged(r)' = Staged(r)
  BY DEF Staged, StagedBy
<1>5. run[r].st # "files" => Staged(r) = {}
  BY <1>2 DEF RunInv, StageInv
<1>6. RunInv(r)'
  BY <1>1, <1>4, <1>5 DEF RunInv, Working
<1>7. run[r].st = "record" => \A page : page = run[r].answer => Traced(page)'
  BY <1>1 DEF Traced
<1>8. StepOf(r, new)
  BY <1>1, <1>7 DEF StepOf, IInv, TypeOK, Working
<1>9. QED
  BY <1>3, <1>6, <1>8, RunStep

(* So does one that stops while it fetches, or at a file.                  *)
LEMMA StopKept ==
  ASSUME IInv, NEW r \in Runs, NEW why \in {"network", "parse", "file"}, Stop(r, why), Working(r),
         run[r].st # "record", why = "file" \/ run[r].st # "files",
         UNCHANGED <<clock, source, cache, imports>>, audits \subseteq audits'
  PROVE  IInv'
BY FailKept DEF Stop

(* A run whose statement fails, or whose server stops.                     *)
LEMMA DieKept == ASSUME IInv, NEW r \in Runs, Die(r) PROVE IInv'
<1> DEFINE why == IF run[r].st = "files" THEN "file" ELSE "died"
           lost == IF run[r].st = "record" THEN run[r].answer ELSE None
<1>1. Working(r) /\ Fail(r, why, lost) /\ UNCHANGED <<clock, source, cache, audits, imports>>
  BY DEF Die
<1>2. lost \in CacheRows \cup {None}
  BY <1>1 DEF IInv, RunInv, WaitInv, PageGood, Working
<1>3. /\ why \in {"network", "parse", "file", "died"} /\ (why = "file" \/ run[r].st # "files")
      /\ run[r].st = "record" => lost = run[r].answer
  OBVIOUS
<1> HIDE DEF why, lost
<1>4. QED
  BY <1>1, <1>2, <1>3, FailKept

(* The host cannot be reached, or the answer is an error.                  *)
LEMMA UnreachableKept == ASSUME IInv, NEW r \in Runs, Unreachable(r) \/ Refused(r) PROVE IInv'
<1>1. /\ Stop(r, "network") /\ run[r].st \in {"wait", "body"} /\ audits \subseteq audits'
      /\ UNCHANGED <<clock, source, cache, imports>>
  BY DEF Unreachable, Refused, Audit
<1>2. QED
  BY <1>1, StopKept DEF Working

(* The page is cached, in the place of an older one.                       *)
LEMMA StoreKept == ASSUME IInv, NEW r \in Runs, Store(r) PROVE IInv'
<1>1. Working(r) /\ run[r].st = "body" /\ run[r].answer.ok
  BY DEF Store, Working
<1>2. /\ run[r] \in AtWork /\ NeedInv(r) /\ WaitInv(r) /\ clock \in Nat /\ source \in Nat
      /\ run[r].since <= clock /\ run[r].since \in Nat
  BY <1>1, AtWorkTyped DEF IInv, RunInv, TypeOK, AtWork
<1>3. run[r].answer \in Answers /\ run[r].answer.version <= source
  BY <1>1, <1>2 DEF WaitInv
<1>4. Len(run[r].got) < Len(run[r].need) /\ NextUrl(r) \in Urls
  <2>1. Len(run[r].got) < Len(run[r].need)
    BY <1>1, <1>2 DEF WaitInv
  <2>2. run[r].got \in Seq(CacheRows) /\ run[r].need \in Seq(Urls)
    BY <1>2 DEF AtWork
  <2>3. QED
    BY <2>1, <2>2 DEF NextUrl
<1> DEFINE page == Response(r)
           new == [run[r] EXCEPT !.st = "record", !.answer = page]
<1>5. /\ page.org = Org[r] /\ page.url = NextUrl(r) /\ page.at = clock /\ page.ok
      /\ page.version <= source
  BY <1>1, <1>3 DEF Response
<1>6. page \in CacheRows
  BY <1>2, <1>3, <1>4 DEF Response, CacheRows, Orgs, Answers
<1>7. PageGood(r, page)
  BY <1>2, <1>5, <1>6, TtlAssumption DEF PageGood
<1>8. cache' = (cache \ Cached(r, NextUrl(r))) \cup {page} /\ run' = [run EXCEPT ![r] = new]
  BY DEF Store, IInv, TypeOK
<1> HIDE DEF page
<1>9. new \in AtWork
  BY <1>2, <1>6 DEF AtWork
<1>10. /\ new.st = "record" /\ new.q = run[r].q /\ new.since = run[r].since /\ new.got = run[r].got
       /\ new.need = run[r].need /\ new.files = run[r].files /\ new.answer = page
  BY <1>2 DEF AtWork
<1> HIDE DEF new
<1>11. run'[r] = new /\ DOMAIN run' = Runs
  BY <1>8 DEF IInv, TypeOK
<1>13. StepOf(r, new)
  <2>1. cache' \subseteq CacheRows
    BY <1>6, <1>8 DEF IInv, TypeOK
  <2>2. \A row \in cache' : row \in cache \/ (row.at <= clock /\ row.version <= source /\ row.ok /\ Traced(row)')
    <3>1. ASSUME NEW row \in cache' PROVE row \in cache \/ (row.at <= clock /\ row.version <= source /\ row.ok /\ Traced(row)')
      <4>1. row \in cache \/ row = page
        BY <1>8
      <4>2. CASE row = page
        <5>1. page.at <= clock
          BY <1>2, <1>5
        <5>2. \A x : x = page => Traced(x)'
          BY <1>10, <1>11 DEF Traced
        <5>3. QED
          BY <1>5, <4>2, <5>1, <5>2
      <4>3. QED
        BY <4>1, <4>2
    <3>2. QED
      BY <3>1
  <2>3. \A x, y \in cache' : x.org = y.org /\ x.url = y.url => x = y
    BY <1>5, <1>8 DEF Cached, IInv, TypeOK
  <2>4. QED
    BY <1>1, <1>8, <2>1, <2>2, <2>3 DEF StepOf, Store
<1>14. NeedInv(r)' /\ NextUrl(r)' = NextUrl(r) /\ \A x : PageGood(r, x)' = PageGood(r, x)
  BY <1>2, <1>10, <1>13, SameNeed
<1>15. WaitInv(r)'
  BY <1>4, <1>5, <1>7, <1>10, <1>11, <1>14 DEF WaitInv
<1>16. QED
  BY <1>1, <1>9, <1>10, <1>13, <1>14, <1>15, FetchStep DEF Store

(* The page is audited, and is one of those the run has.                   *)
LEMMA RecordKept == ASSUME IInv, NEW r \in Runs, Record(r) PROVE IInv'
<1>1. Working(r) /\ run[r].st = "record"
  BY DEF Record, Working
<1>2. run[r] \in AtWork /\ NeedInv(r) /\ WaitInv(r)
  BY <1>1, AtWorkTyped DEF IInv, RunInv
<1> DEFINE page == run[r].answer
           new == [run[r] EXCEPT !.st = "look", !.got = Append(@, page), !.answer = None]
<1>3. PageGood(r, page) /\ page.url = NextUrl(r) /\ Len(run[r].got) < Len(run[r].need)
  BY <1>1, <1>2 DEF WaitInv
<1>4. run' = [run EXCEPT ![r] = new] /\ run'[r] = new
  BY DEF Record, IInv, TypeOK
<1>5. new \in AtWork
  <2>1. Append(run[r].got, page) \in Seq(CacheRows)
    BY <1>2, <1>3 DEF AtWork, PageGood
  <2>2. QED
    BY <1>2, <2>1 DEF AtWork
<1>6. /\ new.st = "look" /\ new.q = run[r].q /\ new.since = run[r].since
      /\ new.got = Append(run[r].got, page) /\ new.need = run[r].need /\ new.files = run[r].files
  BY <1>2 DEF AtWork
<1>7. \A x : x = page => Traced(x)'
  BY <1>3 DEF Traced, Record, Audit, PageGood
<1> HIDE DEF page, new
<1>8. StepOf(r, new)
  <2>1. cache' = cache /\ clock' = clock /\ source' = source /\ audits \subseteq audits'
    BY DEF Record, Audit
  <2>2. QED
    BY <1>1, <1>4, <1>7, <2>1 DEF StepOf, page, IInv, TypeOK
<1>9. NeedInv(r)'
  <2>1. PICK x : x = page
    OBVIOUS
  <2>2. Traced(x)'
    BY <1>7, <2>1
  <2>3. QED
    BY <1>1, <1>2, <1>3, <1>5, <1>6, <1>8, <2>1, <2>2, NextGot
<1>10. WaitInv(r)'
  BY <1>4, <1>6 DEF WaitInv
<1>11. QED
  BY <1>1, <1>5, <1>6, <1>8, <1>9, <1>10, FetchStep DEF Record

(* The plan has a page that the first one tells of.                        *)
LEMMA FollowUpKept == ASSUME IInv, NEW r \in Runs, FollowUp(r) PROVE IInv'
<1>1. /\ Working(r) /\ run[r].st = "look" /\ Len(run[r].got) = 1 /\ Len(run[r].need) = 1
      /\ run[r].q.dataset = "hockeytech_skater_stats"
  BY DEF FollowUp, Fetched, HasFollowUp, Working
<1>2. run[r] \in AtWork /\ NeedInv(r)
  BY <1>1, AtWorkTyped DEF IInv, RunInv
<1>3. CASE Stop(r, "parse")
  BY <1>1, <1>3, StopKept DEF FollowUp
<1>4. CASE run' = [run EXCEPT ![r].need = Append(@, Url("ht_stats", "all"))]
  <2> DEFINE both == <<Url("ht_seasons", "all"), Url("ht_stats", "all")>>
             new == [run[r] EXCEPT !.need = both]
  <2>1. run[r].need = <<Url("ht_seasons", "all")>>
    <3>1. Len(both) = 2
      OBVIOUS
    <3>2. PlanUrls(run[r].q) = <<Url("ht_seasons", "all")>>
      BY <1>1 DEF PlanUrls, ByPlayer
    <3>3. QED
      BY <1>1, <1>2, <3>1, <3>2 DEF NeedInv
  <2>2. Append(run[r].need, Url("ht_stats", "all")) = both /\ both \in Seq(Urls)
    <3>1. Url("ht_seasons", "all") \in Urls /\ Url("ht_stats", "all") \in Urls
      BY UrlTyped DEF PageNames
    <3>2. ASSUME NEW a \in Urls, NEW b \in Urls PROVE Append(<<a>>, b) = <<a, b>> /\ <<a, b>> \in Seq(Urls)
      <4>1. /\ <<a, b>> \in Seq(Urls) /\ Len(<<a, b>>) = 2 /\ <<a, b>>[1] = a /\ <<a, b>>[2] = b
        OBVIOUS
      <4>2. /\ Append(<<a>>, b) \in Seq(Urls) /\ Len(Append(<<a>>, b)) = 2
            /\ Append(<<a>>, b)[1] = a /\ Append(<<a>>, b)[2] = b
        <5>1. <<a>> \in Seq(Urls) /\ Len(<<a>>) = 1 /\ <<a>>[1] = a
          OBVIOUS
        <5>2. QED
          BY <5>1
      <4>3. ASSUME NEW s \in Seq(Urls), NEW t \in Seq(Urls), Len(s) = 2, Len(t) = 2, s[1] = t[1], s[2] = t[2]
            PROVE  s = t
        <5>1. \A i \in 1..Len(s) : s[i] = t[i]
          BY <4>3
        <5>2. QED
          BY <4>3, <5>1, SeqEqual
      <4>4. QED
        BY <4>1, <4>2, <4>3, Zenon
    <3>3. QED
      BY <2>1, <3>1, <3>2, Zenon
  <2>3. run' = [run EXCEPT ![r] = new] /\ run'[r] = new
    BY <1>4, <2>2 DEF IInv, TypeOK
  <2>4. Len(both) = 2 /\ both[1] = run[r].need[1]
    BY <2>1
  <2> HIDE DEF both
  <2>5. new \in AtWork
    BY <1>2, <2>2 DEF AtWork
  <2>6. /\ new.st = "look" /\ new.q = run[r].q /\ new.since = run[r].since /\ new.got = run[r].got
        /\ new.need = both /\ new.files = run[r].files
    BY <1>1, <1>2 DEF AtWork
  <2> HIDE DEF new
  <2>7. StepOf(r, new)
    BY <1>1, <2>3, QuietStep DEF FollowUp
  <2>8. NeedInv(r)'
    <3>1. \A page : (Traced(page) => Traced(page)') /\ PageGood(r, page)' = PageGood(r, page)
      BY <2>3, <2>6, <2>7, TracedKept DEF IInv, StepOf, PageGood
    <3>2. \A i \in 1..1 : run[r].got[i].url = both[i] /\ PageGood(r, run[r].got[i]) /\ Traced(run[r].got[i])
      BY <1>1, <1>2, <2>4 DEF NeedInv
    <3>3. \A i \in 1..Len(run'[r].got) :
            run'[r].got[i].url = run'[r].need[i] /\ PageGood(r, run[r].got[i])' /\ Traced(run[r].got[i])'
      BY <1>1, <2>3, <2>6, <3>1, <3>2
    <3>4. QED
      BY <1>1, <2>3, <2>4, <2>6, <3>3 DEF NeedInv, both
  <2>9. WaitInv(r)'
    BY <2>3, <2>6 DEF WaitInv
  <2>10. QED
    BY <1>1, <2>5, <2>6, <2>7, <2>8, <2>9, FetchStep DEF FollowUp
<1>5. QED
  BY <1>3, <1>4 DEF FollowUp

-----------------------------------------------------------------------------
(***************************************************************************)
(* The steps of a run that stages.                                         *)
(***************************************************************************)

(* The rows of a plan's pages are each of the pages of its own id, and no  *)
(* id has two.                                                             *)
LEMMA RowsGood ==
  ASSUME NEW q \in Asked, NEW got \in Seq(CacheRows), NEW need \in Seq(Urls),
         ValidRequest(q), ~HasFollowUp(q, got), Len(got) = Len(need), Len(need) >= 1,
         \A i \in 1..Len(got) : got[i].url = need[i],
         \/ need = PlanUrls(q)
         \/ q.dataset = "hockeytech_skater_stats" /\ need = <<Url("ht_seasons", "all"), Url("ht_stats", "all")>>
  PROVE  /\ \A i \in DOMAIN Rows(q, got) : Rows(q, got)[i].from = {Rows(q, got)[i].of}
         /\ \A i, j \in DOMAIN Rows(q, got) : Rows(q, got)[i].of = Rows(q, got)[j].of => i = j
<1>1. /\ q.of \in Seq(Ids) /\ DOMAIN q.of = 1..Len(q.of) /\ Len(q.of) \in Nat /\ DOMAIN got = 1..Len(got)
      /\ q.dataset \in ByPlayer \cup {"nhl_game_logs", "nhl_roster"} => IsInjective(q.of)
  BY AskedTyped
<1> DEFINE named == q.dataset \in ByPlayer \cup {"nhl_game_logs", "nhl_roster"}
<1>2. named => \A i, j \in 1..Len(q.of) : q.of[i] = q.of[j] => i = j
  BY <1>1 DEF IsInjective
<1>3. CASE q.dataset = "nhl_game_logs"
  <2>1. need = [i \in 1..2 * Len(q.of) |-> Url(IF i % 2 = 1 THEN "game_log" ELSE "landing", q.of[(i + 1) \div 2])]
    BY <1>3 DEF PlanUrls, ByPlayer
  <2>2. Rows(q, got) = [i \in 1..Len(q.of) |-> [of |-> q.of[i], from |-> {got[2 * i - 1].url.of, got[2 * i].url.of}]]
    <3>1. Rows(q, got) = [i \in DOMAIN q.of |-> [of |-> q.of[i], from |-> {got[2 * i - 1].url.of, got[2 * i].url.of}]]
      BY <1>3 DEF Rows, ByPlayer
    <3>2. QED
      BY <1>1, <3>1, Zenon
  <2>3. Len(need) = 2 * Len(q.of)
    BY <1>1, <2>1
  <2>4. ASSUME NEW i \in 1..Len(q.of) PROVE got[2 * i - 1].url.of = q.of[i] /\ got[2 * i].url.of = q.of[i]
    <3>1. 2 * i - 1 \in 1..2 * Len(q.of) /\ 2 * i \in 1..2 * Len(q.of)
      BY <1>1
    <3>2. (2 * i - 1 + 1) \div 2 = i /\ (2 * i + 1) \div 2 = i
      BY <1>1
    <3>3. got[2 * i - 1].url = need[2 * i - 1] /\ got[2 * i].url = need[2 * i]
      BY <2>3, <3>1
    <3>4. need[2 * i - 1].of = q.of[(2 * i - 1 + 1) \div 2] /\ need[2 * i].of = q.of[(2 * i + 1) \div 2]
      BY <2>1, <3>1 DEF Url
    <3>5. QED
      BY <3>2, <3>3, <3>4
  <2>5. /\ DOMAIN Rows(q, got) = 1..Len(q.of)
        /\ \A i \in 1..Len(q.of) : Rows(q, got)[i].of = q.of[i] /\ Rows(q, got)[i].from = {q.of[i]}
    BY <2>2, <2>4
  <2>6. QED
    BY <1>2, <1>3, <2>5
<1>4. CASE q.dataset = "nhl_roster"
  <2>1. need = [i \in 1..Len(q.of) |-> Url("roster", q.of[i])]
    BY <1>1, <1>4 DEF PlanUrls, ByPlayer
  <2>2. Rows(q, got) = [i \in 1..Len(q.of) |-> [of |-> q.of[i], from |-> {got[i].url.of}]]
    <3>1. Rows(q, got) = [i \in DOMAIN q.of |-> [of |-> q.of[i], from |-> {got[i].url.of}]]
      BY <1>4 DEF Rows, ByPlayer
    <3>2. QED
      BY <1>1, <3>1, Zenon
  <2>3. \A i \in 1..Len(q.of) : got[i].url.of = q.of[i]
    <3>1. Len(need) = Len(q.of) /\ \A i \in 1..Len(q.of) : need[i].of = q.of[i]
      BY <1>1, <2>1 DEF Url
    <3>2. QED
      BY <3>1
  <2>4. QED
    BY <1>2, <1>4, <2>2, <2>3
<1>5. CASE q.dataset \in ByPlayer
  <2>1. need = [i \in 1..Len(q.of) |-> Url("landing", q.of[i])]
    BY <1>1, <1>5 DEF PlanUrls, ByPlayer
  <2>2. Rows(q, got) = [i \in 1..Len(got) |-> [of |-> got[i].url.of, from |-> {got[i].url.of}]]
    BY <1>1, <1>5 DEF Rows, ByPlayer
  <2>3. Len(got) = Len(q.of) /\ \A i \in 1..Len(got) : got[i].url.of = q.of[i]
    <3>1. Len(need) = Len(q.of) /\ \A i \in 1..Len(q.of) : need[i].of = q.of[i]
      BY <1>1, <2>1 DEF Url
    <3>2. QED
      BY <3>1
  <2>4. QED
    BY <1>2, <1>5, <2>2, <2>3
<1>6. CASE q.dataset = "hockeytech_skater_stats"
  <2>1. PlanUrls(q) = <<Url("ht_seasons", "all")>>
    BY <1>6 DEF PlanUrls, ByPlayer
  <2>2. Len(got) # 1
    BY <1>6 DEF HasFollowUp
  <2>3. need = <<Url("ht_seasons", "all"), Url("ht_stats", "all")>>
    BY <2>1, <2>2
  <2>4. got[2].url.of = "all"
    BY <2>3 DEF Url
  <2>5. Rows(q, got) = <<[of |-> "all", from |-> {"all"}]>>
    BY <1>6, <2>4 DEF Rows, ByPlayer
  <2>6. QED
    BY <2>5
<1>7. CASE q.dataset \notin ByPlayer \cup {"nhl_game_logs", "nhl_roster", "hockeytech_skater_stats"}
  <2>1. \/ need = <<Url("team_stats", "all"), Url("team_index", "all")>>
        \/ need = <<Url(q.dataset, "all")>>
    BY <1>7 DEF PlanUrls
  <2>2. got[1].url.of = "all"
    BY <2>1 DEF Url
  <2>3. Rows(q, got) = <<[of |-> "all", from |-> {"all"}]>>
    BY <1>7, <2>2 DEF Rows
  <2>4. QED
    BY <2>3
<1>8. QED
  BY <1>3, <1>4, <1>5, <1>6, <1>7

(* A run that has its pages stages them all, as one import, or stops.      *)
LEMMA StageKept == ASSUME IInv, NEW r \in Runs, Stage(r) PROVE IInv'
<1>1. Working(r) /\ run[r].st = "look" /\ Len(run[r].got) = Len(run[r].need) /\ ~HasFollowUp(run[r].q, run[r].got)
  BY DEF Stage, Fetched, Working
<1>2. run[r] \in AtWork /\ RunInv(r) /\ NeedInv(r) /\ StageInv(r) /\ ValidRequest(run[r].q)
  BY <1>1, AtWorkTyped DEF IInv, RunInv
<1> DEFINE q == run[r].q
           got == run[r].got
           rows == Rows(q, got)
           imp == [run |-> r, org |-> Org[r], dataset |-> q.dataset, got |-> got, rows |-> rows,
                   since |-> run[r].since, bypass |-> q.bypass, trained |-> None, retrievedAt |-> Earliest(got)]
           new == [run[r] EXCEPT !.st = "files"]
<1>3. CASE ~Parses(got)
  <2>1. /\ Stop(r, "parse") /\ UNCHANGED <<clock, source, cache, imports>> /\ audits \subseteq audits'
    BY <1>3 DEF Stage
  <2>2. QED
    BY <1>1, <2>1, StopKept
<1>4. CASE Parses(got)
  <2>1. /\ imports' = imports \cup {imp} /\ run' = [run EXCEPT ![r] = new] /\ run'[r] = new
        /\ UNCHANGED <<clock, source, cache, audits>>
    BY <1>4 DEF Stage, StageImport, IInv, TypeOK
  <2>2. q \in Asked /\ got \in Seq(CacheRows) /\ run[r].need \in Seq(Urls) /\ run[r].since \in Nat
    BY <1>2 DEF AtWork
  <2>3. Len(run[r].need) >= 1
    <3>1. Len(<<Url("ht_seasons", "all"), Url("ht_stats", "all")>>) = 2
      OBVIOUS
    <3>2. QED
      <4>1. Len(PlanUrls(q)) >= 1
        BY <1>2, <2>2, PlanTyped
      <4>2. run[r].need = PlanUrls(q) \/ run[r].need = <<Url("ht_seasons", "all"), Url("ht_stats", "all")>>
        BY <1>2 DEF NeedInv
      <4>3. QED
        BY <3>1, <4>1, <4>2
  <2>4. \A i \in 1..Len(got) : PageGood(r, got[i]) /\ got[i].url = run[r].need[i] /\ Traced(got[i])
    BY <1>2 DEF NeedInv
  <2>5. /\ \A i \in DOMAIN rows : rows[i].from = {rows[i].of}
        /\ \A i, j \in DOMAIN rows : rows[i].of = rows[j].of => i = j
    BY <1>1, <1>2, <2>2, <2>3, <2>4, RowsGood DEF NeedInv
  <2>6. PICK k \in 1..Len(got) : Earliest(got) = got[k].at
    BY <1>1, <2>2, <2>3, EarliestGood
  <2>7. /\ Earliest(got) > run[r].since - Ttl
        /\ q.bypass => Earliest(got) >= run[r].since
    BY <2>4, <2>6 DEF PageGood
  <2>8. \A i \in 1..Len(got) : got[i].at >= Earliest(got)
    <3>1. \A i \in 1..Len(got) : got[i].at \in Nat
      BY <2>4 DEF PageGood, CacheRows
    <3>2. QED
      BY <1>1, <2>2, <2>3, <2>6, <3>1, EarliestGood
  <2>9. new \in AtWork
    BY <1>2 DEF AtWork
  <2>10. /\ new.st = "files" /\ new.q = q /\ new.files = run[r].files /\ new.since = run[r].since
    BY <1>2 DEF AtWork
  <2>11. /\ imp.run = r /\ imp.org = Org[r] /\ imp.dataset = q.dataset /\ imp.got = got /\ imp.rows = rows
         /\ imp.since = run[r].since /\ imp.bypass = q.bypass /\ imp.retrievedAt = Earliest(got)
    OBVIOUS
  <2> HIDE DEF new, rows, imp
  <2>12. StepOf(r, new)
    BY <1>1, <2>1, QuietStep
  <2>13. \A page : Traced(page) => Traced(page)'
    BY <2>12, TracedKept DEF IInv, StepOf
  <2>14. \A x : x = imp => ImportGood(x)
    BY <1>4, <2>2, <2>4, <2>5, <2>7, <2>8, <2>11 DEF ImportGood, Parses, PageGood
  <2>15. \A x : x = imp => ImportGood(x)'
    BY <2>13, <2>14, ImportKept
  <2>16. Staged(r) = {} /\ run[r].files = Files(q) /\ Online(q)
    BY <1>1, <1>2 DEF StageInv
  <2>17. Staged(r)' = {q.dataset}
    BY <2>1, <2>11, <2>16 DEF Staged, StagedBy
  <2>18. StageInv(r)'
    <3>1. Files(q) \in Seq(Range(ModelFiles))
      BY <2>2, FilesGood
    <3>2. {Files(q)[i] : i \in 1..Len(Files(q)) - Len(Files(q))} = {}
      BY <3>1
    <3>3. /\ Len(Files(q)) <= Len(Files(q))
          /\ \A i \in 1..Len(Files(q)) : Files(q)[i] = Files(q)[Len(Files(q)) - Len(Files(q)) + i]
      BY <3>1
    <3>4. Staged(r)' = {Files(q)[i] : i \in 1..Len(Files(q)) - Len(Files(q))} \cup IF Online(q) THEN {q.dataset} ELSE {}
      BY <2>16, <2>17, <3>2
    <3>5. run'[r].q = q /\ run'[r].files = Files(q) /\ run'[r].st = "files"
      BY <2>1, <2>10, <2>16
    <3> HIDE DEF q
    <3>6. QED
      BY <3>3, <3>4, <3>5, Zenon DEF StageInv
  <2>19. RunInv(r)'
    BY <1>1, <1>2, <2>1, <2>10, <2>18 DEF RunInv
  <2>20. QED
    <3>1. PICK x : x = imp
      OBVIOUS
    <3>2. imports' = imports \cup {x} /\ x.run = r /\ x.dataset \notin Staged(r) /\ ImportGood(x)'
      BY <2>1, <2>11, <2>15, <2>16, <3>1
    <3>3. new \in Standing
      BY <2>9 DEF Standing
    <3>4. QED
      BY <2>12, <2>19, <3>2, <3>3, RunStep
<1>5. QED
  BY <1>3, <1>4

(* A model file is staged, and is none of those staged before.             *)
LEMMA ReadFileKept == ASSUME IInv, NEW r \in Runs, ReadFile(r) PROVE IInv'
<1>1. Working(r) /\ run[r].st = "files" /\ run[r].files # <<>>
  BY DEF ReadFile, Working
<1>2. run[r] \in AtWork /\ RunInv(r) /\ StageInv(r) /\ ValidRequest(run[r].q) /\ clock \in Nat
  BY <1>1, AtWorkTyped DEF IInv, RunInv, TypeOK
<1> DEFINE q == run[r].q
           files == run[r].files
           all == Files(q)
           read == Len(all) - Len(files)
           imp(trained) == [run |-> r, org |-> Org[r], dataset |-> Head(files), got |-> <<>>, rows |-> <<>>,
                            since |-> run[r].since, bypass |-> q.bypass, trained |-> trained,
                            retrievedAt |-> IF trained = None THEN clock ELSE trained]
           new == [run[r] EXCEPT !.files = Tail(@)]
<1>3. CASE Stop(r, "file") /\ UNCHANGED imports
  <2>1. UNCHANGED <<clock, source, cache>> /\ audits \subseteq audits'
    BY DEF ReadFile, Audit
  <2>2. QED
    BY <1>1, <1>3, <2>1, StopKept
<1>4. ASSUME NEW trained \in TrainedAt \cup {None},
             /\ Audit(r, "connector.read_model_file", Url(Head(files), "all"))
             /\ StageImport(r, Head(files), <<>>, <<>>, trained, IF trained = None THEN clock ELSE trained)
             /\ run' = [run EXCEPT ![r].files = Tail(@)]
      PROVE  IInv'
  <2>1. /\ imports' = imports \cup {imp(trained)} /\ run' = [run EXCEPT ![r] = new] /\ run'[r] = new
        /\ UNCHANGED <<clock, source, cache>> /\ audits \subseteq audits'
    BY <1>4 DEF ReadFile, StageImport, Audit, IInv, TypeOK
  <2>2. q \in Asked /\ files \in Seq(Range(ModelFiles)) /\ run[r].since \in Nat /\ run[r].since <= clock
    BY <1>1, <1>2 DEF AtWork, RunInv
  <2>3. /\ all \in Seq(Range(ModelFiles)) /\ IsInjective(all)
        /\ Online(q) => \A i \in 1..Len(all) : all[i] # q.dataset
    BY <2>2, FilesGood
  <2>4. /\ Len(files) \in 1..Len(all) /\ read \in 0..Len(all) - 1
        /\ \A i \in 1..Len(files) : files[i] = all[read + i]
        /\ Staged(r) = {all[i] : i \in 1..read} \cup IF Online(q) THEN {q.dataset} ELSE {}
    <3>1. Len(files) \in Nat /\ Len(files) >= 1 /\ Len(all) \in Nat
      BY <1>1, <2>2, <2>3
    <3>2. /\ Len(files) <= Len(all)
          /\ \A i \in 1..Len(files) : files[i] = all[read + i]
          /\ Staged(r) = {all[i] : i \in 1..read} \cup IF Online(q) THEN {q.dataset} ELSE {}
      BY <1>1, <1>2 DEF StageInv
    <3>3. Len(files) \in 1..Len(all) /\ read \in 0..Len(all) - 1
      BY <3>1, <3>2
    <3> HIDE DEF read, all
    <3>4. QED
      BY <3>2, <3>3
  <2>5. Head(files) = all[read + 1] /\ read + 1 \in 1..Len(all)
    <3>1. Head(files) = files[1] /\ 1 \in 1..Len(files) /\ Len(all) \in Nat
      BY <2>2, <2>3, <2>4
    <3>2. read + 1 \in 1..Len(all)
      BY <2>4, <3>1
    <3> HIDE DEF read, all
    <3>3. QED
      BY <2>4, <3>1, <3>2
  <2>6. /\ Tail(files) \in Seq(Range(ModelFiles)) /\ Len(Tail(files)) = Len(files) - 1
        /\ \A i \in 1..Len(Tail(files)) : Tail(files)[i] = files[i + 1]
    BY <1>1, <2>2
  <2>7. new \in AtWork
    BY <1>2, <2>6 DEF AtWork
  <2>8. /\ new.st = "files" /\ new.q = q /\ new.files = Tail(files) /\ new.since = run[r].since
    BY <1>1, <1>2 DEF AtWork
  <2>9. PICK x : x = imp(trained)
    OBVIOUS
  <2>10. /\ x.run = r /\ x.dataset = Head(files) /\ x.got = <<>> /\ x.rows = <<>> /\ x.since = run[r].since
         /\ x.trained = None => x.retrievedAt = clock
    BY <2>9
  <2> HIDE DEF new, imp, q, files
  <2>11. StepOf(r, new)
    BY <1>1, <2>1, QuietStep
  <2>12. ImportGood(x)'
    BY <1>2, <2>2, <2>10, TtlAssumption DEF ImportGood
  <2>13. Head(files) \notin Staged(r)
    <3>1. \A i \in 1..read : all[i] # all[read + 1]
      BY <2>3, <2>4, <2>5 DEF IsInjective
    <3>2. QED
      BY <2>3, <2>4, <2>5, <3>1
  <2>14. Staged(r)' = Staged(r) \cup {Head(files)}
    BY <2>1, <2>9, <2>10 DEF Staged, StagedBy
  <2>15. StageInv(r)'
    <3> DEFINE more == Len(all) - Len(Tail(files))
    <3>1. more = read + 1 /\ Len(Tail(files)) <= Len(all) /\ read \in Nat
      BY <2>3, <2>4, <2>6
    <3>2. \A i \in 1..Len(Tail(files)) : Tail(files)[i] = all[more + i]
      <4>1. ASSUME NEW i \in 1..Len(Tail(files)) PROVE Tail(files)[i] = all[more + i]
        <5>1. i + 1 \in 1..Len(files) /\ read + (i + 1) = more + i
          BY <2>2, <2>3, <2>4, <2>6, <3>1
        <5>2. QED
          BY <2>4, <2>6, <5>1
      <4>2. QED
        BY <4>1
    <3>3. {all[i] : i \in 1..more} = {all[i] : i \in 1..read} \cup {Head(files)}
      <4>1. 1..more = (1..read) \cup {read + 1}
        <5>1. \A n \in Nat : 1..n + 1 = (1..n) \cup {n + 1}
          OBVIOUS
        <5>2. QED
          BY <3>1, <5>1
      <4>2. QED
        BY <2>5, <4>1
    <3>4. Staged(r)' = {all[i] : i \in 1..more} \cup IF Online(q) THEN {q.dataset} ELSE {}
      BY <2>4, <2>14, <3>3
    <3>5. run'[r].q = q /\ run'[r].files = Tail(files) /\ run'[r].st = "files"
      BY <2>1, <2>8
    <3>6. QED
      BY <3>1, <3>2, <3>4, <3>5, Zenon DEF StageInv
  <2>16. RunInv(r)'
    BY <1>1, <1>2, <2>1, <2>2, <2>8, <2>15 DEF RunInv, q
  <2>17. QED
    <3>1. imports' = imports \cup {x} /\ x.run = r /\ x.dataset \notin Staged(r) /\ ImportGood(x)'
      BY <2>1, <2>9, <2>10, <2>12, <2>13
    <3>2. new \in Standing
      BY <2>7 DEF Standing
    <3>3. QED
      BY <2>11, <2>16, <3>1, <3>2, RunStep
<1>5. QED
  BY <1>3, <1>4 DEF ReadFile

(* A run that has read all its files has staged all it was asked for.      *)
LEMMA FinishKept == ASSUME IInv, NEW r \in Runs, Finish(r) PROVE IInv'
<1>1. Working(r) /\ run[r].st = "files" /\ run[r].files = <<>>
  BY DEF Finish, Working
<1>2. run[r] \in AtWork /\ StageInv(r)
  BY <1>1, AtWorkTyped DEF IInv, RunInv
<1> DEFINE q == run[r].q
           new == [st |-> "done", q |-> q]
<1>3. run' = [run EXCEPT ![r] = new] /\ run'[r] = new /\ UNCHANGED <<clock, source, cache, audits, imports>>
  BY DEF Finish, IInv, TypeOK
<1>4. q \in Asked /\ new \in Standing
  BY <1>2 DEF AtWork, Standing, Done
<1>5. Staged(r) = Wanted(q)
  <2>1. Files(q) \in Seq(Range(ModelFiles))
    BY <1>4, FilesGood
  <2>2. Len(Files(q)) - Len(<<>>) = Len(Files(q)) /\ DOMAIN Files(q) = 1..Len(Files(q))
    BY <2>1
  <2>3. Staged(r) = {Files(q)[i] : i \in 1..Len(Files(q))} \cup IF Online(q) THEN {q.dataset} ELSE {}
    BY <1>1, <1>2, <2>2 DEF StageInv
  <2>4. QED
    BY <2>2, <2>3 DEF Wanted, Range
<1>6. RunInv(r)'
  <2>1. Staged(r)' = Staged(r)
    BY <1>3 DEF Staged, StagedBy
  <2>2. QED
    BY <1>3, <1>5, <2>1 DEF RunInv, Working
<1>7. StepOf(r, new)
  BY <1>1, <1>3, QuietStep
<1>8. QED
  BY <1>3, <1>4, <1>6, <1>7, RunStep

-----------------------------------------------------------------------------
(* Time and the sources change nothing that the runs rely on.              *)
LEMMA TimeKept == ASSUME IInv, Tick \/ Publish \/ UNCHANGED vars PROVE IInv'
<1>1. /\ UNCHANGED <<cache, audits, imports, run>>
      /\ clock' \in Nat /\ clock' >= clock /\ source' \in Nat /\ source' >= source
  BY DEF Tick, Publish, IInv, TypeOK, vars
<1>2. TypeOK'
  BY <1>1 DEF IInv, TypeOK, CacheRows
<1>3. \A page : Traced(page)' = Traced(page)
  BY <1>1 DEF Traced
<1>4. \A r \in Runs : RunInv(r)'
  <2>1. \A r \in Runs : Staged(r)' = Staged(r)
    BY <1>1 DEF Staged, StagedBy
  <2>2. QED
    BY <1>1, <1>3, <2>1, Undisturbed DEF IInv
<1>5. CacheInv' /\ ImportsInv'
  BY <1>1, <1>3, ImportKept DEF IInv, CacheInv, ImportsInv
<1>6. QED
  BY <1>2, <1>4, <1>5 DEF IInv

(* A step keeps the invariant.                                             *)
LEMMA StepKept == IInv /\ [Next]_vars => IInv'
<1> SUFFICES ASSUME IInv, [Next]_vars PROVE IInv'
  OBVIOUS
<1>1. CASE Tick \/ Publish \/ UNCHANGED vars
  BY <1>1, TimeKept
<1>2. ASSUME NEW r \in Runs,
             \/ Begin(r) \/ Look(r) \/ Answer(r) \/ Unreachable(r) \/ Refused(r) \/ Store(r) \/ Record(r)
             \/ FollowUp(r) \/ Stage(r) \/ ReadFile(r) \/ Finish(r) \/ Die(r)
      PROVE  IInv'
  BY <1>2, BeginKept, LookKept, AnswerKept, UnreachableKept, StoreKept, RecordKept, FollowUpKept, StageKept,
     ReadFileKept, FinishKept, DieKept
<1>3. QED
  BY <1>1, <1>2 DEF Next

(* At first there is nothing, and no run has begun.                        *)
LEMMA InitInv == Init => IInv
<1> SUFFICES ASSUME Init PROVE IInv
  OBVIOUS
<1>1. TypeOK /\ CacheInv /\ ImportsInv
  BY DEF Init, TypeOK, CacheInv, ImportsInv
<1>2. \A r \in Runs : RunInv(r)
  BY DEF Init, RunInv, Working, Staged, StagedBy
<1>3. QED
  BY <1>1, <1>2 DEF IInv

(* The invariant always holds.                                             *)
THEOREM FetchInvariant == Spec => []IInv
<1>1. Init => IInv
  BY InitInv
<1>2. IInv /\ [Next]_vars => IInv'
  BY StepKept
<1>3. QED
  BY <1>1, <1>2, PTL DEF Spec

(* What is staged of pages is of the pages of its own players, no older    *)
(* than it says or than its request allows (runConnectorImport), whatever  *)
(* was cached by whom and however long ago.  What is staged of a model file*)
(* is as old as its model (runModelImport).                                *)
THEOREM StagedAsSaidAlways == Spec => []StagedAsSaid
BY FetchInvariant, IInvProperties, PTL

(* Every page of every import was fetched for its organization, and is in  *)
(* its audit log, unless the request that fetched it is about to write that*)
(* or failed between its two statements (cachedFetch).                     *)
THEOREM TraceableAlways == Spec => []Traceable
BY FetchInvariant, IInvProperties, PTL

(* No import is made of a failed answer, and what a run leaves staged is   *)
(* all it was asked for, or nothing, unless a model file stopped it.       *)
THEOREM NothingHalfAlways == Spec => []NothingHalf
BY FetchInvariant, IInvProperties, PTL
=============================================================================
