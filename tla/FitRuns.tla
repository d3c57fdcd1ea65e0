------------------------------ MODULE FitRuns -------------------------------
(***************************************************************************)
(* One organizational need, its edits, and the fit runs against it         *)
(* (fitActions.ts, fitService.ts): a run reads the need, its grade floors  *)
(* and the prospects once, then writes score after score with its          *)
(* breakdown, the depth snapshots and the links to expiring contracts.     *)
(*                                                                         *)
(* There is no transaction: each statement is a step. What a score says is *)
(* FitScore's subject; here a score is whose computation it is of, and a   *)
(* breakdown of fourteen rows is one.                                      *)
(***************************************************************************)
EXTENDS Naturals, FiniteSets, Roles

CONSTANTS
  Prospects,    \* prospects of the organization
  Contracts,    \* active contracts at the position
  GradeKeys,    \* report sections a floor may be set for
  Requests,     \* requests, each made once
  Role,         \* Role[r]: the role of the user whose request r is
  MaxOpen,      \* bound: requests in progress at once
  MaxFailures,  \* bound: requests that a failing statement ends
  None          \* null

VARIABLES
  need,        \* the row of organizational_needs: the form it shows, and whether it is active
  floors,      \* its rows of organizational_need_requirements
  eligible,    \* the prospects of a group the need asks for
  expiring,    \* the contracts that end within the need's window
  runs,        \* the row of fit_calculation_runs each request has made
  scores,      \* the row of prospect_fit_scores of each prospect
  breakdowns,  \* the rows of prospect_fit_components, fourteen at a time
  snapshots,   \* the runs whose depth snapshots are stored
  links,       \* the rows of organizational_need_roster_links of expiring contracts
  audits,      \* the requests audited
  pc,          \* where each request stands
  task,        \* what it has read and goes on with
  failures     \* how many requests were cut short

world == <<eligible, expiring>>
result == <<runs, scores, breakdowns, snapshots, links>>
vars == <<need, floors, world, result, audits, pc, task, failures>>

(* The rows of the tables.                                                 *)
NeedRow(form, active) == [form |-> form, active |-> active]
FloorRows(keys, form) == {[key |-> k, form |-> form] : k \in keys}
RunRow(status, scored) == [status |-> status, scored |-> scored]
ScoreRow(t, from) == [run |-> t.run, from |-> from, form |-> t.form, floors |-> t.floors]
BreakdownRow(p, from) == [of |-> p, from |-> from]
LinkRows(contracts, from) == {[contract |-> c, from |-> from] : c \in contracts}

Init ==
  /\ need \in {NeedRow("absent", FALSE), NeedRow(None, TRUE)}
  /\ floors = {}
  /\ eligible \in SUBSET Prospects
  /\ expiring = Contracts
  /\ runs = [r \in Requests |-> None]
  /\ scores = [p \in Prospects |-> None]
  /\ breakdowns = {} /\ snapshots = {} /\ links = {} /\ audits = {}
  /\ pc = [r \in Requests |-> "idle"]
  /\ task = [r \in Requests |-> None]
  /\ failures = 0

Open == {r \in Requests : pc[r] \notin {"idle", "done", "failed"}}

Goto(r, label, data) ==
  /\ pc' = [pc EXCEPT ![r] = label]
  /\ task' = [task EXCEPT ![r] = data]
  /\ UNCHANGED failures

Begin(r, capability, label, data) ==
  /\ pc[r] = "idle"
  /\ Can(Role[r], capability)
  /\ Cardinality(Open) < MaxOpen
  /\ Goto(r, label, data)

AuditAndEnd(r) ==
  /\ pc[r] = "audit"
  /\ audits' = audits \cup {r}
  /\ Goto(r, "done", None)
  /\ UNCHANGED <<need, floors, world, result>>

(***************************************************************************)
(* Edits of the need.                                                      *)
(***************************************************************************)

Exists == need.form # "absent"

(* createNeedAction: the row is inserted; the floors follow.               *)
CreateNeed(r) ==
  /\ ~Exists
  /\ \E keys \in SUBSET GradeKeys : Begin(r, "manage_org_needs", "clear", keys)
  /\ need' = NeedRow(r, TRUE)
  /\ UNCHANGED <<floors, world, result, audits>>

(* updateNeedAction: the row is updated; the floors follow.                *)
UpdateNeed(r) ==
  /\ Exists
  /\ \E keys \in SUBSET GradeKeys : Begin(r, "manage_org_needs", "clear", keys)
  /\ need' = [need EXCEPT !.form = r]
  /\ UNCHANGED <<floors, world, result, audits>>

(* replaceGradeRequirements: all floors go, then the form's are inserted.  *)
ClearFloors(r) ==
  /\ pc[r] = "clear"
  /\ floors' = {}
  /\ IF task[r] = {} THEN Goto(r, "audit", None) ELSE Goto(r, "floors", task[r])
  /\ UNCHANGED <<need, world, result, audits>>

(* Fault: no unique index on need, type and key.                           *)
FloorTaken_NoIndex(r) == FALSE

FloorTaken(r) == \E f \in floors : f.key \in task[r]

InsertFloors(r) ==
  /\ pc[r] = "floors"
  /\ IF FloorTaken(r)
     THEN Goto(r, "failed", None) /\ UNCHANGED floors
     ELSE floors' = floors \cup FloorRows(task[r], r) /\ Goto(r, "audit", None)
  /\ UNCHANGED <<need, world, result, audits>>

(* archiveNeedAction: the toggle writes the opposite of what was read.     *)
ReadActive(r) ==
  /\ Exists
  /\ Begin(r, "manage_org_needs", "toggle", need.active)
  /\ UNCHANGED <<need, floors, world, result, audits>>

Toggle(r) ==
  /\ pc[r] = "toggle"
  /\ need' = [need EXCEPT !.active = ~task[r]]
  /\ Goto(r, "audit", None)
  /\ UNCHANGED <<floors, world, result, audits>>

(***************************************************************************)
(* A run for the need, and the score of one prospect.                      *)
(***************************************************************************)

Task(run, todo) == [run |-> run, form |-> need.form, floors |-> {}, todo |-> todo, now |-> None, scored |-> {}]

(* getOwnedNeed reads the row, then its floors.                            *)
RunFit(r) ==
  /\ Exists
  /\ Begin(r, "run_fit_models", "requirements", Task(r, {}))
  /\ UNCHANGED <<need, floors, world, result, audits>>

ComputeFit(r) ==
  /\ Exists
  /\ \E p \in Prospects : Begin(r, "edit_prospects", "requirements", Task(None, {p}))
  /\ UNCHANGED <<need, floors, world, result, audits>>

ReadRequirements(r) ==
  /\ pc[r] = "requirements"
  /\ Goto(r, IF task[r].run = None THEN "score" ELSE "gather", [task[r] EXCEPT !.floors = floors])
  /\ runs' = IF task[r].run = None THEN runs ELSE [runs EXCEPT ![r] = RunRow("running", {})]
  /\ UNCHANGED <<need, floors, world, scores, breakdowns, snapshots, links, audits>>

(* The candidates, the depth at the position and the prospects' inputs.    *)
Gather(r) ==
  /\ pc[r] = "gather"
  /\ Goto(r, "score", [task[r] EXCEPT !.todo = eligible])
  /\ UNCHANGED <<need, floors, world, result, audits>>

(* Fault: a conflict leaves the score that is there.                       *)
UpsertScore_DoNothing(r) ==
  /\ pc[r] = "score"
  /\ \E p \in task[r].todo :
       /\ scores' = [scores EXCEPT ![p] = IF @ = None THEN ScoreRow(task[r], r) ELSE @]
       /\ Goto(r, "replace", [task[r] EXCEPT !.todo = @ \ {p}, !.now = p, !.scored = @ \cup {p}])
  /\ UNCHANGED <<need, floors, world, runs, breakdowns, snapshots, links, audits>>

(* persistFit: one score per prospect, need and model version, ...         *)
UpsertScore(r) ==
  /\ pc[r] = "score"
  /\ \E p \in task[r].todo :
       /\ scores' = [scores EXCEPT ![p] = ScoreRow(task[r], r)]
       /\ Goto(r, "replace", [task[r] EXCEPT !.todo = @ \ {p}, !.now = p, !.scored = @ \cup {p}])
  /\ UNCHANGED <<need, floors, world, runs, breakdowns, snapshots, links, audits>>

(* Fault: the breakdown that is there is kept.                             *)
DeleteBreakdown_None(r) ==
  /\ pc[r] = "replace"
  /\ Goto(r, "insert", task[r])
  /\ UNCHANGED <<need, floors, world, result, audits>>

(* ... whose components are deleted and inserted again.                    *)
DeleteBreakdown(r) ==
  /\ pc[r] = "replace"
  /\ breakdowns' = {b \in breakdowns : b.of # task[r].now}
  /\ Goto(r, "insert", task[r])
  /\ UNCHANGED <<need, floors, world, runs, scores, snapshots, links, audits>>

(* Fault: a request whose score has been replaced inserts nothing.         *)
InsertBreakdown_IfCurrent(r) ==
  /\ pc[r] = "insert"
  /\ breakdowns' = breakdowns \cup {b \in {BreakdownRow(task[r].now, r)} : scores[b.of].from = r}
  /\ Goto(r, IF task[r].todo # {} THEN "score" ELSE IF task[r].run = None THEN "audit" ELSE "snapshots", task[r])
  /\ UNCHANGED <<need, floors, world, runs, scores, snapshots, links, audits>>

InsertBreakdown(r) ==
  /\ pc[r] = "insert"
  /\ breakdowns' = breakdowns \cup {BreakdownRow(task[r].now, r)}
  /\ Goto(r, IF task[r].todo # {} THEN "score" ELSE IF task[r].run = None THEN "audit" ELSE "snapshots", task[r])
  /\ UNCHANGED <<need, floors, world, runs, scores, snapshots, links, audits>>

(* Fault: a run is complete before its links are refreshed.                *)
InsertSnapshots_Completes(r) ==
  /\ \/ pc[r] = "snapshots"
     \/ pc[r] = "score" /\ task[r].todo = {}
  /\ runs' = [runs EXCEPT ![r] = RunRow("complete", task[r].scored)]
  /\ Goto(r, "unlink", task[r])
  /\ UNCHANGED <<need, floors, world, scores, breakdowns, snapshots, links, audits>>

(* A run of no candidate, or of all of them, goes on with its snapshots.   *)
InsertSnapshots(r) ==
  /\ \/ pc[r] = "snapshots"
     \/ pc[r] = "score" /\ task[r].todo = {}
  /\ snapshots' = snapshots \cup {r}
  /\ Goto(r, "unlink", task[r])
  /\ UNCHANGED <<need, floors, world, runs, scores, breakdowns, links, audits>>

(* Fault: links of contracts that do not expire any more stay.             *)
DeleteLinks_None(r) ==
  /\ pc[r] = "unlink"
  /\ Goto(r, "link", task[r])
  /\ UNCHANGED <<need, floors, world, result, audits>>

DeleteLinks(r) ==
  /\ pc[r] = "unlink"
  /\ links' = {}
  /\ Goto(r, "link", task[r])
  /\ UNCHANGED <<need, floors, world, runs, scores, breakdowns, snapshots, audits>>

InsertLinks(r) ==
  /\ pc[r] = "link"
  /\ links' = links \cup LinkRows(expiring, r)
  /\ Goto(r, "complete", task[r])
  /\ UNCHANGED <<need, floors, world, runs, scores, breakdowns, snapshots, audits>>

CompleteRun(r) ==
  /\ pc[r] = "complete"
  /\ runs' = [runs EXCEPT ![r] = RunRow("complete", task[r].scored)]
  /\ Goto(r, "audit", task[r])
  /\ UNCHANGED <<need, floors, world, scores, breakdowns, snapshots, links, audits>>

(* A statement fails: what was written stays, the run is still running.    *)
Fail(r) ==
  /\ r \in Open
  /\ failures < MaxFailures
  /\ failures' = failures + 1
  /\ pc' = [pc EXCEPT ![r] = "failed"]
  /\ task' = [task EXCEPT ![r] = None]
  /\ UNCHANGED <<need, floors, world, result, audits>>

(* The roster and the prospects change meanwhile.                          *)
ChangeGroup(p) ==
  /\ eligible' = IF p \in eligible THEN eligible \ {p} ELSE eligible \cup {p}
  /\ UNCHANGED <<need, floors, expiring, result, audits, pc, task, failures>>

Extend(c) ==
  /\ c \in expiring
  /\ expiring' = expiring \ {c}
  /\ UNCHANGED <<need, floors, eligible, result, audits, pc, task, failures>>

Step(r) ==
  \/ CreateNeed(r) \/ UpdateNeed(r) \/ ClearFloors(r) \/ InsertFloors(r) \/ ReadActive(r) \/ Toggle(r)
  \/ RunFit(r) \/ ComputeFit(r) \/ ReadRequirements(r) \/ Gather(r)
  \/ UpsertScore(r) \/ DeleteBreakdown(r) \/ InsertBreakdown(r)
  \/ InsertSnapshots(r) \/ DeleteLinks(r) \/ InsertLinks(r) \/ CompleteRun(r)
  \/ AuditAndEnd(r)

Next ==
  \/ \E r \in Requests : Step(r) \/ Fail(r)
  \/ \E p \in Prospects : ChangeGroup(p)
  \/ \E c \in Contracts : Extend(c)

Spec == Init /\ [][Next]_vars

(***************************************************************************)
(* Properties.                                                             *)
(***************************************************************************)
TypeOK ==
  /\ need.active \in BOOLEAN
  /\ \A f, g \in floors : f.key = g.key => f = g
  /\ \A p \in Prospects : scores[p] # None => scores[p].from \in Requests
  /\ \A b \in breakdowns : b.of \in Prospects /\ scores[b.of] # None

Quiet == Open = {}

(* Runs that cross may leave a score with the breakdowns of two            *)
(* computations, but none is ever left with none, but for a failure.       *)
NeverUnexplained ==
  Quiet /\ failures = 0 => \A p \in Prospects : scores[p] # None => \E b \in breakdowns : b.of = p

(* A run that says it is complete has stored its depth, and every prospect *)
(* it counts has a score of this need, its own or another run's.           *)
CompleteIsWhole ==
  \A r \in Requests : runs[r] # None /\ runs[r].status = "complete" =>
    r \in snapshots /\ \A p \in runs[r].scored : scores[p] # None

(* "replaces the normalized prospect_fit_components"                       *)
(* (docs/ARCHITECTURE.md:190): between requests a score has the breakdown  *)
(* of its own computation and no other, but for one score per failure.      *)
OneBreakdown ==
  Quiet =>
    Cardinality({p \in Prospects : /\ scores[p] # None
                                   /\ {b \in breakdowns : b.of = p} # {[of |-> p, from |-> scores[p].from]}}) <= failures

(* Between requests the links are those of one run, and each contract is   *)
(* linked once.                                                            *)
LinksOfOneRun == Quiet => \A x, y \in links : x.from = y.from

(* When a run is complete every prospect it has evaluated is ranked by it, *)
(* all under the form of the need and the floors that it has read.         *)
RanksAll(r) ==
  pc[r] = "complete" /\ pc'[r] = "audit" => \A p \in task[r].scored : scores[p] = ScoreRow(task[r], r)

RankedByOneRun == [][\A r \in Requests : RanksAll(r)]_vars
=============================================================================
