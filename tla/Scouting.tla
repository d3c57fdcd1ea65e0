------------------------------ MODULE Scouting ------------------------------
(***************************************************************************)
(* The scouts' work on an organization's prospects (scoutingActions.ts):   *)
(* roles, reports, watchlists, assignments and saved views; the role       *)
(* scores each visit of a profile page computes and stores                 *)
(* (scoutingService.ts); and what a fit then reads of a prospect           *)
(* (fitService.ts).                                                        *)
(*                                                                         *)
(* A request begins with the membership and the ownership it checks; its   *)
(* writes are steps of their own, with no transaction. Seasons are 1, 2,   *)
(* ... in the order of their names. What the engine makes of a season's    *)
(* line is ScoutingStats' subject: here a line's version is what its       *)
(* scores are of, and Computable says which roles it has a score for.      *)
(***************************************************************************)
EXTENDS Roles, FiniteSetsExt, SequencesExt

CONSTANTS
  Orgs, Prospects, Users, Archetypes,
  Requests,    \* requests, each made once
  OrgOf,       \* OrgOf[p]: the organization whose prospect p is
  Role,        \* Role[u]: the role of a user in every organization he is a member of
  Kinds,       \* the kinds of request made
  Seasons,     \* 1..n, the seasons lines may be of
  MaxVersion,  \* bound: how often a line is imported
  MaxOpen,     \* bound: requests in progress at once
  None         \* null


VARIABLES
  members,      \* the organizations each user is a member of
  lines,        \* lines[p][s]: the version of p's line of season s, 0 for none
  scores,       \* rows of prospect_role_scores
  assigned,     \* assigned[p]: the role the scouts have given p
  reports,      \* rows of scouting_reports, oldest first
  lists,        \* rows of prospect_watchlists
  entries,      \* rows of prospect_watchlist_members
  assignments,  \* rows of scouting_assignments
  views,        \* rows of saved_views
  audits,       \* the requests audited
  pc, task      \* where each request stands, and what it goes on with

tables == <<scores, assigned, reports, lists, entries, assignments, views>>
vars == <<members, lines, tables, audits, pc, task>>

(* The rows of the tables; t is what a request goes on with.               *)
NoLines == [p \in Prospects |-> [s \in Seasons |-> 0]]
ReportRow(id, t, scale, graded) ==
  [id |-> id, org |-> t.org, prospect |-> t.prospect, by |-> t.user, scale |-> scale, graded |-> graded]
ListRow(id, t) == [id |-> id, org |-> t.org]
EntryRow(id, t) == [id |-> id, list |-> t.list, prospect |-> t.prospect]
AssignmentRow(id, t) == [id |-> id, org |-> t.org, scout |-> t.scout, prospect |-> t.prospect]
ViewRow(id, t) == [id |-> id, org |-> t.org, user |-> t.user]
ScoreRow(a, t) == [prospect |-> t.prospect, role |-> a, season |-> t.season, version |-> t.version]

Init ==
  /\ members = [u \in Users |-> Orgs]
  /\ lines = NoLines
  /\ assigned = [p \in Prospects |-> None]
  /\ reports = <<>>
  /\ scores = {} /\ lists = {} /\ entries = {} /\ assignments = {} /\ views = {} /\ audits = {}
  /\ pc = [r \in Requests |-> "idle"]
  /\ task = [r \in Requests |-> None]

Open == {r \in Requests : pc[r] \notin {"idle", "done"}}

Capability ==
  [roles |-> "edit_prospects", report |-> "create_scouting_reports", watch |-> "manage_watchlists",
   unwatch |-> "manage_watchlists", assign |-> "assign_scouts", profile |-> "read"]
    @@ [k \in {"new list"} |-> "manage_watchlists"] @@ [k \in {"save view", "delete view"} |-> "view_scouting"]

Goto(r, label, data) == pc' = [pc EXCEPT ![r] = label] /\ task' = [task EXCEPT ![r] = data]

(* What a request goes on with: who made it, for whom, and what it finds.  *)
Task(u, o, p) ==
  [user |-> u, org |-> o, prospect |-> p, list |-> None, member |-> None, scout |-> None,
   todo |-> {}, season |-> None, version |-> 0]

(* Fault: any prospect will do.                                            *)
Owned_Any(p, o) == TRUE

(* ownedProspect, getOwnedProspect                                         *)
Owned(p, o) == OrgOf[p] = o

(* requireOrgAccess, then the prospect the form names.                     *)
Begin(r) ==
  /\ pc[r] = "idle"
  /\ Cardinality(Open) < MaxOpen
  /\ \E k \in Kinds, u \in Users, o \in Orgs, p \in Prospects :
       /\ o \in members[u] /\ Can(Role[u], Capability[k])
       /\ k \in {"roles", "report", "watch", "new list", "assign", "profile"} => Owned(p, o)
       /\ Goto(r, k, Task(u, o, p))
  /\ UNCHANGED <<members, lines, tables, audits>>

Audit(r) ==
  /\ pc[r] = "audit"
  /\ audits' = audits \cup {r}
  /\ Goto(r, "done", None)
  /\ UNCHANGED <<members, lines, tables>>

(* setScoutRolesAction                                                     *)
SetScoutRoles(r) ==
  /\ pc[r] = "roles"
  /\ \E a \in Archetypes \cup {None} : assigned' = [assigned EXCEPT ![task[r].prospect] = a]
  /\ Goto(r, "audit", task[r])
  /\ UNCHANGED <<members, lines, scores, reports, lists, entries, assignments, views, audits>>

Scales == {"20-80", "1-10"}

(* createScoutingReportAction: the grades are of the scale of the form;    *)
(* a report may leave every section ungraded.                              *)
CreateReport(r) ==
  /\ pc[r] = "report"
  /\ \E scale \in Scales, graded \in BOOLEAN :
       reports' = Append(reports, ReportRow(r, task[r], scale, graded))
  /\ Goto(r, "audit", task[r])
  /\ UNCHANGED <<members, lines, scores, assigned, lists, entries, assignments, views, audits>>

(* addToWatchlistAction: a list of the organization, or a new one ...      *)
NewWatchlist(r) ==
  /\ pc[r] = "new list"
  /\ lists' = lists \cup {ListRow(r, task[r])}
  /\ Goto(r, "add", [task[r] EXCEPT !.list = r])
  /\ UNCHANGED <<members, lines, scores, assigned, reports, entries, assignments, views, audits>>

(* Fault: a list of any organization.                                      *)
FindWatchlist_Any(r) ==
  /\ pc[r] = "watch"
  /\ \E l \in lists : Goto(r, "add", [task[r] EXCEPT !.list = l.id])
  /\ UNCHANGED <<members, lines, tables, audits>>

FindWatchlist(r) ==
  /\ pc[r] = "watch"
  /\ \/ \E l \in lists : l.org = task[r].org /\ Goto(r, "add", [task[r] EXCEPT !.list = l.id])
     \/ Goto(r, "done", None)
  /\ UNCHANGED <<members, lines, tables, audits>>

(* Fault: no unique index on the list and the prospect.                    *)
Listed_NoIndex(list, p) == {}

Listed(list, p) == {e \in entries : e.list = list /\ e.prospect = p}

(* ... on which the prospect is put, unless he is there.                   *)
AddMember(r) ==
  /\ pc[r] = "add"
  /\ entries' = IF Listed(task[r].list, task[r].prospect) # {} THEN entries
                ELSE entries \cup {EntryRow(r, task[r])}
  /\ Goto(r, "audit", task[r])
  /\ UNCHANGED <<members, lines, scores, assigned, reports, lists, assignments, views, audits>>

OrgOfList(id) == (CHOOSE l \in lists : l.id = id).org

(* removeFromWatchlistAction: the row must be on a list of the             *)
(* organization; another request may remove it before this one does.       *)
FindMember(r) ==
  /\ pc[r] = "unwatch"
  /\ \/ \E e \in entries : OrgOfList(e.list) = task[r].org /\ Goto(r, "remove", [task[r] EXCEPT !.member = e.id])
     \/ Goto(r, "done", None)
  /\ UNCHANGED <<members, lines, tables, audits>>

RemoveMember(r) ==
  /\ pc[r] = "remove"
  /\ entries' = {e \in entries : e.id # task[r].member}
  /\ Goto(r, "audit", task[r])
  /\ UNCHANGED <<members, lines, scores, assigned, reports, lists, assignments, views, audits>>

(* createAssignmentAction: the scout is a member when he is looked up.     *)
FindScout(r) ==
  /\ pc[r] = "assign"
  /\ \/ Goto(r, "insert assignment", task[r])
     \/ \E u \in Users : task[r].org \in members[u] /\ Goto(r, "insert assignment", [task[r] EXCEPT !.scout = u])
     \/ Goto(r, "done", None)
  /\ UNCHANGED <<members, lines, tables, audits>>

InsertAssignment(r) ==
  /\ pc[r] = "insert assignment"
  /\ assignments' = assignments \cup {AssignmentRow(r, task[r])}
  /\ Goto(r, "audit", task[r])
  /\ UNCHANGED <<members, lines, scores, assigned, reports, lists, entries, views, audits>>

(* saveScoutingViewAction, deleteScoutingViewAction: his own views only;   *)
(* a deletion is not audited.                                              *)
SaveView(r) ==
  /\ pc[r] = "save view"
  /\ views' = views \cup {ViewRow(r, task[r])}
  /\ Goto(r, "audit", task[r])
  /\ UNCHANGED <<members, lines, scores, assigned, reports, lists, entries, assignments, audits>>

(* Fault: any view of the organization.                                    *)
Deletable_Orgs(v, t) == v.org = t.org

Deletable(v, t) == v.org = t.org /\ v.user = t.user

DeleteView(r) ==
  /\ pc[r] = "delete view"
  /\ \E id \in Requests : views' = {v \in views : ~(v.id = id /\ Deletable(v, task[r]))}
  /\ Goto(r, "done", None)
  /\ UNCHANGED <<members, lines, scores, assigned, reports, lists, entries, assignments, audits>>

(***************************************************************************)
(* The profile page: role scores of the latest season.                     *)
(***************************************************************************)
(* Fault: a season without a line counts.                                  *)
Played_All(p) == Seasons

Played(p) == {s \in Seasons : lines[p][s] > 0}

(* The roles a line has a score for: an import may take data away.         *)
Computable(version) == IF version % 2 = 1 THEN Archetypes ELSE {a \in Archetypes : a # CHOOSE x \in Archetypes : TRUE}

(* computeRoleScores reads the seasons, the pool and the weights ...       *)
ReadSeasons(r) ==
  LET p == task[r].prospect IN
  /\ pc[r] = "profile"
  /\ IF Played(p) = {} THEN Goto(r, "done", None)
     ELSE LET s == Max(Played(p)) IN
          Goto(r, "store", [task[r] EXCEPT !.season = s, !.version = lines[p][s], !.todo = Computable(lines[p][s])])
  /\ UNCHANGED <<members, lines, tables, audits>>

Same(x, row) == x.prospect = row.prospect /\ x.role = row.role /\ x.season = row.season

(* Fault: a score that is there is left as it is.                          *)
Upsert_DoNothing(row) == IF \E x \in scores : Same(x, row) THEN scores ELSE scores \cup {row}

(* Fault: no unique index.                                                 *)
Upsert_Beside(row) == scores \cup {row}

Upsert(row) == {x \in scores : ~Same(x, row)} \cup {row}

(* ... and stores one score after the other; a role without a score keeps  *)
(* the row it may have.                                                    *)
StoreScore(r) ==
  /\ pc[r] = "store"
  /\ \E a \in task[r].todo :
       /\ scores' = Upsert(ScoreRow(a, task[r]))
       /\ Goto(r, IF task[r].todo = {a} THEN "done" ELSE "store", [task[r] EXCEPT !.todo = @ \ {a}])
  /\ UNCHANGED <<members, lines, assigned, reports, lists, entries, assignments, views, audits>>

(* Season statistics are imported; members leave.                          *)
ImportLine(p, s) ==
  /\ lines[p][s] < MaxVersion
  /\ lines' = [lines EXCEPT ![p][s] = @ + 1]
  /\ UNCHANGED <<members, tables, audits, pc, task>>

Leave(u, o) ==
  /\ o \in members[u]
  /\ members' = [members EXCEPT ![u] = @ \ {o}]
  /\ UNCHANGED <<lines, tables, audits, pc, task>>

Step(r) ==
  \/ Begin(r) \/ SetScoutRoles(r) \/ CreateReport(r)
  \/ NewWatchlist(r) \/ FindWatchlist(r) \/ AddMember(r) \/ FindMember(r) \/ RemoveMember(r)
  \/ FindScout(r) \/ InsertAssignment(r) \/ SaveView(r) \/ DeleteView(r)
  \/ ReadSeasons(r) \/ StoreScore(r) \/ Audit(r)

Next ==
  \/ \E r \in Requests : Step(r)
  \/ \E p \in Prospects, s \in Seasons : ImportLine(p, s)
  \/ \E u \in Users, o \in Orgs : Leave(u, o)

Spec == Init /\ [][Next]_vars

(***************************************************************************)
(* What a fit reads of a prospect (assembleProspectInputs).                *)
(***************************************************************************)
ReportsOn(p) == SelectSeq(reports, LAMBDA x : x.org = OrgOf[p] /\ x.prospect = p)

(* Grades are null when the latest report has none.                        *)
FitInput(p) ==
  LET latest == IF ReportsOn(p) = <<>> THEN None ELSE Last(ReportsOn(p))
  IN  [season |-> IF Played(p) = {} THEN None ELSE Max(Played(p)),
       scoutRole |-> assigned[p],
       roleScores |-> {x \in scores : x.prospect = p},
       report |-> latest,
       grades |-> IF latest = None THEN None ELSE IF latest.graded THEN latest.scale ELSE None]

(***************************************************************************)
(* Properties.                                                             *)
(***************************************************************************)
TypeOK ==
  /\ \A x \in scores : x.prospect \in Prospects /\ x.version \in 1..MaxVersion /\ x.season \in Seasons
  /\ \A e \in entries : \E l \in lists : l.id = e.list
  /\ \A p \in Prospects : assigned[p] \in Archetypes \cup {None}
  /\ \A r \in Requests : pc[r] = "idle" => task[r] = None

(* No row ties a prospect to another organization than his: reports,       *)
(* assignments and watchlists, whichever request of whichever organization *)
(* wrote which part of it.                                                 *)
OwnRowsOnly ==
  /\ \A i \in DOMAIN reports : reports[i].org = OrgOf[reports[i].prospect]
  /\ \A a \in assignments : a.org = OrgOf[a.prospect]
  /\ \A e \in entries : OrgOfList(e.list) = OrgOf[e.prospect]

(* Requests that cross put a prospect on a watchlist once.                 *)
ListedOnce == \A e, f \in entries : e.list = f.list /\ e.prospect = f.prospect => e = f

(* Two visits of a page at once leave one score per role and season, and a *)
(* visit that has ended has stored every score of the line it has read, or *)
(* found that of another visit's.                                          *)
OneScorePerRole ==
  /\ \A x, y \in scores : x.prospect = y.prospect /\ x.role = y.role /\ x.season = y.season => x = y
  /\ \A r \in Requests : pc[r] = "store" =>
       \A a \in Computable(task[r].version) \ task[r].todo :
         \E x \in scores : x.prospect = task[r].prospect /\ x.role = a /\ x.season = task[r].season

(* A visit that has not crossed another leaves the scores of the line it  *)
(* has read: none of an older line is left among those it has computed.    *)
Refreshes(r) ==
  pc[r] = "store" /\ pc'[r] = "done" =>
    \A a \in Computable(task[r].version), x \in scores' :
      x.prospect = task[r].prospect /\ x.role = a /\ x.season = task[r].season => x.version = task[r].version

VisitRefreshes == [][\A r \in Requests : Refreshes(r)]_vars

(* Views are deleted by who has saved them.                                *)
DeletedByOwner(v) == \E r \in Requests : pc[r] = "delete view" /\ pc'[r] = "done" /\ task[r].user = v.user

OwnViewsOnly == [][\A v \in views \ views' : DeletedByOwner(v)]_vars
=============================================================================
