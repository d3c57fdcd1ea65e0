--------------------------- MODULE SharedReports ----------------------------
(***************************************************************************)
(* Links to frozen reports (reportService.ts, reportActions.ts): one who   *)
(* may edit generates a report of a team and its link, anyone with the     *)
(* link reads it, and one who may edit revokes it.                         *)
(*                                                                         *)
(* A report is made from several reads of live records, before the one     *)
(* transaction that stores it; reading and revoking are statements of no   *)
(* transaction. The random token of a link is the identity of its report:  *)
(* nobody has a token that was not made. What the cap engine makes of the  *)
(* records is CapEngine's subject: here a section's content is the         *)
(* versions of the records that were read for it.                          *)
(***************************************************************************)
EXTENDS Roles, FiniteSetsExt, SequencesExt

CONSTANTS
  Orgs, Teams, Users,
  Requests,      \* requests, each made once
  OrgOf,         \* OrgOf[t]: the organization a team is of
  SeasonsOf,     \* SeasonsOf[t]: the seasons of a team's league
  Role,          \* Role[u]: the role of a user in every organization he is a member of
  MaxEdits,      \* bound: how often the records change
  MaxFailures,   \* bound: requests that die
  None           \* null

VARIABLES
  members,       \* the organizations each user is a member of
  records,       \* records[t]: the version of a team's contracts, obligations and rules
  reports,       \* rows of reports
  sections,      \* rows of report_sections
  audits,        \* rows of audit_logs
  views,         \* what readers of links have been shown
  failures,      \* requests that have died
  pc, task       \* where each request stands, and what it goes on with

vars == <<members, records, reports, sections, audits, views, failures, pc, task>>

Init ==
  /\ members = [u \in Users |-> Orgs]
  /\ records = [t \in Teams |-> 0]
  /\ reports = {} /\ sections = {} /\ audits = {} /\ views = {}
  /\ failures = 0
  /\ pc = [r \in Requests |-> "idle"]
  /\ task = [r \in Requests |-> None]

Goto(r, label, data) == pc' = [pc EXCEPT ![r] = label] /\ task' = [task EXCEPT ![r] = data]

AllSeasons == UNION {SeasonsOf[t] : t \in Teams}

Access(u, o) == o \in members[u] /\ Can(Role[u], "edit_data")

(* createShareLinkAction: a season of the team's league or any other.      *)
Create(r) ==
  /\ pc[r] = "idle"
  /\ \E u \in Users, o \in Orgs, t \in Teams, s \in AllSeasons :
       /\ Access(u, o)
       /\ IF OrgOf[t] = o
          THEN Goto(r, "contracts", [user |-> u, org |-> o, team |-> t, season |-> s, since |-> records[t],
                                      contracts |-> 0, rules |-> 0])
          ELSE Goto(r, "done", None)
  /\ UNCHANGED <<members, records, reports, sections, audits, views, failures>>

(* getTeamCapReport: the contracts, and the rest after them.               *)
ReadContracts(r) ==
  /\ pc[r] = "contracts"
  /\ Goto(r, "rules", [task[r] EXCEPT !.contracts = records[task[r].team]])
  /\ UNCHANGED <<members, records, reports, sections, audits, views, failures>>

ReadRules(r) ==
  /\ pc[r] = "rules"
  /\ IF task[r].season \in SeasonsOf[task[r].team]
     THEN Goto(r, "insert", [task[r] EXCEPT !.rules = records[task[r].team]])
     ELSE Goto(r, "done", None)
  /\ UNCHANGED <<members, records, reports, sections, audits, views, failures>>

SectionTypes == <<"summary", "line_items", "commitments", "compliance", "disclaimer">>

(* All but the disclaimer are of the seasons computed from what was read.  *)
Content(type, t) ==
  CASE type = "disclaimer" -> <<>>
    [] type = "commitments" -> <<SeasonsOf[t.team], t.contracts, t.rules>>
    [] OTHER -> <<{t.season}, t.contracts, t.rules>>

ReportRow(id, t) ==
  [id |-> id, org |-> t.org, team |-> t.team, season |-> t.season, by |-> t.user, token |-> id]

SectionRow(id, t, i) ==
  [report |-> id, order |-> i, type |-> SectionTypes[i], content |-> Content(SectionTypes[i], t)]

(* generateRosterShareReport: the report, its sections and the audit row   *)
(* are of one transaction.                                                 *)
Insert(r) ==
  /\ pc[r] = "insert"
  /\ reports' = reports \cup {ReportRow(r, task[r])}
  /\ sections' = sections \cup {SectionRow(r, task[r], i) : i \in DOMAIN SectionTypes}
  /\ audits' = audits \cup {[action |-> "report.share_create", by |-> r, report |-> r, org |-> task[r].org]}
  /\ Goto(r, "done", task[r])
  /\ UNCHANGED <<members, records, views, failures>>

(* getSharedReport: the report that has the token, or nothing ...          *)
OpenLink(r) ==
  /\ pc[r] = "idle"
  /\ \E link \in {x.id : x \in reports} :
       \/ \E x \in reports : x.token = link /\ Goto(r, "sections", [report |-> x])
       \/ (\A x \in reports : x.token # link) /\ Goto(r, "done", None)
  /\ UNCHANGED <<members, records, reports, sections, audits, views, failures>>

(* ... and its sections in their order.                                    *)
ReadSections(r) ==
  LET own == {s \in sections : s.report = task[r].report.id} IN
  /\ pc[r] = "sections"
  /\ views' = views \cup {[by |-> r, report |-> task[r].report,
                           sections |-> SetToSortSeq(own, LAMBDA a, b : a.order < b.order)]}
  /\ Goto(r, "done", None)
  /\ UNCHANGED <<members, records, reports, sections, audits, failures>>

(* revokeShareLinkAction, revokeShareReport: a report of the organization, *)
(* whether its link still stands or not; the token is cleared and then the *)
(* audit row written.                                                      *)
Revoke(r) ==
  /\ pc[r] = "idle"
  /\ \E u \in Users, o \in Orgs, x \in reports :
       /\ Access(u, o)
       /\ IF x.org = o THEN Goto(r, "clear", [user |-> u, org |-> o, report |-> x]) ELSE Goto(r, "done", None)
  /\ UNCHANGED <<members, records, reports, sections, audits, views, failures>>

ClearToken(r) ==
  /\ pc[r] = "clear"
  /\ reports' = {IF x.id = task[r].report.id THEN [x EXCEPT !.token = None] ELSE x : x \in reports}
  /\ Goto(r, "audit", task[r])
  /\ UNCHANGED <<members, records, sections, audits, views, failures>>

AuditRevocation(r) ==
  /\ pc[r] = "audit"
  /\ audits' = audits \cup {[action |-> "report.share_revoke", by |-> r, report |-> task[r].report.id,
                             org |-> task[r].org]}
  /\ Goto(r, "done", None)
  /\ UNCHANGED <<members, records, reports, sections, views, failures>>

(* The server stops, or the database fails, before a request's next write. *)
Die(r) ==
  /\ pc[r] \notin {"idle", "done"} /\ failures < MaxFailures
  /\ failures' = failures + 1
  /\ Goto(r, "done", None)
  /\ UNCHANGED <<members, records, reports, sections, audits, views>>

(* The records of a team are edited; members leave.                        *)
Edit(t) ==
  /\ records[t] < MaxEdits
  /\ records' = [records EXCEPT ![t] = @ + 1]
  /\ UNCHANGED <<members, reports, sections, audits, views, failures, pc, task>>

Leave(u, o) ==
  /\ o \in members[u]
  /\ members' = [members EXCEPT ![u] = @ \ {o}]
  /\ UNCHANGED <<records, reports, sections, audits, views, failures, pc, task>>

Step(r) ==
  \/ Create(r) \/ ReadContracts(r) \/ ReadRules(r) \/ Insert(r)
  \/ OpenLink(r) \/ ReadSections(r)
  \/ Revoke(r) \/ ClearToken(r) \/ AuditRevocation(r) \/ Die(r)

Next ==
  \/ \E r \in Requests : Step(r)
  \/ \E t \in Teams : Edit(t)
  \/ \E u \in Users, o \in Orgs : Leave(u, o)

Spec == Init /\ [][Next]_vars

(***************************************************************************)
(* Properties.                                                             *)
(***************************************************************************)
SectionsOf(id) == {s \in sections : s.report = id}

(* A report is of a team of its organization and a season of its league.   *)
ReportsOwn == \A x \in reports : OrgOf[x.team] = x.org /\ x.season \in SeasonsOf[x.team]

(* And a link shows, whatever was edited since and whoever revokes it      *)
(* meanwhile, the sections its creator stored, all of them and in order.   *)
FrozenAndOwn ==
  /\ ReportsOwn
  /\ \A v \in views :
       /\ [i \in DOMAIN v.sections |-> v.sections[i].type] = SectionTypes
       /\ ToSet(v.sections) = SectionsOf(v.report.id)

(* A report is of records no older than the request that made it, and no   *)
(* two of its sections are of different reads.                             *)
OfOneRequest ==
  \A r \in Requests : \A s, z \in SectionsOf(r) :
    s.type # "disclaimer" =>
      /\ task[r].since <= s.content[2] /\ s.content[2] <= s.content[3]
      /\ s.content[3] <= records[task[r].team]
      /\ z.type # "disclaimer" => Tail(s.content) = Tail(z.content)

(* Every report has the audit row of its creation, of its organization,    *)
(* and a link no longer stands only where a revocation is in the audit     *)
(* log, is about to be or was lost with its request.                       *)
SharingAudited ==
  /\ \A x \in reports : \E a \in audits : a.action = "report.share_create" /\ a.report = x.id /\ a.org = x.org
  /\ Cardinality({a \in audits : a.action = "report.share_create"}) = Cardinality(reports)
  /\ Cardinality({x \in reports : x.token = None /\ ~\E a \in audits : a.action = "report.share_revoke" /\ a.report = x.id})
       <= Cardinality({r \in Requests : pc[r] = "audit"}) + failures

(* A snapshot never changes and a link once revoked never stands again: a  *)
(* view that ends begins before the revocation.                            *)
NeverBack ==
  /\ sections \subseteq sections'
  /\ \A s \in sections' \ sections : ~\E x \in reports : x.id = s.report
  /\ \A x \in reports : \E y \in reports' : y = x \/ y = [x EXCEPT !.token = None]

LinksStayRevoked == [][NeverBack]_vars
=============================================================================
