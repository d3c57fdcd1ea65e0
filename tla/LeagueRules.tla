---------------------------- MODULE LeagueRules -----------------------------
(***************************************************************************)
(* The rules of a league: an edit deactivates the row of a rule and        *)
(* inserts the next version (ruleActions.ts); the cap engine reads the     *)
(* active rows (loadRuleSet in capService.ts).                             *)
(*                                                                         *)
(* An edit reads the rule, then writes in one transaction, then audits.    *)
(* What a transaction has written is in its request's edit until it        *)
(* commits; the row it has updated stays locked until then.                *)
(***************************************************************************)
EXTENDS Integers, FiniteSets, Roles

CONSTANTS
  Keys,         \* the rules, one per season and key
  FirstValue,   \* FirstValue[k]: the value of k when the league was made
  Values,       \* the values an edit may give
  Editors,      \* requests that edit rules, each one at a time
  Role,         \* Role[e]: the role of the user whose requests e are
  MaxVersion,   \* bound: versions of a rule
  MaxFailures,  \* bound: requests that fail or die with their server
  NoEdit        \* null

ASSUME ValuesAssumption == FirstValue \in [Keys -> Int] /\ Values \subseteq Int
ASSUME EditorsAssumption == IsFiniteSet(Editors)

VARIABLES
  rules,     \* the committed rows of league_rules
  changes,   \* the committed rows of rule_versions
  audits,    \* the rows of audit_logs
  editing,   \* where each request stands
  edit,      \* the rule it has read and the value it gives it
  cutShort   \* how many requests were cut short

ruleTables == <<rules, changes, audits>>
ruleVars == <<ruleTables, editing, edit, cutShort>>

RuleRow(k, version, value, active) ==
  [key |-> k, version |-> version, value |-> value, active |-> active]
ChangeRow(k, version, value) == [key |-> k, version |-> version, value |-> value]

RulesInit ==
  /\ rules = {RuleRow(k, 1, FirstValue[k], TRUE) : k \in Keys}
  /\ changes = {}
  /\ audits = {}
  /\ editing = [e \in Editors |-> "idle"]
  /\ edit = [e \in Editors |-> NoEdit]
  /\ cutShort = 0

Turn(e, label, data) ==
  /\ editing' = [editing EXCEPT ![e] = label]
  /\ edit' = [edit EXCEPT ![e] = data]

GoOn(e, label) == Turn(e, label, edit[e]) /\ UNCHANGED cutShort
EndEdit(e) == Turn(e, "idle", NoEdit) /\ UNCHANGED cutShort

Superseded(r) == [r EXCEPT !.active = FALSE]
NextRow(r, value) == RuleRow(r.key, r.version + 1, value, TRUE)

(* loadRuleSet: the values that the rows of k give it, one by one.         *)
LoadRuleSet(k) == {r.value : r \in {x \in rules : x.key = k /\ x.active}}

(* updateRuleAction reads the rule of the form if it is still active.      *)
ReadRule(e, r, value) ==
  /\ editing[e] = "idle"
  /\ Can(Role[e], "admin")
  /\ r.active
  /\ r.version < MaxVersion
  /\ Turn(e, "supersede", [rule |-> r, value |-> value])
  /\ UNCHANGED <<ruleTables, cutShort>>

(* e's transaction has updated its row, and holds its lock.                *)
Holds(e) == editing[e] \in {"insert", "log", "commit"}
SameRow(r, x) == r.key = x.key /\ r.version = x.version

(* The row that e wants to update is locked by another transaction.        *)
RowLocked(e) == \E d \in Editors \ {e} : Holds(d) /\ SameRow(edit[d].rule, edit[e].rule)

Supersede(e) ==
  /\ editing[e] = "supersede"
  /\ ~RowLocked(e)
  /\ GoOn(e, "insert")
  /\ UNCHANGED ruleTables

(* Fault: two rows may have one version.                                   *)
VersionTaken_NoIndex(e) == FALSE

(* The unique index on season, key and version.                            *)
VersionTaken(e) ==
  \E r \in rules : r.key = edit[e].rule.key /\ r.version = edit[e].rule.version + 1

(* A version that is there already ends the transaction and the request.   *)
InsertNext(e) ==
  /\ editing[e] = "insert"
  /\ IF VersionTaken(e) THEN EndEdit(e) ELSE GoOn(e, "log")
  /\ UNCHANGED ruleTables

InsertChange(e) ==
  /\ editing[e] = "log"
  /\ GoOn(e, "commit")
  /\ UNCHANGED ruleTables

(* Fault: the row is given its new value in place.                         *)
CommitEdit_InPlace(e) ==
  LET r == edit[e].rule IN
  /\ editing[e] = "commit"
  /\ rules' = {IF SameRow(x, r) THEN [x EXCEPT !.value = edit[e].value] ELSE x : x \in rules}
  /\ changes' = changes \cup {ChangeRow(r.key, r.version + 1, edit[e].value)}
  /\ GoOn(e, "audit")
  /\ UNCHANGED audits

CommitEdit(e) ==
  LET r == edit[e].rule IN
  /\ editing[e] = "commit"
  /\ rules' = {IF SameRow(x, r) THEN Superseded(x) ELSE x : x \in rules} \cup {NextRow(r, edit[e].value)}
  /\ changes' = changes \cup {ChangeRow(r.key, r.version + 1, edit[e].value)}
  /\ GoOn(e, "audit")
  /\ UNCHANGED audits

AuditEdit(e) ==
  LET r == edit[e].rule IN
  /\ editing[e] = "audit"
  /\ audits' = audits \cup {[key |-> r.key, version |-> r.version, previous |-> r.value,
                             new |-> edit[e].value]}
  /\ EndEdit(e)
  /\ UNCHANGED <<rules, changes>>

(* A statement fails, or the server dies: what is not committed is gone.   *)
CutShort(e) ==
  /\ cutShort < MaxFailures
  /\ editing[e] # "idle"
  /\ Turn(e, "idle", NoEdit)
  /\ cutShort' = cutShort + 1
  /\ UNCHANGED ruleTables

RulesNext ==
  \E e \in Editors :
    \/ \E r \in rules, value \in Values : ReadRule(e, r, value)
    \/ Supersede(e) \/ InsertNext(e) \/ InsertChange(e) \/ CommitEdit(e) \/ AuditEdit(e) \/ CutShort(e)

RulesSpec == RulesInit /\ [][RulesNext]_ruleVars

-----------------------------------------------------------------------------
RuleRows == [key : Keys, version : Nat \ {0}, value : Int, active : BOOLEAN]
ChangeRows == [key : Keys, version : Nat \ {0}, value : Int]
AuditRows == [key : Keys, version : Nat \ {0}, previous : Int, new : Int]
Edits == [rule : RuleRows, value : Values]
EditLabels == {"idle", "supersede", "insert", "log", "commit", "audit"}

(* Rows and requests keep their types.                                     *)
RulesTypeOK ==
  /\ rules \subseteq RuleRows
  /\ changes \subseteq ChangeRows
  /\ audits \subseteq AuditRows
  /\ editing \in [Editors -> EditLabels]
  /\ edit \in [Editors -> Edits \cup {NoEdit}]
  /\ \A e \in Editors : editing[e] # "idle" => edit[e] \in Edits
  /\ cutShort \in Nat

(* Whatever edits cross, a rule has exactly one active row, and it is of   *)
(* the highest version: the cap engine reads one value, the latest.        *)
OneActive ==
  \A k \in Keys :
    \E r \in rules :
      /\ r.key = k /\ r.active
      /\ \A x \in rules : x.key = k /\ x # r => ~x.active /\ x.version < r.version
      /\ LoadRuleSet(k) = {r.value}

(* Each later version of a rule is in the history of rule_versions with    *)
(* its value, once, and nothing else is.                                   *)
ChangesAreVersions ==
  changes = {ChangeRow(r.key, r.version, r.value) : r \in {x \in rules : x.version > 1}}

(* What is audited is what happened: the value the audit says was there is *)
(* that of the version it names, and the new one that of the version after *)
(* it.  An edit that lost against another is not audited.                  *)
HasValue(k, version, value) ==
  \E r \in rules : r.key = k /\ r.version = version /\ r.value = value

AuditTrue ==
  \A a \in audits : HasValue(a.key, a.version, a.previous) /\ HasValue(a.key, a.version + 1, a.new)

(* A change is not audited only while its request is under way, or if that *)
(* request was cut short after its commit.                                 *)
Unaudited == {c \in changes : ~\E a \in audits : a.key = c.key /\ a.version + 1 = c.version}
Auditing == {e \in Editors : editing[e] = "audit"}

AuditedButForFailures == Cardinality(Unaudited) <= cutShort + Cardinality(Auditing)

(* Whatever edits cross, rows keep their types, a rule has one active row, *)
(* its latest, the history has each later version, and the audit says what *)
(* happened, but for requests that died ("rule edits never overwrite ...   *)
(* keeping the full version history queryable", ruleActions.ts).           *)
RulesTold == RulesTypeOK /\ OneActive /\ ChangesAreVersions /\ AuditTrue /\ AuditedButForFailures

(* An edit never overwrites: no row of a rule goes or gets another value,  *)
(* and a superseded one does not become active again.                      *)
Persists(r) ==
  \E x \in rules' : SameRow(x, r) /\ x.value = r.value /\ (x.active => r.active)

NeverOverwritten == [][\A r \in rules : Persists(r)]_ruleVars
=============================================================================
