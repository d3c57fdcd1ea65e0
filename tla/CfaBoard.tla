------------------------------ MODULE CfaBoard ------------------------------
(***************************************************************************)
(* One college free-agent board: candidates in the order in which they are *)
(* to be signed, with a history of every field (boardService.ts from       *)
(* createCfaBoard on, boardActions.ts from createCfaSchema on).            *)
(*                                                                         *)
(* Entries are never deleted.  No request runs a transaction: each reads,  *)
(* then sends its statements one by one.                                   *)
(***************************************************************************)
EXTENDS Integers, Sequences, FiniteSets, Functions, Roles

CONSTANTS
  Prospects,    \* prospects of the organization
  Agent,        \* Agent[p]: the agent on p's record
  Fields,       \* the fields of an entry that are edited; "staff" may be one
  Values,       \* Values[f]: what an editor may store in f
  FirstMembers, \* the members of the organization to begin with
  Editors,      \* requests that edit the board, each one at a time
  Role,         \* Role[e]: the role of the user whose requests e are
  MaxFailures,  \* bound: requests that fail or die with their server
  MaxEdits,     \* bound: requests begun
  None          \* null


VARIABLES
  status,    \* the board's status
  drafted,   \* the prospects who are drafted by now
  members,   \* the members of the organization
  entries,   \* college_free_agent_entries by prospect
  history,   \* college_free_agent_status_history by prospect, oldest first
  pc,        \* where each request stands
  task,      \* what each request has read and goes on with
  edits,     \* how many requests were begun
  failures   \* how many requests were cut short

rows == <<status, drafted, members, entries, history>>
vars == <<rows, pc, task, edits, failures>>

ContactFields == {"relationship", "contacted", "agent"}
FollowUpFields == {"action", "due", "staff"}

OnBoard == DOMAIN entries
Columns == Fields \cup {"priority"}

Init ==
  /\ status = "active"
  /\ drafted = {}
  /\ members = FirstMembers
  /\ entries = [p \in {} |-> None]
  /\ history = [p \in Prospects |-> <<>>]
  /\ pc = [e \in Editors |-> "idle"]
  /\ task = [e \in Editors |-> None]
  /\ edits = 0 /\ failures = 0

Goto(e, label, data) ==
  /\ pc' = [pc EXCEPT ![e] = label]
  /\ task' = [task EXCEPT ![e] = data]

Step(e, label, data) == Goto(e, label, data) /\ UNCHANGED <<edits, failures>>
Finish(e) == Step(e, "idle", None)

Begin(e) ==
  /\ pc[e] = "idle"
  /\ edits < MaxEdits
  /\ edits' = edits + 1
  /\ UNCHANGED failures

Row(field, old, new) == [field |-> field, old |-> old, new |-> new]

Log(p, events) == history' = [history EXCEPT ![p] = @ \o events]

SetCfaBoardStatus(e, s) ==
  /\ Begin(e)
  /\ status' = s
  /\ UNCHANGED <<drafted, members, entries, history, pc, task>>

-----------------------------------------------------------------------------
AddCfaEntry(e, p) ==
  /\ Begin(e)
  /\ status = "active"
  /\ p \notin drafted
  /\ p \notin OnBoard
  /\ Goto(e, "insert", [prospect |-> p, priority |-> Cardinality(OnBoard) + 1])
  /\ UNCHANGED rows

(* Fault: priorities are counted from zero.                                *)
InsertEntry_FromZero(e) ==
  /\ pc[e] = "insert"
  /\ LET p == task[e].prospect IN
     IF p \in OnBoard THEN Finish(e) /\ UNCHANGED entries
     ELSE /\ entries' = [q \in OnBoard \cup {p} |->
                           IF q # p THEN entries[q]
                           ELSE [f \in Columns |->
                                   CASE f = "priority" -> task[e].priority - 1
                                     [] f = "agent" -> Agent[p]
                                     [] OTHER -> None]]
          /\ Step(e, "log", [prospect |-> p, events |-> <<Row("added", None, p)>>, then |-> <<>>])
  /\ UNCHANGED <<status, drafted, members, history>>

(* The unique index refuses a second row of one prospect.                  *)
InsertEntry(e) ==
  /\ pc[e] = "insert"
  /\ LET p == task[e].prospect IN
     IF p \in OnBoard THEN Finish(e) /\ UNCHANGED entries
     ELSE /\ entries' = [q \in OnBoard \cup {p} |->
                           IF q # p THEN entries[q]
                           ELSE [f \in Columns |->
                                   CASE f = "priority" -> task[e].priority
                                     [] f = "agent" -> Agent[p]
                                     [] OTHER -> None]]
          /\ Step(e, "log", [prospect |-> p, events |-> <<Row("added", None, p)>>, then |-> <<>>])
  /\ UNCHANGED <<status, drafted, members, history>>

(* updateCfaEntry: change[f] is the value given to f; fields left empty in *)
(* the form are not in its domain.                                         *)
UpdateCfaEntry(e, p, change) ==
  LET new == {f \in DOMAIN change : entries[p][f] # change[f]} IN
  /\ Begin(e)
  /\ p \in OnBoard
  /\ status # "archived"
  /\ "staff" \in DOMAIN change => change["staff"] \in members
  /\ new # {}
  /\ \E order \in Bijection(1..Cardinality(new), new) :
       Goto(e, "update",
            [prospect |-> p, change |-> Restrict(change, new), then |-> <<>>,
             events |-> [i \in DOMAIN order |->
                           Row(order[i], entries[p][order[i]], change[order[i]])]])
  /\ UNCHANGED rows

(* Fault: all priorities are stored in one statement, then logged.         *)
StoreEntry_Together(e) ==
  /\ pc[e] = "update"
  /\ LET u == task[e] IN
     entries' = [p \in OnBoard |->
                   [f \in Columns |->
                      IF p = u.prospect /\ f \in DOMAIN u.change THEN u.change[f]
                      ELSE IF f = "priority" /\ \E i \in DOMAIN u.then : u.then[i].prospect = p
                           THEN (CHOOSE m \in Range(u.then) : m.prospect = p).new
                           ELSE entries[p][f]]]
  /\ Step(e, "log", task[e])
  /\ UNCHANGED <<status, drafted, members, history>>

StoreEntry(e) ==
  /\ pc[e] = "update"
  /\ LET u == task[e] IN
     entries' = [entries EXCEPT ![u.prospect] =
                   [f \in Columns |-> IF f \in DOMAIN u.change THEN u.change[f] ELSE @[f]]]
  /\ Step(e, "log", task[e])
  /\ UNCHANGED <<status, drafted, members, history>>

(* The updates of a reorder, one entry at a time.                          *)
StartMove(moves) ==
  [prospect |-> Head(moves).prospect, change |-> [f \in {"priority"} |-> Head(moves).new],
   events |-> <<Row("priority", Head(moves).old, Head(moves).new)>>, then |-> Tail(moves)]

(* Fault: the values are logged the wrong way round.                       *)
LogEntry_Swapped(e) ==
  /\ pc[e] = "log"
  /\ Log(task[e].prospect,
         [i \in DOMAIN task[e].events |->
            Row(task[e].events[i].field, task[e].events[i].new, task[e].events[i].old)])
  /\ IF task[e].then = <<>> THEN Finish(e) ELSE Step(e, "update", StartMove(task[e].then))
  /\ UNCHANGED <<status, drafted, members, entries>>

LogEntry(e) ==
  /\ pc[e] = "log"
  /\ Log(task[e].prospect, task[e].events)
  /\ IF task[e].then = <<>> THEN Finish(e) ELSE Step(e, "update", StartMove(task[e].then))
  /\ UNCHANGED <<status, drafted, members, entries>>

(* Fault: a candidate may be named twice.                                  *)
ReorderCfaPriorities_Partial(e, s) ==
  LET moved == SelectSeq([i \in DOMAIN s |-> i], LAMBDA i : entries[s[i]].priority # i)
      moves == [k \in DOMAIN moved |-> [prospect |-> s[moved[k]], new |-> moved[k],
                                        old |-> entries[s[moved[k]]].priority]]
  IN
  /\ Begin(e)
  /\ status = "active"
  /\ moves # <<>>
  /\ Goto(e, "update", StartMove(moves))
  /\ UNCHANGED rows

(* reorderCfaPriorities with the order s, which names every entry once.    *)
ReorderCfaPriorities(e, s) ==
  LET moved == SelectSeq([i \in DOMAIN s |-> i], LAMBDA i : entries[s[i]].priority # i)
      moves == [k \in DOMAIN moved |-> [prospect |-> s[moved[k]], new |-> moved[k],
                                        old |-> entries[s[moved[k]]].priority]]
  IN
  /\ Begin(e)
  /\ status = "active"
  /\ Range(s) = OnBoard
  /\ moves # <<>>
  /\ Goto(e, "update", StartMove(moves))
  /\ UNCHANGED rows

-----------------------------------------------------------------------------
(* Elsewhere: a prospect is drafted, a member leaves.                      *)
Drafted(p) ==
  /\ drafted' = drafted \cup {p}
  /\ UNCHANGED <<status, members, entries, history, pc, task, edits, failures>>

Leaves(m) ==
  /\ members' = members \ {m}
  /\ UNCHANGED <<status, drafted, entries, history, pc, task, edits, failures>>

Fail(e) ==
  /\ failures < MaxFailures
  /\ pc[e] # "idle"
  /\ Goto(e, "idle", None)
  /\ failures' = failures + 1
  /\ UNCHANGED <<rows, edits>>

-----------------------------------------------------------------------------
(* The server actions: who may begin which request.                        *)

SetCfaBoardStatusAction(e, s) ==
  Can(Role[e], "manage_cfa_boards") /\ SetCfaBoardStatus(e, s)

AddCfaEntryAction(e, p) ==
  Can(Role[e], "manage_cfa_boards") /\ AddCfaEntry(e, p)

(* Contact records and follow-ups have capabilities of their own.          *)
UpdateCfaEntryAction(e, p, change) ==
  /\ Can(Role[e], "manage_cfa_boards")
  /\ DOMAIN change \cap ContactFields # {} => Can(Role[e], "manage_contacts")
  /\ DOMAIN change \cap FollowUpFields # {} => Can(Role[e], "assign_followups")
  /\ UpdateCfaEntry(e, p, change)

ReorderCfaAction(e, s) ==
  Can(Role[e], "manage_cfa_boards") /\ ReorderCfaPriorities(e, s)

Changes == UNION {[S -> UNION {Values[f] : f \in Fields}] : S \in (SUBSET Fields) \ {{}}}

Next ==
  \/ \E e \in Editors :
       \/ \E s \in {"active", "archived"} : SetCfaBoardStatusAction(e, s)
       \/ \E p \in Prospects : AddCfaEntryAction(e, p)
       \/ \E p \in OnBoard, c \in {d \in Changes : \A f \in DOMAIN d : d[f] \in Values[f]} :
            UpdateCfaEntryAction(e, p, c)
       \/ \E s \in [1..Cardinality(OnBoard) -> OnBoard] : ReorderCfaAction(e, s)
       \/ InsertEntry(e) \/ StoreEntry(e) \/ LogEntry(e)
       \/ Fail(e)
  \/ \E p \in Prospects \ drafted : Drafted(p)
  \/ \E m \in members : Leaves(m)

Spec == Init /\ [][Next]_vars

-----------------------------------------------------------------------------
CfaEntryRow(p, row) ==
  /\ DOMAIN row = Columns
  /\ row["priority"] \in Nat \ {0}
  /\ \A f \in Fields : row[f] \in Values[f] \cup {None, Agent[p]}

(* Rows and requests keep their types.                                     *)
TypeOK ==
  /\ status \in {"active", "archived"}
  /\ drafted \subseteq Prospects /\ members \subseteq FirstMembers
  /\ OnBoard \subseteq Prospects
  /\ \A p \in OnBoard : CfaEntryRow(p, entries[p])
  /\ DOMAIN history = Prospects
  /\ DOMAIN pc = Editors /\ DOMAIN task = Editors
  /\ edits \in 0..MaxEdits /\ failures \in 0..MaxFailures

Idle == \A e \in Editors : pc[e] = "idle"

(* Between requests that went through, priorities number the candidates.   *)
PrioritiesDense ==
  Idle /\ failures = 0 =>
    {entries[p].priority : p \in OnBoard} = 1..Cardinality(OnBoard)

(* The rows of p's history about f.                                        *)
About(p, f) == SelectSeq(history[p], LAMBDA h : h.field = f)

(* What the history of p says f is now: the last value logged, and what it *)
(* was when the entry was added if none was.                               *)
Explained(p, f) ==
  LET log == About(p, f) IN
  IF log = <<>> THEN TRUE ELSE entries[p][f] = log[Len(log)].new

(* Each row of a field's history starts from where the one before it ended.*)
Chained(p, f) ==
  LET log == About(p, f) IN
  \A i \in 1..(Len(log) - 1) : log[i].new = log[i + 1].old

(* Between requests that went through, the history of an entry explains    *)
(* every field, change by change, and starts with its being added.         *)
HistoryExplains ==
  Idle /\ failures = 0 =>
    \A p \in OnBoard :
      /\ history[p] # <<>> /\ Head(history[p]).field = "added"
      /\ \A f \in Columns : Explained(p, f) /\ Chained(p, f)

(* A request that fails leaves at most one entry with a change that its    *)
(* history does not explain.                                               *)
UnexplainedPerFailure ==
  Idle => Cardinality({p \in OnBoard : \E f \in Columns : ~Explained(p, f)}) <= failures
=============================================================================
