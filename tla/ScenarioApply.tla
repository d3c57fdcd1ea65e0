--------------------------- MODULE ScenarioApply ---------------------------
(***************************************************************************)
(* Scenarios being edited and applied while the official records are       *)
(* edited too (scenarioActions.ts, applyService.ts, contractActions.ts).   *)
(*                                                                         *)
(* A request is one server action at work: its statements interleave with  *)
(* those of the others.  The apply runs the projection gate, checks the    *)
(* scenario's status, reads its moves, and then runs one transaction:      *)
(* every move loads its contract and writes, then the scenario is marked   *)
(* applied.  Until it commits, what a transaction wrote is in mine and     *)
(* only it sees it; the rows it updated are locked.                        *)
(*                                                                         *)
(* Exclusive says which database runs: TRUE is the embedded PGlite, where  *)
(* a transaction excludes every other statement; FALSE is Postgres at READ *)
(* COMMITTED, where every statement sees what has been committed.          *)
(***************************************************************************)
EXTENDS Projector

CONSTANTS
  Requests,       \* server actions that take several statements
  Scenarios,      \* the scenarios
  Exclusive,      \* does a transaction exclude other statements?
  Rules,          \* Rules[s]: the active rules of season s
  Base,           \* the scenarios' base season
  Officials,      \* the official records to start from
  Plans,          \* Plans[s]: the moves scenario s holds to begin with
  RowIds,         \* ids of scenario transactions
  Editable,       \* the scenarios whose moves are edited
  EditMoves,      \* the moves a user may add
  MaxRows,        \* bound: scenario transactions per scenario
  NewRows,        \* the season rows of a contract added by hand
  Signable,       \* the players a contract may be added for by hand
  Terminable,     \* the contracts that may be terminated by hand
  StatusEdits,    \* the roster statuses a user may set by hand
  ScenarioEdits   \* the statuses a user may give a scenario

ASSUME ExclusiveAssumption == Exclusive \in BOOLEAN
ASSUME BaseAssumption == Base \in Seasons
ASSUME OfficialsAssumption == \A d \in Officials : RecordsOK(d, Requests) /\ Consistent(d) /\ Logged(d) /\ d.log = <<>>
ASSUME PlansAssumption ==
  /\ DOMAIN Plans = Scenarios
  /\ \A s \in Scenarios :
       Plans[s] \in Seq([id : RowIds, order : Nat, move : {Plans[s][i].move : i \in DOMAIN Plans[s]},
                        enabled : BOOLEAN])
ASSUME EditsAssumption ==
  /\ NewRows \in SeasonRows
  /\ StatusEdits \subseteq RosterStatuses
  /\ Signable \subseteq Players
  /\ Terminable \subseteq Contracts
  /\ Editable \subseteq Scenarios

(* Every move a scenario may hold.                                         *)
AllMoves == EditMoves \cup UNION {{Plans[s][i].move : i \in DOMAIN Plans[s]} : s \in Scenarios}

ScenarioStatuses == {"draft", "active", "archived", "applied"}

VARIABLES
  db,        \* the committed official records
  status,    \* the status of each scenario
  rows,      \* rows[s]: the scenario's transactions, in order of creation
  pc,        \* where each request stands
  scn,       \* the scenario a request works on
  plan,      \* the moves an apply has read
  at,        \* which of them the transaction is at
  loaded,    \* what a request read and is about to use
  mine       \* what a request's open transaction wrote

vars == <<db, status, rows, pc, scn, plan, at, loaded, mine>>

NoWrites == [contracts |-> <<>>, players |-> <<>>, obligations |-> {}, log |-> <<>>]

Init ==
  /\ db \in Officials
  /\ status = [s \in Scenarios |-> "draft"]
  /\ rows = Plans
  /\ pc = [r \in Requests |-> "idle"]
  /\ scn = [r \in Requests |-> None]
  /\ plan = [r \in Requests |-> <<>>]
  /\ at = [r \in Requests |-> 0]
  /\ loaded = [r \in Requests |-> None]
  /\ mine = [r \in Requests |-> NoWrites]

-----------------------------------------------------------------------------
(* The database.                                                           *)

Open(r) == pc[r] \in {"load", "write"}

(* Fault: nothing waits for an open transaction.                           *)
MayRun_Anytime(r) == TRUE

(* May r's next statement run?                                             *)
MayRun(r) == Exclusive => \A q \in Requests \ {r} : ~Open(q)

(* A statement of a request that is over before the next one begins.       *)
MayRunAlone == Exclusive => \A q \in Requests : ~Open(q)

ContractLocked(c, r) == \E q \in Requests \ {r} : c \in DOMAIN mine[q].contracts
PlayerLocked(p, r) == \E q \in Requests \ {r} : p \in DOMAIN mine[q].players

(* What r's transaction sees: the committed rows under its own writes.     *)
Over(new, old) == [x \in DOMAIN new \cup DOMAIN old |-> IF x \in DOMAIN new THEN new[x] ELSE old[x]]

View(r) ==
  [contracts |-> Over(mine[r].contracts, db.contracts),
   players |-> Over(mine[r].players, db.players),
   obligations |-> db.obligations \cup mine[r].obligations,
   log |-> db.log \o mine[r].log]

(* The writes that lead from the committed records to a view.              *)
Overlay(r, view) ==
  LET Changed(new, old, held) == [x \in {y \in DOMAIN new : new[y] # old[y]} \cup held |-> new[x]]
  IN  [contracts |-> Changed(view.contracts, db.contracts, DOMAIN mine[r].contracts),
       players |-> Changed(view.players, db.players, DOMAIN mine[r].players),
       obligations |-> view.obligations \ db.obligations,
       log |-> SubSeq(view.log, Len(db.log) + 1, Len(view.log))]

(* Fault: a refused transaction is not rolled back and keeps its locks.    *)
End_KeepsLocks(r, outcome) ==
  /\ pc' = [pc EXCEPT ![r] = outcome]
  /\ loaded' = [loaded EXCEPT ![r] = None]
  /\ mine' = IF outcome = "refused" THEN mine ELSE [mine EXCEPT ![r] = NoWrites]

End(r, outcome) ==
  /\ pc' = [pc EXCEPT ![r] = outcome]
  /\ loaded' = [loaded EXCEPT ![r] = None]
  /\ mine' = [mine EXCEPT ![r] = NoWrites]

Goto(r, label) ==
  /\ pc' = [pc EXCEPT ![r] = label]
  /\ UNCHANGED mine

-----------------------------------------------------------------------------
(* Applying a scenario: applyScenarioAction, then applyScenario.           *)

(* The enabled moves by sortOrder; createdAt decides between equals.       *)
EnabledMoves(s) ==
  LET enabled == {i \in DOMAIN rows[s] : rows[s][i].enabled}
      UpTo(i) == {j \in enabled : \/ rows[s][j].order < rows[s][i].order
                                  \/ rows[s][j].order = rows[s][i].order /\ j <= i}
  IN  [n \in 1..Cardinality(enabled) |-> rows[s][CHOOSE i \in enabled : Cardinality(UpTo(i)) = n].move]

AllParsed(moves) == \A i \in DOMAIN moves : Parsed(moves[i])

(* The server-side projection: refuses while the base season has blocking  *)
(* violations, or a move does not parse.                                   *)
Gate(r, s) ==
  /\ pc[r] = "idle"
  /\ MayRun(r)
  /\ LET moves == EnabledMoves(s)
         projected == CalculateCap(Project(CapInputs(db), moves)[Base], Rules[Base])
     IN  Goto(r, IF AllParsed(moves) /\ projected.violations = {} THEN "gated" ELSE "refused")
  /\ scn' = [scn EXCEPT ![r] = s]
  /\ UNCHANGED <<db, status, rows, plan, at, loaded>>

CheckStatus(r) ==
  /\ pc[r] = "gated"
  /\ MayRun(r)
  /\ Goto(r, IF status[scn[r]] \in {"applied", "archived"} THEN "refused" ELSE "checked")
  /\ UNCHANGED <<db, status, rows, scn, plan, at, loaded>>

ReadPlan(r) ==
  /\ pc[r] = "checked"
  /\ MayRun(r)
  /\ plan' = [plan EXCEPT ![r] = EnabledMoves(scn[r])]
  /\ Goto(r, IF plan'[r] # <<>> /\ AllParsed(plan'[r]) THEN "planned" ELSE "refused")
  /\ UNCHANGED <<db, status, rows, scn, at, loaded>>

Begin(r) ==
  /\ pc[r] = "planned"
  /\ MayRun(r)
  /\ at' = [at EXCEPT ![r] = 1]
  /\ Goto(r, "load")
  /\ UNCHANGED <<db, status, rows, scn, plan, loaded>>

(* Fault: the transaction reads the scenario's moves again.                *)
TheMove_Reread(r) ==
  LET now == EnabledMoves(scn[r])
  IN  IF at[r] \in DOMAIN now THEN now[at[r]] ELSE plan[r][at[r]]

TheMove(r) == plan[r][at[r]]

(* Fault: a move that is refused is skipped.                               *)
Load_Skips(r) ==
  /\ pc[r] = "load"
  /\ MayRun(r)
  /\ at[r] \in DOMAIN plan[r]
  /\ IF Refused(View(r), TheMove(r))
     THEN at' = [at EXCEPT ![r] = @ + 1] /\ UNCHANGED <<pc, mine, loaded>>
     ELSE /\ Goto(r, "write")
          /\ UNCHANGED at
          /\ \E found \in
               IF TheMove(r).kind \notin Incoming
               THEN {View(r).contracts[TheMove(r).contract]}
               ELSE IF SameName(View(r), TheMove(r)) = {} THEN {None} ELSE SameName(View(r), TheMove(r)) :
               loaded' = [loaded EXCEPT ![r] = found]
  /\ UNCHANGED <<db, status, rows, scn, plan>>

(* loadTeamContract, or the look-up of a free agent's record; an           *)
(* ApplyError rolls everything back.                                       *)
Load(r) ==
  /\ pc[r] = "load"
  /\ MayRun(r)
  /\ at[r] \in DOMAIN plan[r]
  /\ IF Refused(View(r), TheMove(r))
     THEN End(r, "refused")
     ELSE /\ Goto(r, "write")
          /\ \E found \in
               IF TheMove(r).kind \notin Incoming
               THEN {View(r).contracts[TheMove(r).contract]}
               ELSE IF SameName(View(r), TheMove(r)) = {} THEN {None} ELSE SameName(View(r), TheMove(r)) :
               loaded' = [loaded EXCEPT ![r] = found]
  /\ UNCHANGED <<db, status, rows, scn, plan, at>>

(* An id that no transaction has given out.                                *)
NewContract(r) == NewId(View(r).contracts, {c \in Contracts : ~ContractLocked(c, r)})
NewPlayer(r) == NewId(View(r).players, {p \in Players : ~PlayerLocked(p, r)})

(* What r sees once the move is written.                                   *)
Written(r) ==
  LET m == TheMove(r)
  IN  IF m.kind \in Incoming
      THEN {Arrive(View(r), m, p, c, r) : p \in IF loaded[r] = None THEN NewPlayer(r) ELSE {loaded[r]},
                                          c \in NewContract(r)}
      ELSE {Move(View(r), m, loaded[r], r)}

(* A season row that another request has added since would be a duplicate. *)
Duplicate(r) ==
  /\ TheMove(r).kind = "extension"
  /\ Added(TheMove(r), loaded[r]) \cap RowSeasons(View(r).contracts[TheMove(r).contract]) # {}

(* Does q hold a row that r's move updates?                                *)
WaitsFor(r, q) ==
  IF TheMove(r).kind \in Incoming
  THEN loaded[r] \in DOMAIN mine[q].players
  ELSE \/ TheMove(r).kind \notin Assignments /\ TheMove(r).contract \in DOMAIN mine[q].contracts
       \/ TheMove(r).kind # "extension" /\ loaded[r].player \in DOMAIN mine[q].players

Blocked(r) == \E q \in Requests \ {r} : WaitsFor(r, q)

Write(r) ==
  /\ pc[r] = "write"
  /\ MayRun(r)
  /\ ~Blocked(r)
  /\ IF Duplicate(r)
     THEN End(r, "refused") /\ UNCHANGED at
     ELSE /\ \E view \in Written(r) : mine' = [mine EXCEPT ![r] = Overlay(r, view)]
          /\ at' = [at EXCEPT ![r] = @ + 1]
          /\ pc' = [pc EXCEPT ![r] = "load"]
          /\ loaded' = [loaded EXCEPT ![r] = None]
  /\ UNCHANGED <<db, status, rows, scn, plan>>

Commit(r) ==
  /\ pc[r] = "load"
  /\ MayRun(r)
  /\ at[r] \notin DOMAIN plan[r]
  /\ db' = View(r)
  /\ status' = [status EXCEPT ![scn[r]] = "applied"]
  /\ End(r, "applied")
  /\ UNCHANGED <<rows, scn, plan, at>>

(* A statement fails, or the process dies: the transaction is rolled back. *)
Fail(r) ==
  /\ Open(r)
  /\ End(r, "refused")
  /\ UNCHANGED <<db, status, rows, scn, plan, at>>

(* Transactions that wait for each other: the database aborts one of them. *)
Deadlocked(r) ==
  \E S \in SUBSET Requests :
    /\ r \in S
    /\ \A p \in S : pc[p] = "write" /\ \E q \in S \ {p} : WaitsFor(p, q)

AbortDeadlock(r) == Deadlocked(r) /\ Fail(r)

-----------------------------------------------------------------------------
(* Editing a scenario.                                                     *)

NextOrder(s) == IF rows[s] = <<>> THEN 0 ELSE Max({rows[s][i].order : i \in DOMAIN rows[s]}) + 1

Adding(s) == {r \in Requests : pc[r] = "adding" /\ scn[r] = s}

(* addScenarioTransaction: read the status and the last sortOrder ...      *)
AddRead(r, s) ==
  /\ pc[r] = "idle"
  /\ MayRun(r)
  /\ Len(rows[s]) + Cardinality(Adding(s)) < MaxRows
  /\ scn' = [scn EXCEPT ![r] = s]
  /\ Goto(r, IF status[s] \in {"archived", "applied"} THEN "refused" ELSE "adding")
  /\ loaded' = [loaded EXCEPT ![r] = NextOrder(s)]
  /\ UNCHANGED <<db, status, rows, plan, at>>

IdsInUse ==
  UNION {{rows[s][i].id : i \in DOMAIN rows[s]} : s \in Scenarios}
    \cup {loaded[r].id : r \in {q \in Requests : pc[q] = "toggling"}}

(* ... then insert the row.                                                *)
AddInsert(r, m) ==
  /\ pc[r] = "adding"
  /\ MayRun(r)
  /\ rows' = [rows EXCEPT ![scn[r]] =
       Append(@, [id |-> CHOOSE id \in RowIds \ IdsInUse : TRUE,
                  order |-> loaded[r], move |-> m, enabled |-> TRUE])]
  /\ End(r, "done")
  /\ UNCHANGED <<db, status, scn, plan, at>>

(* removeScenarioTransaction: whatever the scenario's status.              *)
RemoveMove(s, i) ==
  /\ MayRunAlone
  /\ rows' = [rows EXCEPT ![s] = RemoveAt(@, i)]
  /\ UNCHANGED <<db, status, pc, scn, plan, at, loaded, mine>>

(* toggleScenarioTransaction, likewise: read the row, then write the       *)
(* opposite of what was read.                                              *)
ToggleRead(r, s, i) ==
  /\ pc[r] = "idle"
  /\ MayRun(r)
  /\ scn' = [scn EXCEPT ![r] = s]
  /\ loaded' = [loaded EXCEPT ![r] = rows[s][i]]
  /\ Goto(r, "toggling")
  /\ UNCHANGED <<db, status, rows, plan, at>>

ToggleWrite(r) ==
  /\ pc[r] = "toggling"
  /\ MayRun(r)
  /\ rows' = [rows EXCEPT ![scn[r]] =
       [i \in DOMAIN @ |-> IF @[i].id = loaded[r].id
                           THEN [@[i] EXCEPT !.enabled = ~loaded[r].enabled] ELSE @[i]]]
  /\ End(r, "done")
  /\ UNCHANGED <<db, status, scn, plan, at>>

(* setScenarioStatus: any status, from any status.                         *)
SetStatus(s, st) ==
  /\ MayRunAlone
  /\ status' = [status EXCEPT ![s] = st]
  /\ UNCHANGED <<db, rows, pc, scn, plan, at, loaded, mine>>

-----------------------------------------------------------------------------
(* Editing the official records.                                           *)

(* createContract: read the player; refuse if one of the player's          *)
(* contracts is active ...                                                 *)
CreateRead(r, p) ==
  /\ pc[r] = "idle"
  /\ MayRun(r)
  /\ db.players[p] # None
  /\ IF \E c \in Contracts : Active(db, c) /\ db.contracts[c].player = p
     THEN Goto(r, "refused") /\ UNCHANGED loaded
     ELSE /\ Goto(r, "creating")
          /\ loaded' = [loaded EXCEPT ![r] =
               [player |-> p, status |-> IF db.players[p].onTeam THEN db.players[p].status ELSE "pro_active"]]
  /\ UNCHANGED <<db, status, rows, scn, plan, at>>

(* ... then, in a transaction, add the contract and have the player join   *)
(* with the status read before.                                            *)
CreateWrite(r) ==
  /\ pc[r] = "creating"
  /\ MayRun(r)
  /\ ~PlayerLocked(loaded[r].player, r)
  /\ \E c \in NewContract(r) :
       db' = ContractAdded(db, loaded[r].player, c, loaded[r].status, NewRows)
  /\ End(r, "done")
  /\ UNCHANGED <<status, rows, scn, plan, at>>

(* terminateContract: whatever the contract's status; the player stays.    *)
Terminate(c) ==
  /\ MayRunAlone
  /\ db.contracts[c] # None
  /\ \A q \in Requests : c \notin DOMAIN mine[q].contracts
  /\ db' = ContractTerminated(db, c)
  /\ UNCHANGED <<status, rows, pc, scn, plan, at, loaded, mine>>

SetPlayerStatus(p, st) ==
  /\ MayRunAlone
  /\ db.players[p] # None
  /\ \A q \in Requests : p \notin DOMAIN mine[q].players
  /\ db' = PlayerStatusSet(db, p, st)
  /\ UNCHANGED <<status, rows, pc, scn, plan, at, loaded, mine>>

-----------------------------------------------------------------------------
(* The statements a request runs once it has begun.                        *)
Continue(r) ==
  \/ CheckStatus(r) \/ ReadPlan(r) \/ Begin(r) \/ Load(r) \/ Write(r) \/ Commit(r)
  \/ CreateWrite(r) \/ ToggleWrite(r)
  \/ \E m \in EditMoves : AddInsert(r, m)

Start(r) ==
  \/ \E s \in Scenarios : Gate(r, s)
  \/ \E s \in Editable : AddRead(r, s) \/ \E i \in DOMAIN rows[s] : ToggleRead(r, s, i)
  \/ \E p \in Signable : CreateRead(r, p)

ScenarioEdit ==
  \/ \E s \in Editable : \E i \in DOMAIN rows[s] : RemoveMove(s, i)
  \/ \E s \in Scenarios, st \in ScenarioEdits : SetStatus(s, st)

OfficialEdit ==
  \/ \E c \in Terminable : Terminate(c)
  \/ \E p \in Players, st \in StatusEdits : SetPlayerStatus(p, st)

Next ==
  \/ \E r \in Requests : Start(r) \/ Continue(r) \/ Fail(r)
  \/ ScenarioEdit
  \/ OfficialEdit

(* A request that has begun is not abandoned by the server, and the        *)
(* database does not leave transactions in a deadlock.                     *)
Fairness == \A r \in Requests : WF_vars(Continue(r)) /\ WF_vars(AbortDeadlock(r))

Spec == Init /\ [][Next]_vars /\ Fairness

-----------------------------------------------------------------------------
PcLabels == {"idle", "gated", "checked", "planned", "load", "write", "adding", "toggling",
             "creating", "applied", "refused", "done"}

TypeOK ==
  /\ RecordsOK(db, Requests)
  /\ status \in [Scenarios -> ScenarioStatuses]
  /\ DOMAIN rows = Scenarios
  /\ \A s \in Scenarios : Len(rows[s]) <= MaxRows /\ \A i \in DOMAIN rows[s] :
       rows[s][i].id \in RowIds /\ rows[s][i].order \in Nat /\ rows[s][i].move \in AllMoves
  /\ pc \in [Requests -> PcLabels]
  /\ scn \in [Requests -> Scenarios \cup {None}]
  /\ \A r \in Requests :
       /\ plan[r] \in Seq(AllMoves)
       /\ at[r] \in 0..Len(plan[r]) + 1
       /\ DOMAIN mine[r].contracts \subseteq Contracts
       /\ DOMAIN mine[r].players \subseteq Players
       /\ RecordsOK(View(r), Requests)

(* A contract season is owed for at most once, and only once the contract  *)
(* is no longer active: no retained share or buyout is booked on top of a  *)
(* charge, or twice, however applies, terminations and failures interleave.*)
DebtsOf(c, s) == {o \in db.obligations : o.contract = c /\ o.season = s}

DeadCapOnce ==
  \A c \in Contracts, s \in Seasons :
    /\ Cardinality(DebtsOf(c, s)) <= 1
    /\ DebtsOf(c, s) # {} => ~Active(db, c)

(* Every departure is in the official log exactly once, under the kind     *)
(* that made the contract leave.                                           *)
DepartureLogged ==
  \A c \in Contracts :
    /\ Cardinality(LeftAt(db, c)) <= 1
    /\ db.contracts[c] # None /\ db.contracts[c].status \in {"traded", "bought_out"} =>
         \E i \in LeftAt(db, c) : Departed(db.log[i]) = db.contracts[c].status

(* A contract leaves once: it is owed for once, and logged once.           *)
LeavesOnce == DeadCapOnce /\ DepartureLogged

(* "All moves apply inside one DB transaction (all-or-nothing), each move  *)
(* writes an official row": what a request logged is what it read, in      *)
(* order and with nothing of another in between, if it went through, and   *)
(* nothing otherwise; on either database, and whatever becomes of the      *)
(* scenario meanwhile.                                                     *)
LoggedBy(r) == {i \in DOMAIN db.log : db.log[i].by = r}

AllOrNothing ==
  \A r \in DOMAIN pc :
    IF pc[r] = "applied"
    THEN \E n \in 0..Len(db.log) :
           /\ LoggedBy(r) = n + 1..n + Len(plan[r])
           /\ \A i \in 1..Len(plan[r]) : db.log[n + i].kind = plan[r][i].kind
    ELSE LoggedBy(r) = {}

(* A contract that is not active never becomes active again: no request    *)
(* brings one back with a record it read before.                           *)
NoResurrection ==
  [][\A c \in Contracts :
       db.contracts[c] # None /\ ~Active(db, c) => db'.contracts[c] # None /\ ~Active(db, c)']_vars

(* Every request that has begun comes to an end, though others' failures,  *)
(* refusals and transactions are in its way.                               *)
Ended(r) == pc[r] \in {"idle", "applied", "refused", "done"}
EveryRequestEnds == \A r \in Requests : pc[r] # "idle" ~> Ended(r)

(* "The scenario flips to applied (read-only)": once its moves are in the  *)
(* official log, neither they nor its status change.                       *)
AppliedIsReadOnly ==
  [][\A s \in Scenarios : status[s] = "applied" => status'[s] = "applied" /\ rows'[s] = rows[s]]_vars

(* "Scenario has already been applied": no scenario is applied twice.      *)
AppliedOnce ==
  \A q, r \in Requests : pc[q] = "applied" /\ pc[r] = "applied" /\ scn[q] = scn[r] => q = r
=============================================================================
