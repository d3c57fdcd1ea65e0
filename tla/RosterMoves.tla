---------------------------- MODULE RosterMoves ----------------------------
(***************************************************************************)
(* The official records of one team and what each kind of scenario move    *)
(* does to them (src/src/server/services/applyService.ts), and the cap     *)
(* inputs that are built from them (capService.ts).                        *)
(*                                                                         *)
(* The records are [contracts, players, obligations, log].  A contract is  *)
(* None until it exists; so is its row for a season of the league it does  *)
(* not cover.  Seasons are numbered in order.  An obligation also carries  *)
(* the contract it was booked for and the request that booked it, which    *)
(* tell rows apart that the code gives different ids.                      *)
(*                                                                         *)
(* A move is a parsed scenario payload.  The seasons it proposes map a     *)
(* season, which the league need not have, to [hit, bonus]; the base       *)
(* salary is the hit, as it is when the payload leaves it out.             *)
(***************************************************************************)
EXTENDS CapEngine, Sequences, TLC

CONSTANTS
  Contracts,    \* contract ids, used or to be used
  Players,      \* player ids, used or to be used
  Seasons       \* the league's seasons

ASSUME SeasonsAssumption == Seasons \subseteq Nat

ContractStatuses == {"active", "terminated", "bought_out", "traded"}
Incoming == {"sign_free_agent", "trade_in"}
Departures == {"trade_out", "buyout"}
Assignments == {"call_up", "send_down", "ir_placement"}
Kinds == Incoming \cup Departures \cup Assignments \cup {"extension"}

Active(db, c) == db.contracts[c] # None /\ db.contracts[c].status = "active"

(* The shape of the official records; the requests of By book and log.     *)
SeasonRows == [Seasons -> [hit : Nat, base : Nat, cash : Nat] \cup {None}]
ContractRecords ==
  [player : Players, status : ContractStatuses, twoWay : BOOLEAN, kept : Nat, rows : SeasonRows]
PlayerRecords == [name : STRING, goalie : BOOLEAN, onTeam : BOOLEAN, status : RosterStatuses]
Obligations(By) ==
  [contract : Contracts, season : Seasons, kind : {"retained", "buyout"}, amount : Nat, by : By]
LogEntries(By) ==
  [kind : Kinds, contract : Contracts, item : {"player_in", "player_out", "assignment", "extension"}, by : By]

RecordsOK(db, By) ==
  db \in [contracts : [Contracts -> ContractRecords \cup {None}],
         players : [Players -> PlayerRecords \cup {None}],
         obligations : SUBSET Obligations(By),
         log : Seq(LogEntries(By))]

ASSUME NoneAssumption == None \notin ContractRecords \cup PlayerRecords \cup Contracts \cup Players

(* Records that hang together: a contract's player exists, and a contract  *)
(* that is owed for has left and is owed for once per season.              *)
Consistent(db) ==
  /\ \A c \in Contracts : db.contracts[c] # None => db.players[db.contracts[c].player] # None
  /\ \A o \in db.obligations : db.contracts[o.contract] # None /\ ~Active(db, o.contract)
  /\ \A o, u \in db.obligations : o.contract = u.contract /\ o.season = u.season => o = u

(* scenarioPayloadSchema.  What a payload of its kind does not say is what *)
(* the code fills in: nothing is kept by others of a signing's hit, and an *)
(* acquired contract is never two-way.                                     *)
Parsed(m) ==
  /\ m.kind \in Kinds
  /\ m.kind \in Incoming =>
       m.name \in STRING /\ m.goalie \in BOOLEAN /\ m.twoWay \in BOOLEAN /\ m.kept \in 0..100
  /\ m.kind = "sign_free_agent" => m.kept = 0
  /\ m.kind = "trade_in" => ~m.twoWay
  /\ m.kind \notin Incoming => m.contract \in Contracts
  /\ m.kind \in Departures => m.pct \in 0..100
  /\ m.kind = "ir_placement" => m.longTerm \in BOOLEAN
  /\ m.kind \in Incoming \cup {"extension"} =>
       DOMAIN m.seasons # {} /\ \A s \in DOMAIN m.seasons : m.seasons[s] \in [hit : Nat, bonus : Nat]

(* The proposed seasons that exist in the league.                          *)
Covered(m) == DOMAIN m.seasons \cap Seasons

OfficialRow(proposed) ==
  [hit |-> proposed.hit, base |-> proposed.hit, cash |-> proposed.hit + proposed.bonus]

NewSeasonRows(m) ==
  [s \in Seasons |-> IF s \in Covered(m) THEN OfficialRow(m.seasons[s]) ELSE None]

(* The seasons a contract has a row for.                                   *)
RowSeasons(k) == {s \in Seasons : k.rows[s] # None}

LogEntry(m, c, item, by) == [kind |-> m.kind, contract |-> c, item |-> item, by |-> by]

-----------------------------------------------------------------------------
(* Incoming players: createIncomingContract.                               *)

(* "Reuse an existing free-agent record with the same name, if any."       *)
SameName(db, m) ==
  {p \in Players : /\ db.players[p] # None
                   /\ db.players[p].name = m.name
                   /\ db.players[p].status = "non_roster"}

(* An id not in use, the one a new row gets; none if all are used up.      *)
Unused(f, ids) == {i \in ids : f[i] = None}
NewId(f, ids) == IF Unused(f, ids) = {} THEN {} ELSE {CHOOSE i \in Unused(f, ids) : TRUE}

(* Fault: the contract label is stored as the roster status.               *)
Join_Label(db, m, p) ==
  IF db.players[p] = None
  THEN [name |-> m.name, goalie |-> m.goalie, onTeam |-> TRUE, status |-> "under_contract"]
  ELSE [db.players[p] EXCEPT !.onTeam = TRUE, !.status = "under_contract"]

(* p is the record found, or an unused id for a new player.                *)
Join(db, m, p) ==
  IF db.players[p] = None
  THEN [name |-> m.name, goalie |-> m.goalie, onTeam |-> TRUE, status |-> "pro_active"]
  ELSE [db.players[p] EXCEPT !.onTeam = TRUE, !.status = "pro_active"]

Arrive(db, m, p, c, by) ==
  [contracts |-> [db.contracts EXCEPT ![c] =
                    [player |-> p, status |-> "active", twoWay |-> m.twoWay, kept |-> m.kept,
                     rows |-> NewSeasonRows(m)]],
   players |-> [db.players EXCEPT ![p] = Join(db, m, p)],
   obligations |-> db.obligations,
   log |-> Append(db.log, LogEntry(m, c, "player_in", by))]

-----------------------------------------------------------------------------
(* Moves of a contract k that was loaded as active: its player leaves for  *)
(* pct of every season's hit, is assigned, or is extended.                 *)

Departed(m) == IF m.kind = "trade_out" THEN "traded" ELSE "bought_out"
(* Where the log says that contract c left.                                *)
LeftAt(db, c) == {i \in DOMAIN db.log : db.log[i].contract = c /\ db.log[i].item = "player_out"}

(* A log that fits its records: only a contract that has left is in it as  *)
(* leaving, once, and one that was traded or bought out is, as that.       *)
Logged(db) ==
  \A c \in Contracts :
    /\ LeftAt(db, c) # {} => db.contracts[c] # None /\ ~Active(db, c)
    /\ \A i, j \in LeftAt(db, c) : i = j
    /\ db.contracts[c] # None /\ db.contracts[c].status \in {"traded", "bought_out"} =>
         \E i \in LeftAt(db, c) : Departed(db.log[i]) = db.contracts[c].status

DebtKind(m) == IF m.kind = "trade_out" THEN "retained" ELSE "buyout"

(* A trade without retention books nothing; a buyout books even nothing.   *)
Booked(m, k, by) ==
  {[contract |-> m.contract, season |-> s, kind |-> DebtKind(m),
    amount |-> Share(k.rows[s].hit, m.pct), by |-> by] :
     s \in {t \in RowSeasons(k) : m.kind = "buyout" \/ m.pct > 0}}

(* Fault: the contract keeps its status, only the player leaves.           *)
Depart_StaysActive(db, m, k, by) ==
  [contracts |-> db.contracts,
   players |-> [db.players EXCEPT ![k.player] = [@ EXCEPT !.onTeam = FALSE, !.status = "non_roster"]],
   obligations |-> db.obligations \cup Booked(m, k, by),
   log |-> Append(db.log, LogEntry(m, m.contract, "player_out", by))]

Depart(db, m, k, by) ==
  [contracts |-> [db.contracts EXCEPT ![m.contract] = [@ EXCEPT !.status = Departed(m)]],
   players |-> [db.players EXCEPT ![k.player] = [@ EXCEPT !.onTeam = FALSE, !.status = "non_roster"]],
   obligations |-> db.obligations \cup Booked(m, k, by),
   log |-> Append(db.log, LogEntry(m, m.contract, "player_out", by))]

AssignedStatus(m) ==
  CASE m.kind = "call_up" -> "pro_active"
    [] m.kind = "send_down" -> "minor"
    [] m.kind = "ir_placement" -> IF m.longTerm THEN "ltir" ELSE "injured_reserve"

Assign(db, m, k, by) ==
  [contracts |-> db.contracts,
   players |-> [db.players EXCEPT ![k.player] = [@ EXCEPT !.status = AssignedStatus(m)]],
   obligations |-> db.obligations,
   log |-> Append(db.log, LogEntry(m, m.contract, "assignment", by))]

(* Only seasons the loaded contract has no row for are added.              *)
Added(m, k) == Covered(m) \ RowSeasons(k)

WithAdded(now, m, k) ==
  [now EXCEPT !.rows =
     [s \in Seasons |-> IF s \in Added(m, k) THEN OfficialRow(m.seasons[s]) ELSE now.rows[s]]]

(* Fault: the contract is saved back as it was loaded.                     *)
Extend_SavesLoaded(db, m, k, by) ==
  [contracts |-> [db.contracts EXCEPT ![m.contract] = WithAdded(k, m, k)],
   players |-> db.players,
   obligations |-> db.obligations,
   log |-> Append(db.log, LogEntry(m, m.contract, "extension", by))]

Extend(db, m, k, by) ==
  [contracts |-> [db.contracts EXCEPT ![m.contract] = WithAdded(@, m, k)],
   players |-> db.players,
   obligations |-> db.obligations,
   log |-> Append(db.log, LogEntry(m, m.contract, "extension", by))]

-----------------------------------------------------------------------------
(* What the code refuses with an ApplyError.                               *)
Refused(db, m) ==
  \/ ~Parsed(m)
  \/ m.kind \in Incoming /\ Covered(m) = {}
  \/ m.kind \notin Incoming /\ ~Active(db, m.contract)
  \/ m.kind = "extension" /\ Active(db, m.contract) /\ Added(m, db.contracts[m.contract]) = {}

(* The move of a loaded contract k.                                        *)
Move(db, m, k, by) ==
  CASE m.kind \in Departures -> Depart(db, m, k, by)
    [] m.kind \in Assignments -> Assign(db, m, k, by)
    [] m.kind = "extension" -> Extend(db, m, k, by)

(* applyOne: the records one move may leave behind, none if it is refused. *)
(* Which of several records of the same name is reused is left open.       *)
After(db, m, by) ==
  CASE Refused(db, m) -> {}
    [] ~Refused(db, m) /\ m.kind \in Incoming ->
         LET found == SameName(db, m)
         IN  {Arrive(db, m, p, c, by) : p \in IF found = {} THEN NewId(db.players, Players) ELSE found,
                                        c \in NewId(db.contracts, Contracts)}
    [] ~Refused(db, m) /\ m.kind \notin Incoming ->
         {Move(db, m, db.contracts[m.contract], by)}

-----------------------------------------------------------------------------
(* Edits by hand, outside any scenario: a contract added for a player, who *)
(* joins the team; a contract terminated; a player's roster status set.    *)

ContractAdded(db, p, c, st, rows) ==
  [contracts |-> [db.contracts EXCEPT ![c] =
                    [player |-> p, status |-> "active", twoWay |-> FALSE, kept |-> 0, rows |-> rows]],
   players |-> [db.players EXCEPT ![p] = [@ EXCEPT !.onTeam = TRUE, !.status = st]],
   obligations |-> db.obligations,
   log |-> db.log]

ContractTerminated(db, c) ==
  [contracts |-> [db.contracts EXCEPT ![c] = [@ EXCEPT !.status = "terminated"]],
   players |-> db.players, obligations |-> db.obligations, log |-> db.log]

PlayerStatusSet(db, p, st) ==
  [contracts |-> db.contracts,
   players |-> [db.players EXCEPT ![p] = [@ EXCEPT !.status = st]],
   obligations |-> db.obligations, log |-> db.log]

-----------------------------------------------------------------------------
(* buildTeamCapInputs: for each season the rows of the active contracts,   *)
(* each with its player's one roster status, and the season's obligations. *)
EngineRow(db, c, s) ==
  LET k == db.contracts[c]
      row == k.rows[s]
  IN  [hit |-> row.hit, base |-> row.base, cash |-> row.cash, minor |-> None,
       twoWay |-> k.twoWay, kept |-> k.kept,
       goalie |-> db.players[k.player].goalie, status |-> db.players[k.player].status]

CapInputs(db) ==
  [s \in Seasons |->
    [rows |-> [c \in {d \in Contracts : Active(db, d) /\ s \in RowSeasons(db.contracts[d])}
                 |-> EngineRow(db, c, s)],
     obligations |-> {o \in db.obligations : o.season = s},
     ltirPool |-> None]]
=============================================================================
