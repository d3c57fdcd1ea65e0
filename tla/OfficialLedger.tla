--------------------------- MODULE OfficialLedger ---------------------------
(***************************************************************************)
(* What the official records of a team promise: they change only by direct *)
(* edits and by scenarios, and a scenario is applied all at once, every    *)
(* move of it in order, to the records as they are at that moment.         *)
(***************************************************************************)
EXTENDS RosterMoves

CONSTANTS
  MoveLists,    \* the lists of moves a scenario may hold
  Officials,    \* the official records to start from
  Requests,     \* the requests that apply scenarios or add contracts
  NewRows,      \* the season rows of a contract added by hand
  StatusEdits   \* the roster statuses set by hand

VARIABLE db

Init == db \in Officials

(* The records a whole scenario may leave behind, none if it is refused.   *)
ApplyAll(plan, by) ==
  LET after[n \in 0..Len(plan)] ==
        IF n = 0 THEN {db} ELSE UNION {After(d, plan[n], by) : d \in after[n - 1]}
  IN  after[Len(plan)]

(* Every move of the scenario writes its official row, in order.           *)
NewEntries == SubSeq(db'.log, Len(db.log) + 1, Len(db'.log))
KindsOf(entries) == [i \in DOMAIN entries |-> entries[i].kind]

ApplyScenario(plan, by) ==
  /\ KindsOf(NewEntries) = KindsOf(plan)
  /\ db' \in ApplyAll(plan, by)

(* createContract: the player joins the team; a player who was on the team *)
(* when the request read the record keeps the status it read.              *)
AddContract(p, c, status) ==
  /\ db.players[p] # None
  /\ db.contracts[c] = None
  /\ db' = ContractAdded(db, p, c, status, NewRows)

Terminate(c) ==
  /\ db.contracts[c] # None
  /\ db' = ContractTerminated(db, c)

SetPlayerStatus(p, st) ==
  /\ db.players[p] # None
  /\ db' = PlayerStatusSet(db, p, st)

DirectEdit ==
  \/ \E p \in Players, c \in Contracts, st \in RosterStatuses : AddContract(p, c, st)
  \/ \E c \in Contracts : Terminate(c)
  \/ \E p \in Players, st \in StatusEdits : SetPlayerStatus(p, st)

Next ==
  \/ \E plan \in MoveLists, r \in Requests : ApplyScenario(plan, r)
  \/ DirectEdit

Spec == Init /\ [][Next]_db
=============================================================================
