---------------------------- MODULE PreviewApply ----------------------------
(***************************************************************************)
(* The two readings of one scenario, side by side: what the projector      *)
(* shows before a scenario is applied and what the apply service makes of  *)
(* the official records, move by move.  Nothing else touches the records   *)
(* meanwhile.  A scenario one of whose moves the service refuses is not    *)
(* applied at all, so only moves it accepts are taken.                     *)
(***************************************************************************)
EXTENDS Projector

CONSTANTS
  Rules,        \* Rules[s]: the active rules of season s
  Base,         \* the scenario's base season
  Moves,        \* the moves a scenario may hold
  Officials,    \* the official records a scenario may start from
  MaxMoves      \* bound: moves per scenario

VARIABLES
  db,           \* the official records once the moves so far are applied
  preview,      \* the projected inputs of every season
  targets,      \* the contracts that existed when the scenario was written
  taken         \* how many moves have been taken

vars == <<db, preview, targets, taken>>

Init ==
  /\ db \in Officials
  /\ preview = CapInputs(db)
  /\ targets = {c \in Contracts : db.contracts[c] # None}
  /\ taken = 0

(* A move of a new contract, or of one the scenario's author could name.   *)
Take(m) ==
  /\ taken < MaxMoves
  /\ m.kind \notin Incoming => m.contract \in targets
  /\ db' \in After(db, m, None)
  /\ preview' = ProjectMove(preview, m, <<"hypo", taken>>)
  /\ taken' = taken + 1
  /\ UNCHANGED targets

Next == \E m \in Moves : Take(m)

Spec == Init /\ [][Next]_vars

-----------------------------------------------------------------------------
Shown(s) == CalculateCap(preview[s], Rules[s])
Official(s) == CalculateCap(CapInputs(db)[s], Rules[s])

SameCap(s) ==
  /\ Shown(s).totals.totalCapCharge = Official(s).totals.totalCapCharge
  /\ Shown(s).counts = Official(s).counts
  /\ {v.rule : v \in Shown(s).violations} = {v.rule : v \in Official(s).violations}

(* What the apply page promises for the base season is what the records    *)
(* hold once the scenario is applied: the charge, the counts and the       *)
(* violations, whatever moves the scenario holds and in whatever order.    *)
PreviewExact == SameCap(Base)

(* The apply page shows the "Charge after" of every season of the league.  *)
PreviewExactEverySeason == \A s \in Seasons : SameCap(s)

(* What a team gives up and what it still owes come from the same rows:    *)
(* every contract season of a departed contract is charged to the team at  *)
(* most once, as a row or as a debt, and never for more than its hit.      *)
NothingChargedTwice ==
  \A s \in Seasons, c \in Contracts :
    LET debts == {o \in CapInputs(db)[s].obligations : o.contract = c}
    IN  /\ c \in DOMAIN CapInputs(db)[s].rows => debts = {}
        /\ Cardinality(debts) <= 1
        /\ \A o \in debts : o.amount <= db.contracts[c].rows[s].hit
=============================================================================
