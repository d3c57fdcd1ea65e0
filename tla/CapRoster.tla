----------------------------- MODULE CapRoster -----------------------------
(***************************************************************************)
(* One team's roster under the cap engine: the players' roster statuses    *)
(* are edited one at a time (setPlayerStatusAction) and the cap is         *)
(* recomputed.  The properties are about what the engine makes of it.      *)
(***************************************************************************)
EXTENDS CapEngine

CONSTANTS
  Rules,        \* the active rules of the season
  Inputs        \* the cap inputs a season may start with

CapRows ==
  [hit : Nat, base : Nat, cash : Nat, minor : Nat \cup {None}, twoWay : BOOLEAN,
   kept : Nat, goalie : BOOLEAN, status : RosterStatuses]

CapInput(in) ==
  /\ in = [rows |-> in.rows, obligations |-> in.obligations, ltirPool |-> in.ltirPool]
  /\ in.rows \in [DOMAIN in.rows -> CapRows] /\ IsFiniteSet(DOMAIN in.rows)
  /\ IsFiniteSet(in.obligations)
  /\ \A o \in in.obligations : o.kind \in {"retained"} \cup DeadKinds /\ o.amount \in Int
  /\ in.ltirPool \in Nat \cup {None}

ASSUME NoneAssumption == None \notin Nat \cup {"active_roster", "injured_reserve", "buried"}
ASSUME RulesAssumption == Rules \in [RuleKeys -> Nat \cup {None}]
ASSUME InputsAssumption == \A in \in Inputs : CapInput(in)

VARIABLE input

Init == input \in Inputs

(* A user sets any status, from any status.                                *)
SetPlayerStatus(c, st) ==
  input' = [input EXCEPT !.rows[c].status = st]

Next == \E c \in DOMAIN input.rows, st \in RosterStatuses : SetPlayerStatus(c, st)

Spec == Init /\ [][Next]_input

-----------------------------------------------------------------------------
Charge(in) == TotalCapCharge(in, Rules)

Without(in, statuses) ==
  [in EXCEPT !.rows = [c \in {d \in DOMAIN in.rows : in.rows[d].status \notin statuses} |-> in.rows[c]]]

(* "Every figure the engine emits is backed by a CapLineItem": the lines   *)
(* add up to the charge, category by category, whatever the roster.        *)
ChargeExplained ==
  LET result == CalculateCap(input, Rules)
      SumOf(lines) == SumFunctionOnSet(Amounts(lines), lines)
      LinesOf(category) == SumOf({l \in result.lineItems : l.id[1] = category})
  IN  /\ result.totals.totalCapCharge = SumOf(result.lineItems)
      /\ result.totals.activeRosterCapHit = LinesOf("active_roster")
      /\ result.totals.buriedCapHit = LinesOf("buried")
      /\ result.totals.ltirRelief = -LinesOf("ltir_relief")

(* LTIR relief is capped by the injured players' hits: placing players on  *)
(* LTIR never brings the charge below what the rest of the team costs, and *)
(* without a configured pool it offsets their hits exactly.                *)
LtirOffsetsItsHits ==
  LET rest == Charge([Without(input, {"ltir"}) EXCEPT !.ltirPool = None])
  IN  /\ Charge(input) >= rest
      /\ input.ltirPool = None => Charge(input) = rest

(* Every figure has its lines, and relief is never more than what the      *)
(* injured players cost.                                                   *)
ChargeTold == ChargeExplained /\ LtirOffsetsItsHits

CountsInFull == CountsAsActiveRoster \cup {"suspended", "injured_reserve"}

(* Sending down a player who counted in full never raises the charge.      *)
BuryingNeverRaisesCharge ==
  [][\A c \in DOMAIN input.rows :
       input.rows[c].status \in CountsInFull /\ input'.rows[c].status \in BuriedStatuses
         => Charge(input') <= Charge(input)]_input

(* A hit shared by two teams in a trade is charged in full between them:   *)
(* what the sender books as retained and what the receiver is charged add  *)
(* up to the hit, or to one dollar more when both halves are rounded up.   *)
RetentionConserves ==
  \A c \in DOMAIN input.rows, pct \in 0..100 :
    LET row == input.rows[c]
    IN  Share(row.hit, pct) + EffectiveHit([row EXCEPT !.kept = pct]) - row.hit \in {0, 1}
=============================================================================
