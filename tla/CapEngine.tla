----------------------------- MODULE CapEngine -----------------------------
(***************************************************************************)
(* The salary-cap engine (src/src/lib/engine): a pure function from the    *)
(* contracts, obligations and rules of one season to totals, counts, line  *)
(* items, blocking violations and warnings.                                *)
(*                                                                         *)
(* input is [rows, obligations, ltirPool]: rows maps a contract to its     *)
(* season row [hit, base, cash, minor, twoWay, kept, goalie, status] where *)
(* kept is the percentage of the hit retained by other teams; obligations  *)
(* is a set of records with at least [kind, amount] and a key; ltirPool is *)
(* a number or None.  rules maps a rule key to its number or None.         *)
(* Percentages are whole, so that rounding is exact integer arithmetic.    *)
(***************************************************************************)
EXTENDS Integers, FiniteSets, FiniteSetsExt, Functions

CONSTANT None

RuleKeys == {"upper_limit", "lower_limit", "buried_allowance", "max_active",
             "min_active", "min_goalies", "max_slots", "min_salary",
             "max_individual_pct"}

CountsAsActiveRoster == {"pro_active", "pro_scratch"}
BuriedStatuses == {"minor", "loaned"}
OffCapStatuses == {"juniors", "unsigned", "non_roster"}
RosterStatuses == CountsAsActiveRoster \cup BuriedStatuses \cup OffCapStatuses
                    \cup {"injured_reserve", "ltir", "suspended"}

AtLeastZero(n) == IF n > 0 THEN n ELSE 0

(* Math.round(n * pct / 100): halves are rounded up.                       *)
Share(n, pct) == (n * pct + 50) \div 100

-----------------------------------------------------------------------------
(* Fault: the share the team pays is cut off instead of rounded.           *)
EffectiveHit_Floor(row) == (row.hit * (100 - row.kept)) \div 100

(* The hit less the share retained by other teams, clamped to 0..100%.     *)
EffectiveHit(row) ==
  Share(row.hit, 100 - Max({0, Min({row.kept, 100})}))

RuleOr0(rules, key) == IF rules[key] = None THEN 0 ELSE rules[key]

(* Fault: the allowance is added to the hit instead of the threshold.      *)
BuriedCharge_Sign(row, rules) ==
  AtLeastZero(EffectiveHit(row) - RuleOr0(rules, "min_salary")) + RuleOr0(rules, "buried_allowance")

BuriedCharge(row, rules) ==
  AtLeastZero(EffectiveHit(row) - (RuleOr0(rules, "min_salary") + RuleOr0(rules, "buried_allowance")))

(* The contracts of the input whose player has one of the statuses.        *)
Slotted(input, statuses) == {c \in DOMAIN input.rows : input.rows[c].status \in statuses}

Hits(input) == [c \in DOMAIN input.rows |-> EffectiveHit(input.rows[c])]
HitsOf(input, statuses) == SumFunctionOnSet(Hits(input), Slotted(input, statuses))

Amounts(items) == [i \in items |-> i.amount]
Owed(input, kinds) ==
  SumFunctionOnSet(Amounts(input.obligations), {o \in input.obligations : o.kind \in kinds})

DeadKinds == {"buyout", "termination", "recapture"}

ActiveRosterCapHit(input) == HitsOf(input, CountsAsActiveRoster \cup {"suspended"})
InjuredReserveCapHit(input) == HitsOf(input, {"injured_reserve", "ltir"})
BuriedCapHit(input, rules) ==
  SumFunctionOnSet([c \in DOMAIN input.rows |-> BuriedCharge(input.rows[c], rules)], Slotted(input, BuriedStatuses))

(* Fault: a configured pool is used whatever the hits.                     *)
LtirRelief_PoolOnly(input) ==
  IF input.ltirPool = None THEN HitsOf(input, {"ltir"}) ELSE input.ltirPool

(* min(configured pool ?? LTIR hits, LTIR hits)                            *)
LtirRelief(input) ==
  LET hits == HitsOf(input, {"ltir"})
  IN  IF input.ltirPool = None THEN hits ELSE Min({input.ltirPool, hits})

TotalCapCharge(input, rules) ==
    ActiveRosterCapHit(input) + InjuredReserveCapHit(input) + BuriedCapHit(input, rules)
  + Owed(input, {"retained"}) + Owed(input, DeadKinds) - LtirRelief(input)

(* Two-way contracts in the minors are paid the minor-league salary.       *)
CashOf(row) ==
  IF row.status \in BuriedStatuses /\ row.twoWay /\ row.minor # None THEN row.minor ELSE row.cash

TotalCashPayroll(input) ==
  SumFunctionOnSet([c \in DOMAIN input.rows |-> CashOf(input.rows[c])], Slotted(input, RosterStatuses \ OffCapStatuses))

Totals(input, rules) ==
  [ capUpperLimit |-> RuleOr0(rules, "upper_limit"),
    capLowerLimit |-> RuleOr0(rules, "lower_limit"),
    activeRosterCapHit |-> ActiveRosterCapHit(input),
    injuredReserveCapHit |-> InjuredReserveCapHit(input),
    buriedCapHit |-> BuriedCapHit(input, rules),
    retainedTotal |-> Owed(input, {"retained"}),
    deadCapTotal |-> Owed(input, DeadKinds),
    ltirRelief |-> LtirRelief(input),
    totalCapCharge |-> TotalCapCharge(input, rules),
    capSpace |-> RuleOr0(rules, "upper_limit") - TotalCapCharge(input, rules),
    totalCashPayroll |-> TotalCashPayroll(input) ]

Counts(input) ==
  [ activeRoster |-> Cardinality(Slotted(input, CountsAsActiveRoster)),
    injuredReserve |-> Cardinality(Slotted(input, {"injured_reserve"})),
    ltir |-> Cardinality(Slotted(input, {"ltir"})),
    minors |-> Cardinality(Slotted(input, BuriedStatuses)),
    goaliesActive |-> Cardinality({c \in Slotted(input, CountsAsActiveRoster) : input.rows[c].goalie}),
    contractSlots |-> Cardinality(DOMAIN input.rows) ]

-----------------------------------------------------------------------------
(* Fault: the charge of a suspended player has no line.                    *)
RowCategory_NoSuspended(row) ==
  CASE row.status \in CountsAsActiveRoster -> "active_roster"
    [] row.status \in {"injured_reserve", "ltir"} -> "injured_reserve"
    [] row.status \in BuriedStatuses -> "buried"
    [] OTHER -> None

(* The category of the line a row is explained by, if it has one.          *)
RowCategory(row) ==
  CASE row.status \in CountsAsActiveRoster \cup {"suspended"} -> "active_roster"
    [] row.status \in {"injured_reserve", "ltir"} -> "injured_reserve"
    [] row.status \in BuriedStatuses -> "buried"
    [] row.status \in OffCapStatuses -> None

(* A line's id is its category and what it is for.  A buried row has a     *)
(* line only when it is charged for, the relief only when there is some.   *)
LineItems(input, rules) ==
  LET Line(category, for, amount) == [id |-> <<category, for>>, amount |-> amount]
      RowLine(c) ==
        LET row == input.rows[c]
        IN  Line(RowCategory(row), c,
                 IF row.status \in BuriedStatuses THEN BuriedCharge(row, rules) ELSE EffectiveHit(row))
      Shown(l) == l.id[1] # None /\ (l.id[1] = "buried" => l.amount > 0)
  IN  {l \in {RowLine(c) : c \in DOMAIN input.rows} : Shown(l)}
      \cup {Line(IF o.kind = "retained" THEN "retained" ELSE "dead_cap", o, o.amount) : o \in input.obligations}
      \cup {l \in {Line("ltir_relief", None, -LtirRelief(input))} : l.amount < 0}

-----------------------------------------------------------------------------
(* Blocking violations: [rule, who].  A rule that is missing blocks        *)
(* nothing.                                                                *)
Violations(input, rules) ==
  LET Over(key, n) == {v \in {[rule |-> key, who |-> None]} : rules[key] # None /\ n > rules[key]}
      maxIndividual == Share(RuleOr0(rules, "upper_limit"), RuleOr0(rules, "max_individual_pct"))
  IN  Over("upper_limit", TotalCapCharge(input, rules))
      \cup Over("max_active", Counts(input).activeRoster)
      \cup Over("max_slots", Counts(input).contractSlots)
      \cup {[rule |-> "max_individual_pct", who |-> c] :
              c \in {d \in DOMAIN input.rows :
                       /\ rules["max_individual_pct"] # None
                       /\ RuleOr0(rules, "upper_limit") > 0
                       /\ input.rows[d].hit > maxIndividual}}

Warnings(input, rules) ==
  LET Under(key, n) == {v \in {[rule |-> key, who |-> None]} : rules[key] # None /\ n < rules[key]}
  IN  {v \in {[rule |-> "upper_limit", who |-> None]} : rules["upper_limit"] = None}
      \cup {[rule |-> "min_salary", who |-> c] :
              c \in {d \in Slotted(input, CountsAsActiveRoster) :
                       /\ rules["min_salary"] # None
                       /\ 0 < input.rows[d].base /\ input.rows[d].base < rules["min_salary"]}}
      \cup Under("lower_limit", TotalCapCharge(input, rules))
      \cup Under("min_active", Counts(input).activeRoster)
      \cup Under("min_goalies", Counts(input).goaliesActive)

CalculateCap(input, rules) ==
  [ totals |-> Totals(input, rules),
    counts |-> Counts(input),
    lineItems |-> LineItems(input, rules),
    violations |-> Violations(input, rules),
    warnings |-> Warnings(input, rules) ]
=============================================================================
