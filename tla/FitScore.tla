------------------------------ MODULE FitScore ------------------------------
(***************************************************************************)
(* The organizational-fit engine (lib/scouting/fit.ts) as pure operators:  *)
(* fourteen components of a prospect against a need, and the overall score *)
(* and confidence made of those that can be computed.                      *)
(*                                                                         *)
(* Scores are 0..100, weights hundredths; the overall is kept in tenths    *)
(* and the confidence in hundredths, rounded as toFixed rounds. A datum    *)
(* that is not known, and a component it excludes, is None. What a need    *)
(* and a prospect say about the target role is already looked up.          *)
(***************************************************************************)
EXTENDS Integers, FiniteSetsExt

CONSTANT None  \* null

Components == {"position", "handedness", "stat_role", "scout_role", "timeline", "nhl_readiness", "ahl_opportunity",
               "roster_depth", "contract_expiry", "pool_scarcity", "special_teams", "scout_grades", "risk", "acquisition"}

DefaultWeights ==
  [position |-> 12, handedness |-> 6, stat_role |-> 14, scout_role |-> 8, timeline |-> 10, nhl_readiness |-> 6,
   ahl_opportunity |-> 5, roster_depth |-> 8, contract_expiry |-> 8, pool_scarcity |-> 7, special_teams |-> 4,
   scout_grades |-> 7, risk |-> 3, acquisition |-> 2]

YearsOut == [freshman |-> 3, sophomore |-> 2, junior |-> 1, senior |-> 0, graduate |-> 0]

RoundedDiv(n, d) == (2 * n + d) \div (2 * d)
Abs(n) == IF n < 0 THEN -n ELSE n

Plays(position, p) == position = p.position \/ (position = "F" /\ p.group = "F")
GroupOf(position) == IF position \in {"D", "G"} THEN position ELSE "F"

PositionFit(need, p) ==
  CASE Plays(need.position, p) -> 100
    [] ~Plays(need.position, p) /\ Plays(need.secondary, p) -> 75
    [] OTHER -> IF p.group = GroupOf(need.position) THEN 50 ELSE 0

(* Whether a prospect has what a need asks for: neutral when it asks for   *)
(* nothing, None when it is not known.                                     *)
Match(wanted, has, neutral, no) ==
  CASE wanted = None -> neutral
    [] wanted # None /\ has = None -> None
    [] OTHER -> IF has = wanted THEN 100 ELSE no

RoleFit(need, p) == IF need.role = None THEN 70 ELSE p.roleScore

(* Fault: a prospect who comes too early is measured from the window's end.*)
TimelineFit_FromEnd(need, p) ==
  LET years == YearsOut[p.class]
  IN  IF years \in need.earliest..need.latest
      THEN Max({60, 100 - 10 * Abs(years - need.target)})
      ELSE Max({0, 50 - 25 * (years - need.latest)})

TimelineFit(need, p) ==
  LET years == YearsOut[p.class]
      overshoot == IF years < need.earliest THEN need.earliest - years ELSE years - need.latest
  IN  IF years \in need.earliest..need.latest
      THEN Max({60, 100 - 10 * Abs(years - need.target)})
      ELSE Max({0, 50 - 25 * overshoot})

Rising == {"breakout_season", "rapidly_ascending", "steady_progression"}

ReadinessFit(need, p) ==
  IF ~need.nhlNeed THEN 70
  ELSE Min({100, Max({10, 100 - 28 * YearsOut[p.class]}) + IF p.trend \in Rising THEN 10 ELSE 0})

(* What n falls under, in a list of limits with the score up to each.      *)
UpTo(n, a, x, b, y, c, z, rest) == IF n <= a THEN x ELSE IF n <= b THEN y ELSE IF n <= c THEN z ELSE rest

AhlFit(need, depth) == IF need.ahl THEN UpTo(depth.minors, 2, 90, 4, 70, 4, 70, 45) ELSE 70
DepthFit(depth) == UpTo(depth.contracts, 2, 95, 4, 75, 6, 55, 35)

(* Fault: contracts that stay are counted instead of those that expire.    *)
ExpiryFit_Staying(depth) == UpTo(-depth.contracts + depth.expiring, -3, 95, -2, 80, -1, 60, 35)

ExpiryFit(depth) == UpTo(-depth.expiring, -3, 95, -2, 80, -1, 60, 35)

PoolFit(need, depth) ==
  UpTo(IF need.role # None \/ need.scoutRole # None THEN depth.poolAtRole ELSE depth.pool, 0, 95, 2, 75, 5, 55, 35)

SpecialFit(need, p) ==
  CASE need.special = "pp" -> IF p.ppShare = None THEN None
                              ELSE IF p.ppShare >= 40 THEN 90 ELSE IF p.ppShare >= 25 THEN 70 ELSE IF p.ppShare > 0 THEN 50 ELSE 35
    [] need.special = "pk" -> IF p.shGoals = None THEN None ELSE IF p.shGoals > 0 THEN 80 ELSE 45
    [] OTHER -> 70

Ungraded(need, p) == DOMAIN need.floors \ DOMAIN p.grades
Shortfalls(need, p) == {k \in DOMAIN need.floors \cap DOMAIN p.grades : p.grades[k] < need.floors[k]}

GradesFit(need, p) ==
  IF DOMAIN need.floors = {} THEN 70
  ELSE IF p.grades = None THEN None
  ELSE Max({10, 100 - 20 * Cardinality(Shortfalls(need, p)) - 5 * Cardinality(Ungraded(need, p))})

RiskRank == [low |-> 0, medium |-> 1, high |-> 2]

TrendRisk(trend) ==
  CASE trend \in Rising \cup {"stable_producer"} -> "low"
    [] trend \in {"small_sample_spike", "over_age_dominance_concern", "production_decline"} -> "high"
    [] OTHER -> "medium"

RiskFit(need, p) ==
  LET over == RiskRank[IF p.risk = None THEN TrendRisk(p.trend) ELSE p.risk] - RiskRank[need.tolerance]
  IN  IF over <= 0 THEN 100 ELSE IF over = 1 THEN 45 ELSE 10

AcquisitionFit(need, p) ==
  CASE need.method = "any" -> 100
    [] need.method = "draft" -> IF p.drafted THEN 15 ELSE 100
    [] need.method = "college_fa" -> IF p.cfa = "eligible" THEN 100 ELSE IF p.cfa = "watch" THEN 60 ELSE 25
    [] OTHER -> IF p.drafted /\ p.rights THEN 80 ELSE 30

Scores(need, p, depth) ==
  [position |-> PositionFit(need, p), handedness |-> Match(need.hand, p.hand, 100, 20), stat_role |-> RoleFit(need, p),
   scout_role |-> Match(need.scoutRole, p.scoutRole, 70, 25), timeline |-> TimelineFit(need, p),
   nhl_readiness |-> ReadinessFit(need, p), ahl_opportunity |-> AhlFit(need, depth), roster_depth |-> DepthFit(depth),
   contract_expiry |-> ExpiryFit(depth), pool_scarcity |-> PoolFit(need, depth), special_teams |-> SpecialFit(need, p),
   scout_grades |-> GradesFit(need, p), risk |-> RiskFit(need, p), acquisition |-> AcquisitionFit(need, p)]

(* What is warned of before the confidence is computed.                    *)
Warnings(need, p, s) ==
  {c \in {"handedness", "stat_role", "scout_role", "special_teams", "scout_grades"} : s[c] = None}
    \cup {w \in {"low confidence"} : need.role # None /\ p.roleScore # None /\ p.roleUnsure}
    \cup {w \in {"proxy"} : need.special = "pk" /\ p.shGoals # None}
    \cup {w \in {"ungraded"} : s.scout_grades # None /\ p.grades # None /\ Ungraded(need, p) # {}}
    \cup {w \in {"few games"} : p.games < 10}

Weight(S, weights) == MapThenSumSet(LAMBDA c : weights[c], S)
Covered(s) == {c \in Components : s[c] # None}

(* Fault: what cannot be computed counts as nothing.                       *)
Overall_OfAll(s, weights) ==
  IF Weight(Covered(s), weights) = 0 THEN None
  ELSE RoundedDiv(10 * MapThenSumSet(LAMBDA c : s[c] * weights[c], Covered(s)), Weight(Components, weights))

Overall(s, weights) ==
  IF Weight(Covered(s), weights) = 0 THEN None
  ELSE RoundedDiv(10 * MapThenSumSet(LAMBDA c : s[c] * weights[c], Covered(s)), Weight(Covered(s), weights))

(* Fault: the confidence is of the warnings alone.                         *)
Confidence_Warned(s, weights, warnings) == Max({10, 100 - Min({30, 5 * warnings})})

Confidence(s, weights, warnings) ==
  LET total == Weight(Components, weights)
  IN  Max({10, RoundedDiv(100 * Weight(Covered(s), weights) - total * Min({30, 5 * warnings}), total)})

CalculateFit(need, p, depth, weights) ==
  LET s == Scores(need, p, depth)
      overall == Overall(s, weights)
  IN  [scores |-> s, overall |-> overall,
       confidence |-> IF overall = None THEN None ELSE Confidence(s, weights, Cardinality(Warnings(need, p, s)))]

-----------------------------------------------------------------------------
(* What the service reads of an organization's rows for the engine         *)
(* (fitService.ts): which weights are active, who is evaluated, and the    *)
(* depth at the need's position.  A contract is the position of its player *)
(* and the years it still runs; the rows are those of one organization.    *)
Positions == {"C", "LW", "RW", "D", "G"}

Counts(w, versions, models) ==
  /\ w.active
  /\ \E v \in versions : /\ v.id = w.version /\ v.active /\ v.name = "riq-fit-v0.2"
                         /\ \E m \in models : m.id = v.model /\ m.active

(* loadActiveFitModel: rows of active weights of the active version; the   *)
(* engine's defaults only when there are none.                             *)
ActiveWeights(models, versions, rows) ==
  LET active == {w \in rows : Counts(w, versions, models)}
  IN  IF active = {} THEN DefaultWeights ELSE [c \in {w.component : w \in active} |-> (CHOOSE w \in active : w.component = c).weight]

(* Fault: the weights are not passed on to the engine.                     *)
ComponentWeights_Default(weights) == DefaultWeights

(* What calculateFit makes of them: a component without an active row has  *)
(* the engine's default weight.                                            *)
ComponentWeights(weights) == [c \in Components |-> IF c \in DOMAIN weights THEN weights[c] ELSE DefaultWeights[c]]

(* Fault: a need of forwards is one of wingers.                            *)
PositionMatches_Wings(wanted, position) == IF wanted = "F" THEN position \in {"LW", "RW"} ELSE position = wanted

PositionMatches(wanted, position) == IF wanted = "F" THEN position \in {"C", "LW", "RW"} ELSE position = wanted

(* Fault: only the position itself.                                        *)
GroupsForNeed_Primary(need) == {GroupOf(need.position)}

GroupsForNeed(need) == {GroupOf(need.position)} \cup {GroupOf(q) : q \in {need.secondary} \ {None}}

Candidates(need, prospects) == {p \in prospects : p.group \in GroupsForNeed(need)}

TargetKey(need) == IF need.role # None THEN need.role ELSE need.scoutRole

(* The best of a prospect's stored role scores, of any season.             *)
TopRole(p) ==
  IF p.roleScores = {} THEN None
  ELSE (CHOOSE x \in p.roleScores : \A y \in p.roleScores : y.score <= x.score).role

(* Fault: the statistical role counts where the scouts have given another. *)
AtTargetRole_TopFirst(p, key) == (IF TopRole(p) # None THEN TopRole(p) ELSE p.scoutRole) = key

AtTargetRole(p, key) == p.scoutRole = key \/ TopRole(p) = key

(* buildDepthContext: loadDepthContext is its first two counts.            *)
DepthContext(db, need) ==
  LET contracts == {c \in db.contracts : PositionMatches(need.position, c.position)}
      pool == {p \in db.prospects : PositionMatches(need.position, p.position)}
      key == TargetKey(need)
  IN  [contracts |-> Cardinality(contracts),
       expiring |-> Cardinality({c \in contracts : c.years <= need.latest}),
       minors |-> Cardinality({m \in db.minors : PositionMatches(need.position, m.position)}),
       pool |-> Cardinality(pool),
       poolAtRole |-> IF key = None THEN 0 ELSE Cardinality({p \in pool : AtTargetRole(p, key)})]

(* The pool's snapshot: who arrives in how many years.                     *)
ByArrival(db, need) ==
  [y \in 0..3 |-> Cardinality({p \in db.prospects : PositionMatches(need.position, p.position) /\ YearsOut[p.class] = y})]

(* getDepthSummary, for the page of needs: three years ahead.              *)
DepthSummary(db) ==
  [q \in Positions |->
     LET contracts == {c \in db.contracts : c.position = q}
         pool == {p \in db.prospects : p.position = q}
     IN  [contracts |-> Cardinality(contracts), expiring |-> Cardinality({c \in contracts : c.years <= 3}),
          minors |-> Cardinality({m \in db.minors : m.position = q}), pool |-> Cardinality(pool),
          soon |-> Cardinality({p \in pool : YearsOut[p.class] <= 1}),
          scarce |-> Cardinality(contracts) <= 2 /\ Cardinality(pool) <= 2]]
=============================================================================
