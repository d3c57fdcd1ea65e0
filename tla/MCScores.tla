------------------------------ MODULE MCScores ------------------------------
(***************************************************************************)
(* The engines of pure functions, one part of the model at a time: the fit *)
(* of every prospect to every need of a few values per field, that of one  *)
(* prospect over windows and depths, what the service reads of contracts   *)
(* and prospects as they change, percentiles, role scores, trends of two   *)
(* seasons and trends of game logs.  A part is its inputs; input is null   *)
(* and db, need and weights are used where rows change.                    *)
(***************************************************************************)
EXTENDS FitScore, SequencesExt

VARIABLES part, input, db, need, weights

vars == <<part, input, db, need, weights>>

Stats == INSTANCE ScoutingStats

-----------------------------------------------------------------------------
(* The inputs of the fit engine.                                           *)
AllDepths == [contracts : {0, 3}, expiring : {0, 1}, minors : {0, 3}, pool : {4}, poolAtRole : {0, 6}]

Depths == {[contracts |-> 3, expiring |-> 1, minors |-> 2, pool |-> 4, poolAtRole |-> 1]}

Need(hand, role, special, floors, tolerance, nhlNeed, window) ==
  [position |-> "C", secondary |-> "LW", hand |-> hand, role |-> role, scoutRole |-> role, special |-> special,
   floors |-> floors, tolerance |-> tolerance, nhlNeed |-> nhlNeed, ahl |-> TRUE, method |-> "draft",
   earliest |-> window[1], target |-> window[2], latest |-> window[3]]

Needs ==
  {Need(hand, role, special, floors, tolerance, nhlNeed, <<0, 3, 4>>) :
     hand \in {"L"}, role \in {None, "r"}, special \in {None, "pp", "pk"},
     floors \in {<<>>, "skating" :> 50 @@ "compete" :> 55}, tolerance \in {"low"}, nhlNeed \in BOOLEAN}

WindowNeeds ==
  {Need(None, role, None, <<>>, "low", TRUE, w) :
     role \in {None, "r"}, w \in {v \in (0..2) \X (0..3) \X (0..3) : v[1] <= v[3]}}

Prospect(hand, roleScore, unsure, scoutRole, trend, report, season) ==
  [position |-> "C", group |-> "F", hand |-> hand, class |-> "junior", roleScore |-> roleScore, roleUnsure |-> unsure,
   scoutRole |-> scoutRole, trend |-> IF season = None THEN None ELSE trend, drafted |-> FALSE, rights |-> FALSE, cfa |-> "watch",
   grades |-> IF report = None THEN None ELSE report.grades, risk |-> IF report = None THEN None ELSE report.risk,
   ppShare |-> season, shGoals |-> season, games |-> IF season = None THEN 0 ELSE 20]

Reports ==
  {None} \cup [grades : {<<>>, "skating" :> 60, "skating" :> 40 @@ "compete" :> 60}, risk : {None, "low", "high"}]

Prospects ==
  {Prospect(hand, roleScore, unsure, scoutRole, trend, report, season) :
     hand \in {"L", "R"}, roleScore \in {None, 90}, unsure \in BOOLEAN, scoutRole \in {None, "r"},
     trend \in {"steady_progression", "production_decline"}, report \in Reports, season \in {None, 30}}

OneProspect == Prospect("L", 90, FALSE, "r", "steady_progression", None, 30)

FitInputs == [need : Needs, prospect : Prospects, depth : Depths]
WindowInputs == [need : WindowNeeds, prospect : {OneProspect}, depth : AllDepths]

(* The inputs of percentiles, role scores and trends.                      *)
Line(id, group, games, goals, pim) ==
  [id |-> id, group |-> group, age |-> 20, games |-> games, goals |-> goals, assists |-> 1, shots |-> 10 * goals, pim |-> pim,
   ppPoints |-> 0, shGoals |-> 0, faceoffWins |-> 0, faceoffs |-> 0, toi |-> None, teamGoals |-> None]

Pool == {Line(i, "F", 10, i, (i * 7) % 4) : i \in 1..9} \cup {Line(10, "F", 4, 5, 1)}
Others == {Line(i, "D", 10, i % 5, i % 3) : i \in 11..14}

PeerInputs ==
  [subject : {Line(0, "F", games, goals, pim) : games \in {0, 10, 20}, goals \in 0..6, pim \in 0..4},
   peers : {(Pool \ out) \cup others : out \in {{}} \cup {{p, Line(3, "F", 10, 3, 1)} : p \in Pool}, others \in {{}, Others}}]

RoleInputs ==
  [weights : [{"ppg", "shGoals", "faceoffPct"} -> {0, 10, 35}],
   pct : {[of |-> f, size |-> n] : f \in [{"ppg", "shGoals", "faceoffPct"} -> {None, 0, 25, 60, 100}], n \in {7, 15, 40}}]

Season(age, games, goals, pp, shots) ==
  [Line(1, "F", games, goals, 0) EXCEPT !.age = age, !.assists = 0, !.ppPoints = Min({pp, goals}), !.shots = shots]

YearInputs ==
  [prev : {Season(20, games, goals, pp, 40) : games \in {9, 20}, goals \in {0, 8, 14}, pp \in {0, 3}},
   curr : {Season(age, games, goals, pp, shots) :
             age \in {None, 23}, games \in {9, 12, 20}, goals \in 0..20, pp \in {0, 3}, shots \in {40, 50}}]

(* Few games, or twelve of which the player scores in four.                *)
LogInputs ==
  UNION {[1..n -> {0, 2}] : n \in {0, 6}} \cup [1..5 -> 0..3] \cup
  {[i \in 1..12 |-> IF i \in scored THEN 2 ELSE 0] : scored \in kSubset(4, 1..12)}

-----------------------------------------------------------------------------
(* The rows of an organization and the fit model's weights.                *)
Contract(id, position, years) == [id |-> id, position |-> position, years |-> years]

Row(id, position) ==
  [id |-> id, position |-> position, group |-> GroupOf(position), class |-> "junior", scoutRole |-> None, roleScores |-> {}]

RowsInit ==
  /\ db = [contracts |-> {}, minors |-> {}, prospects |-> {Row(1, "C"), Row(2, "D")}]
  /\ need \in [position : {"C", "F", "D"}, secondary : {None, "D"}, role : {None, "r"}, scoutRole : {None, "s"}, latest : {3}]
  /\ weights = {[component |-> c, weight |-> DefaultWeights[c], version |-> "v2", active |-> TRUE] : c \in {"position", "handedness"}}

Sign(id) ==
  \E q \in {"C", "D"}, years \in {3, 4} :
    /\ \A c \in db.contracts : c.id # id
    /\ db' = [db EXCEPT !.contracts = @ \cup {Contract(id, q, years)}]

Rate(p, new) == db' = [db EXCEPT !.prospects = (@ \ {p}) \cup {new}]

StoreScore(p) ==
  \E role \in {"r", "s"}, season \in {1}, score \in {40, 80} :
    Rate(p, [p EXCEPT !.roleScores = {x \in @ : x.role # role \/ x.season # season} \cup {[role |-> role, season |-> season, score |-> score]}])

Assign(p) == \E role \in {"r", "s", None} : Rate(p, [p EXCEPT !.scoutRole = role])

(* A row is switched off, or its weight changed.                           *)
Reweigh(w) ==
  /\ \E new \in {[w EXCEPT !.active = ~@], [w EXCEPT !.weight = 42]} : weights' = (weights \ {w}) \cup {new}
  /\ UNCHANGED db

Weights ==
  ComponentWeights(ActiveWeights({[id |-> "m", active |-> TRUE]},
                                 {[id |-> "v2", model |-> "m", active |-> TRUE, name |-> "riq-fit-v0.2"]}, weights))

RowsNext ==
  /\ \/ \E w \in weights : Reweigh(w)
     \/ /\ \/ \E id \in {1, 2} : Sign(id)
           \/ \E p \in {x \in db.prospects : x.id = 1} : StoreScore(p) \/ Assign(p)
        /\ UNCHANGED weights
  /\ UNCHANGED <<part, input, need>>

PureInputs ==
  [fit |-> FitInputs, window |-> WindowInputs, peers |-> PeerInputs, roles |-> RoleInputs, years |-> YearInputs, logs |-> LogInputs]

Init ==
  \/ \E k \in DOMAIN PureInputs : part = k /\ input \in PureInputs[k] /\ db = None /\ need = None /\ weights = None
  \/ part = "rows" /\ RowsInit /\ input = None

Next == part = "rows" /\ RowsNext

Spec == Init /\ [][Next]_vars

-----------------------------------------------------------------------------
(* Properties, of a part's input each.                                     *)
Fit(n, p, depth) == CalculateFit(n, p, depth, DefaultWeights)

(* What a prospect's record looks like without one source of data: the     *)
(* hand, the role model's score, the scout's role, the scouting report,    *)
(* the latest season.                                                      *)
Without(p) ==
  {[p EXCEPT !.hand = None], [p EXCEPT !.roleScore = None], [p EXCEPT !.scoutRole = None],
   [p EXCEPT !.grades = None, !.risk = None],
   [p EXCEPT !.ppShare = None, !.shGoals = None, !.games = 0, !.trend = None]}

(* "Missing data NEVER produces a low score: ... a warning is surfaced,    *)
(* and confidence drops" (fit.ts:10): without a datum the confidence is    *)
(* never higher, and it is lower, down to its floor, when a component      *)
(* cannot be computed any more.                                            *)
ConfidenceDrops ==
  \A q \in Without(input.prospect) :
    LET a == Fit(input.need, input.prospect, input.depth)
        b == Fit(input.need, q, input.depth)
    IN  /\ b.confidence <= a.confidence
        /\ Covered(b.scores) # Covered(a.scores) => b.confidence < a.confidence \/ a.confidence = 10

(* "the overall is computed over the covered weight only" (fit.ts:11): it  *)
(* is between the lowest and the highest component that was computed, and  *)
(* a component that was not is as if it had scored the overall.            *)
OverallOfCovered ==
  LET f == Fit(input.need, input.prospect, input.depth)
      computed == {f.scores[c] : c \in Covered(f.scores)}
      filled == [c \in Components |-> IF f.scores[c] = None THEN RoundedDiv(f.overall, 10) ELSE f.scores[c]]
  IN  /\ f.overall \in (10 * Min(computed))..(10 * Max(computed))
      /\ Abs(Overall(filled, DefaultWeights) - f.overall) <= 5

(* A prospect who arrives inside the window scores above every one who     *)
(* does not, and the nearer to the window, or inside it to the target, the *)
(* better.                                                                 *)
WindowFirst ==
  LET Score(years) == TimelineFit(input.need, [input.prospect EXCEPT !.class = CHOOSE k \in DOMAIN YearsOut : YearsOut[k] = years])
      Away(years) == Max({0, input.need.earliest - years, years - input.need.latest})
  IN  \A x, y \in 0..3 :
        /\ Away(x) = 0 /\ Away(y) > 0 => Score(x) > Score(y)
        /\ Away(x) < Away(y) => Score(x) >= Score(y)
        /\ Away(x) = 0 /\ Away(y) = 0 /\ Abs(x - input.need.target) <= Abs(y - input.need.target) => Score(x) >= Score(y)

(* The emptier the organization is at the position - fewer contracts, more *)
(* of them expiring, fewer in the minors and in the pool - the better.     *)
EmptierIsBetter ==
  \A f \in DOMAIN input.depth : \A n \in 0..8 :
    LET a == Fit(input.need, input.prospect, input.depth).overall
        b == Fit(input.need, input.prospect, [input.depth EXCEPT ![f] = n]).overall
    IN  (IF f = "expiring" THEN n >= input.depth[f] ELSE n <= input.depth[f]) => b >= a

Forwards == {"C", "LW", "RW"}

(* The depth a fit is computed from and the page of needs agree: what a    *)
(* need of forwards counts is what the page shows of the centers and       *)
(* wingers together, and so for each other position.                       *)
SummaryAgrees ==
  LET of == IF need.position = "F" THEN Forwards ELSE {need.position}
      d == DepthContext(db, need)
      s == DepthSummary(db)
  IN  /\ d.contracts = MapThenSumSet(LAMBDA q : s[q].contracts, of)
      /\ d.expiring = MapThenSumSet(LAMBDA q : s[q].expiring, of)
      /\ d.pool = MapThenSumSet(LAMBDA q : s[q].pool, of)
      /\ MapThenSumSet(LAMBDA y : ByArrival(db, need)[y], {0, 1}) = MapThenSumSet(LAMBDA q : s[q].soon, of)

(* Whoever plays the position the need asks for, first or second, is       *)
(* evaluated by its runs.                                                  *)
EveryFitEvaluated ==
  \A p \in db.prospects :
    PositionFit(need, p) \in {75, 100} => p \in Candidates(need, db.prospects)

(* "A scout-assigned match counts, and so does a prospect whose best       *)
(* persisted statistical role is the target" (fitService.ts:157): a        *)
(* scout's word never takes a prospect out of the pool at the target role. *)
ScoutsWordCounts ==
  (\E p \in db.prospects : p.scoutRole # None /\ p.scoutRole = TargetKey(need) /\ PositionMatches(need.position, p.position))
    => DepthContext(db, need).poolAtRole >= 1

(* A weight somebody has set is the one that counts, and every component   *)
(* has one.                                                                *)
SetWeightsCount ==
  \A w \in weights : w.active => Weights[w.component] = w.weight

(* A prospect's discipline and his physicality are the two ends of one     *)
(* list: the percentiles add up to 100, but for the rounding of both, and  *)
(* are known for the same pools (buildPercentiles, percentileRank).        *)
TwoEnds ==
  LET of == Stats!BuildPercentiles(input.subject, input.peers).of
  IN  IF of.physicality = None THEN of.pimDiscipline = None
      ELSE of.physicality + of.pimDiscipline \in {100, 101}

(* "never mixes F/D/G" (scoutingService.ts:189): lines of other positions, *)
(* however many, change no percentile and do not make a pool large enough. *)
NoOutsider ==
  LET own == {p \in input.peers : p.group = input.subject.group}
  IN  Stats!BuildPercentiles(input.subject, input.peers) = Stats!BuildPercentiles(input.subject, own)

(* "metrics with missing percentiles contribute nothing and reduce         *)
(* confidence rather than being silently imputed" (roleScoring.ts:49): a   *)
(* score is between the lowest and the highest percentile it was made of.  *)
ScoreOfKnown ==
  LET s == Stats!ScoreArchetype(input.weights, input.pct)
      known == {input.pct.of[m] : m \in {k \in Stats!KnownOf(input.weights, input.pct) : input.weights[k] > 0}}
  IN  s # None => (s.score = None <=> known = {}) /\ (s.score # None => s.score \in (10 * Min(known))..(10 * Max(known)))

(* Without one of its metrics a role score is less sure, and it is never   *)
(* surer than 0.90.                                                        *)
LessSureWithout ==
  LET s == Stats!ScoreArchetype(input.weights, input.pct)
  IN  s # None =>
        /\ s.confidence <= 90
        /\ \A m \in Stats!KnownOf(input.weights, input.pct) :
             LET t == Stats!ScoreArchetype(input.weights, [input.pct EXCEPT !.of[m] = None])
             IN  /\ t.confidence <= s.confidence
                 /\ input.weights[m] > 0 /\ s.confidence < 90 => t.confidence < s.confidence

Level ==
  [production_decline |-> 0, stable_producer |-> 1, underlying_growth |-> 1, role_expansion |-> 1,
   steady_progression |-> 2, rapidly_ascending |-> 3, breakout_season |-> 4, small_sample_spike |-> 4]

(* One more even-strength goal never makes a season look worse against the *)
(* one before, but for the concern about players who dominate at an age    *)
(* over 22.                                                                *)
ExtraGoalNeverWorse ==
  LET now == Stats!Classify(input.prev, input.curr)
      then == Stats!Classify(input.prev, [input.curr EXCEPT !.goals = @ + 1])
  IN  now \in DOMAIN Level /\ then \in DOMAIN Level => Level[then] >= Level[now]

Opposite(trend) ==
  CASE trend = "rapidly_ascending" -> "production_decline"
    [] trend = "production_decline" -> "rapidly_ascending"
    [] OTHER -> trend

(* A season played backwards has the opposite halves.                      *)
HalvesMirror == Len(input) % 2 = 0 => Stats!HalfTrend(Reverse(input)) = Opposite(Stats!HalfTrend(input))

Swapped(s, i) == [s EXCEPT ![i] = s[i + 1], ![i + 1] = s[i]]

(* Only who plays within the last games counts, in whatever order: two     *)
(* games that are both inside, or both outside, may change places.         *)
WindowOnly ==
  \A i \in 1..Len(input) - 1 : \A w \in {5, 10} :
    i # Len(input) - w => Stats!LastGames(Swapped(input, i), w) = Stats!LastGames(input, w)

-----------------------------------------------------------------------------
(* The fit engine: without a datum the confidence drops, the overall is    *)
(* that of the components computed, arrival inside the window comes first  *)
(* and the emptier the position the better.  Of what the fit service reads *)
(* depth and summary agree, whoever fits is evaluated, a scout's word      *)
(* counts, and so does a weight that was set.                              *)
FitTold ==
  CASE part = "fit" -> ConfidenceDrops /\ OverallOfCovered
    [] part = "window" -> WindowFirst /\ EmptierIsBetter
    [] part = "rows" -> SummaryAgrees /\ EveryFitEvaluated /\ ScoutsWordCounts /\ SetWeightsCount
    [] OTHER -> TRUE

(* Percentiles and role scores: a low rate reads as the opposite of its    *)
(* inverse, no outsider counts, a missing metric only costs confidence.    *)
StatsTold ==
  CASE part = "peers" -> TwoEnds /\ NoOutsider
    [] part = "roles" -> ScoreOfKnown /\ LessSureWithout
    [] OTHER -> TRUE

(* Trends: a goal more is never worse, a season played backwards has the   *)
(* opposite halves, and only the last games count for the last games.      *)
TrendsTold ==
  CASE part = "years" -> ExtraGoalNeverWorse
    [] part = "logs" -> HalvesMirror /\ WindowOnly
    [] OTHER -> TRUE
=============================================================================
