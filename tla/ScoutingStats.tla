---------------------------- MODULE ScoutingStats ---------------------------
(***************************************************************************)
(* The amateur-scouting engines as pure operators: derived statistics and  *)
(* percentiles (stats.ts), role scores (roleScoring.ts) and trends         *)
(* (trends.ts).                                                            *)
(*                                                                         *)
(* A rate is a fraction [n, d] with d > 0, or None when its input is       *)
(* missing; fractions are compared exactly, where the program compares     *)
(* floating-point numbers. Weights are integers, scores are in tenths,     *)
(* confidences in hundredths, rounded as toFixed rounds.                   *)
(***************************************************************************)
EXTENDS Integers, FiniteSetsExt, SequencesExt

CONSTANT None  \* null

Rounded(n, d) == (2 * n + d) \div (2 * d)

Rate(n, d) == IF d > 0 THEN [n |-> n, d |-> d] ELSE None
Negated(x) == IF x = None THEN None ELSE [x EXCEPT !.n = -@]
Less(x, y) == x.n * y.d < y.n * x.d
Same(x, y) == x.n * y.d = y.n * x.d

(* Two rates' difference, a missing one counting as nothing, is at least   *)
(* h hundredths.                                                           *)
OrZero(x) == IF x = None THEN [n |-> 0, d |-> 1] ELSE x
RoseBy(x, y, h) ==
  LET a == OrZero(x)
      b == OrZero(y)
  IN  100 * (b.n * a.d - a.n * b.d) >= h * a.d * b.d

Points(line) == line.goals + line.assists

AgeFactor(age) == IF age = None THEN 100 ELSE Min({130, Max({70, 100 + 8 * (21 - age)})})

(* deriveStats, and the metrics percentiles are taken of. The games of a   *)
(* player's team are never known, so neither is his share of them.         *)
Values(line) ==
  LET perGame(n) == Rate(n, line.games)
  IN  [ppg             |-> perGame(Points(line)),
       goalsPerGame    |-> perGame(line.goals),
       assistsPerGame  |-> perGame(line.assists),
       shotsPerGame    |-> perGame(line.shots),
       shootingPct     |-> Rate(line.goals, line.shots),
       ppShare         |-> Rate(line.ppPoints, Points(line)),
       faceoffPct      |-> Rate(line.faceoffWins, line.faceoffs),
       pimDiscipline   |-> Negated(perGame(line.pim)),
       physicality     |-> perGame(line.pim),
       shGoals         |-> perGame(line.shGoals),
       ageAdjustedPpg  |-> Rate(Points(line) * AgeFactor(line.age), 100 * line.games),
       teamRelativePpg |-> IF line.teamGoals # None /\ line.games > 0 THEN Rate(Points(line), line.teamGoals) ELSE None,
       gamesShare      |-> None]

Metrics == {"ppg", "goalsPerGame", "assistsPerGame", "shotsPerGame", "shootingPct", "ppShare", "faceoffPct",
            "pimDiscipline", "physicality", "shGoals", "ageAdjustedPpg", "teamRelativePpg", "gamesShare"}

MissingStats(line) ==
  {m \in {"games_played"} : line.games = 0} \cup {m \in {"shots"} : line.shots = 0}
    \cup {m \in {"faceoffs"} : line.faceoffs = 0}
    \cup {m \in {"time_on_ice"} : line.toi = None \/ line.toi = 0}
    \cup {m \in {"team_goals_for"} : Values(line).teamRelativePpg = None}

(* Fault: players of every position are one pool.                          *)
PeerPool_Mixed(subject, peers) == {p \in peers : p.id # subject.id /\ p.games >= 5}

PeerPool(subject, peers) ==
  {p \in peers : p.group = subject.group /\ p.id # subject.id /\ p.games >= 5}

(* Fault: only those below count, not half of those who are equal.         *)
PercentileRank_Below(value, rated, metric) ==
  LET n == Cardinality(rated)
  IN  IF n < 8 THEN None
      ELSE Rounded(100 * Cardinality({p \in rated : Less(Values(p)[metric], value)}), n)

PercentileRank(value, rated, metric) ==
  LET n == Cardinality(rated)
      below == Cardinality({p \in rated : Less(Values(p)[metric], value)})
      equal == Cardinality({p \in rated : Same(Values(p)[metric], value)})
  IN  IF n < 8 THEN None ELSE Rounded(100 * (2 * below + equal), 2 * n)

(* Who of the pool has the metric; the subject's place among them.         *)
BuildPercentiles(subject, peers) ==
  LET pool == PeerPool(subject, peers)
      place(m) ==
        IF Values(subject)[m] = None THEN None
        ELSE PercentileRank(Values(subject)[m], {p \in pool : Values(p)[m] # None}, m)
  IN  [of |-> [m \in Metrics |-> place(m)], size |-> Cardinality(pool)]

(***************************************************************************)
(* Role scores: weights is a function of the metrics of one archetype.     *)
(***************************************************************************)
Total(weights, S) == MapThenSumSet(LAMBDA m : weights[m], S)
KnownOf(weights, pct) == {m \in DOMAIN weights : pct.of[m] # None}

(* A large pool counts fully, a small one half.                            *)
PoolFactor(size) == IF size >= 40 THEN 10 ELSE IF size >= 15 THEN 8 ELSE 5

(* Fault: a metric that is missing counts as the lowest percentile.        *)
RoleValue_Imputed(weights, pct) ==
  Rounded(10 * MapThenSumSet(LAMBDA m : pct.of[m] * weights[m], KnownOf(weights, pct)), Total(weights, DOMAIN weights))

RoleValue(weights, pct) ==
  Rounded(10 * MapThenSumSet(LAMBDA m : pct.of[m] * weights[m], KnownOf(weights, pct)), Total(weights, KnownOf(weights, pct)))

(* Fault: a score is as sure as the part of the pool that has it.          *)
RoleConfidence_Full(weights, pct) == Min({90, 10 * PoolFactor(pct.size)})

RoleConfidence(weights, pct) ==
  Min({90, Rounded(10 * PoolFactor(pct.size) * Total(weights, KnownOf(weights, pct)), Total(weights, DOMAIN weights))})

Contradictions(weights, pct) ==
  {m \in KnownOf(weights, pct) : 4 * weights[m] >= Total(weights, DOMAIN weights) /\ pct.of[m] <= 25}

ScoreArchetype(weights, pct) ==
  CASE Total(weights, DOMAIN weights) <= 0 -> None
    [] Total(weights, DOMAIN weights) > 0 /\ Total(weights, KnownOf(weights, pct)) = 0 -> [score |-> None, confidence |-> 0]
    [] OTHER -> [score |-> RoleValue(weights, pct), confidence |-> RoleConfidence(weights, pct)]

(* The archetypes of the prospect's group, each with its score.            *)
ScoreAll(group, archetypes, pct) ==
  LET scored == {a \in archetypes : a.group = group /\ ScoreArchetype(a.weights, pct) # None}
  IN  [a \in scored |-> ScoreArchetype(a.weights, pct)]

(***************************************************************************)
(* Trends.                                                                 *)
(***************************************************************************)

(* Fault: a growing power-play share is looked for before a decline.       *)
DeclineOrShare_ShareFirst(p, c) ==
  << <<RoseBy(p.ppShare, c.ppShare, 12), "role_expansion">>, <<RoseBy(c.ppg, p.ppg, 10), "production_decline">> >>

DeclineOrShare(p, c) ==
  << <<RoseBy(c.ppg, p.ppg, 10), "production_decline">>, <<RoseBy(p.ppShare, c.ppShare, 12), "role_expansion">> >>

(* classifyYearOverYear: the first rule that applies.                      *)
Classify(prev, curr) ==
  LET p == Values(prev)
      c == Values(curr)
      enough == curr.games >= 10 /\ prev.games >= 10
      overAge == curr.age # None /\ curr.age >= 23 /\ Points(curr) >= curr.games
      rules == << <<~enough, "insufficient_sample">>,
                  <<overAge, "over_age_dominance_concern">>,
                  <<RoseBy(p.ppg, c.ppg, 35) /\ curr.games < 15, "small_sample_spike">>,
                  <<RoseBy(p.ppg, c.ppg, 35), "breakout_season">>,
                  <<RoseBy(p.ppg, c.ppg, 20), "rapidly_ascending">> >>
               \o DeclineOrShare(p, c)
               \o << <<RoseBy(p.ppg, c.ppg, 5), "steady_progression">>,
                     <<RoseBy(p.shotsPerGame, c.shotsPerGame, 50), "underlying_growth">>,
                     <<TRUE, "stable_producer">> >>
  IN  rules[Min({i \in DOMAIN rules : rules[i][1]})][2]

(* computeSeasonTrends: each season against the one before, oldest first;  *)
(* what a fit reads is the last.                                           *)
SeasonTrends(lines) == [i \in 1..Len(lines) - 1 |-> Classify(lines[i], lines[i + 1])]

LatestTrend(lines) == IF Len(lines) < 2 THEN None ELSE Last(SeasonTrends(lines))

(* Game logs are the points of each game, oldest first.                    *)
PerGame(logs) == Rate(FoldLeft(LAMBDA a, b : a + b, 0, logs), Len(logs))

(* Fault: one game too many.                                              *)
Recent_OneMore(logs, window) == SubSeq(logs, Max({1, Len(logs) - window}), Len(logs))

Recent(logs, window) == SubSeq(logs, Max({1, Len(logs) - window + 1}), Len(logs))

LastGames(logs, window) ==
  LET season == PerGame(logs)
      recent == PerGame(Recent(logs, window))
      rules == << <<Len(logs) < window, "insufficient_sample">>,
                  <<RoseBy(season, recent, 40), "small_sample_spike">>,
                  <<RoseBy(season, recent, 15), "rapidly_ascending">>,
                  <<RoseBy(recent, season, 30), "production_decline">>,
                  <<TRUE, "stable_producer">> >>
  IN  rules[Min({i \in DOMAIN rules : rules[i][1]})][2]

(* Fault: the game in the middle belongs to both halves.                   *)
Halves_Overlap(logs) ==
  LET mid == Len(logs) \div 2 IN [first |-> SubSeq(logs, 1, mid), second |-> SubSeq(logs, mid, Len(logs))]

Halves(logs) ==
  LET mid == Len(logs) \div 2 IN [first |-> SubSeq(logs, 1, mid), second |-> SubSeq(logs, mid + 1, Len(logs))]

HalfTrend(logs) ==
  LET first == PerGame(Halves(logs).first)
      second == PerGame(Halves(logs).second)
  IN  CASE Len(logs) < 12 -> "insufficient_sample"
        [] Len(logs) >= 12 /\ RoseBy(first, second, 20) -> "rapidly_ascending"
        [] Len(logs) >= 12 /\ RoseBy(second, first, 20) -> "production_decline"
        [] OTHER -> "stable_producer"

GameLogTrends(logs) == <<LastGames(logs, 5), LastGames(logs, 10), HalfTrend(logs)>>
=============================================================================
