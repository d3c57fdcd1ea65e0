----------------------------- MODULE Valuation ------------------------------
(***************************************************************************)
(* What a player is worth (lib/valuation/models.ts) and how a player page  *)
(* puts it together (valuationService.ts): the price of his projected      *)
(* goals above replacement, and a market estimate with a band, made of     *)
(* that price and of the nearest comparable contracts.                     *)
(*                                                                         *)
(* Amounts are in one unit of money, goals in tenths, shares in hundredths.*)
(* Products are exact and rounded once, as Math.round does: half up.       *)
(* A comparable pool is a sequence, in the order the database returns it.  *)
(***************************************************************************)
EXTENDS Integers, FiniteSetsExt, SequencesExt

CONSTANTS
  DollarsPerGar,   \* the price of one goal above replacement
  MinSalary,       \* the league's minimum salary where it has no such rule
  None             \* null

Rounded(n, d) == (2 * n + d) \div (2 * d)
Distance(a, b) == IF a < b THEN b - a ELSE a - b

PositionFactor(position) == CASE position = "G" -> 90 [] position = "D" -> 105 [] OTHER -> 100

(* estimatePerformanceValue                                                *)
PerformanceValue(p, minSalary) ==
  Max({minSalary, minSalary + Rounded(p.gar * DollarsPerGar * p.availability * PositionFactor(p.position), 100000)})

(* Twice the median: that of an even number is the mean of the middle two. *)
Median2(s) ==
  LET n == Len(s)
      Sorted(k) == CHOOSE v \in ToSet(s) :
                     /\ Cardinality({i \in 1..n : s[i] < v}) < k
                     /\ Cardinality({i \in 1..n : s[i] <= v}) >= k
  IN  IF n = 0 THEN 0 ELSE Sorted((n + 1) \div 2) + Sorted(n \div 2 + 1)

estimateTermYears(age, status) ==
  CASE age = None -> 3
    [] age # None /\ age <= 23 -> IF status = "rfa" THEN 3 ELSE 4
    [] age # None /\ age \in 24..26 -> 5
    [] age # None /\ age \in 27..29 -> 4
    [] age # None /\ age \in 30..32 -> 3
    [] age # None /\ age \in 33..34 -> 2
    [] age # None /\ age >= 35 -> 1

(* How far a comparable is from a player; the age of one without a birth   *)
(* date does not count.                                                    *)
Apart(p, c) == (IF p.age = None THEN 0 ELSE 4 * Distance(p.age, c.age)) + Distance(p.points, c.points)

(* Fault: the cohort is the first five of the position.                    *)
Cohort_Unsorted(p, pool) == LET same == SelectSeq(pool, LAMBDA c : c.position = p.position)
                            IN  SubSeq(same, 1, Min({5, Len(same)}))

(* The five nearest of his position, in the pool's order where they tie.   *)
Cohort(p, pool) ==
  LET same == {i \in DOMAIN pool : pool[i].position = p.position}
      apart == [i \in same |-> Apart(p, pool[i])]
      Before(i) == {j \in same : apart[j] < apart[i] \/ (apart[j] = apart[i] /\ j < i)}
      place == [i \in same |-> Cardinality(Before(i)) + 1]
  IN  [k \in 1..Min({5, Cardinality(same)}) |-> pool[CHOOSE i \in same : place[i] = k]]

(* Their price now, at four percent a year for two years.                  *)
Inflated(aav) == Rounded(aav * 10816, 10000)

Confidence(n) == CASE n = 0 -> 35 [] n \in 1..2 -> 50 [] n >= 3 -> 60 + 4 * n

Blend(value, cohort) ==
  LET market2 == Median2([i \in DOMAIN cohort |-> Inflated(cohort[i].aav)])
  IN  CASE cohort = <<>> -> value
        [] Len(cohort) \in 1..2 -> Rounded(130 * value + 35 * market2, 200)
        [] Len(cohort) >= 3 -> Rounded(2 * value + market2, 4)

(* estimateMarketValue                                                     *)
estimateMarketValue(p, value, pool, minSalary) ==
  LET cohort == Cohort(p, pool)
      open == Blend(value, cohort)
      aav == Max({minSalary, IF p.status = "rfa" THEN Rounded(85 * open, 100) ELSE open})
      margin == 35 * (100 - Confidence(Len(cohort))) + 1000
  IN  [aav |-> aav,
       low |-> Max({minSalary, Rounded(aav * (10000 - margin), 10000)}),
       high |-> Rounded(aav * (10000 + margin), 10000),
       term |-> estimateTermYears(p.age, p.status),
       total |-> aav * estimateTermYears(p.age, p.status),
       confidence |-> Confidence(Len(cohort)),
       used |-> cohort]

(* Full years from one day to another; days count within their year.       *)
ageOn(birth, start) ==
  IF birth = None THEN None ELSE start.year - birth.year - (IF start.day < birth.day THEN 1 ELSE 0)

(* valuatePlayer: nothing without a projection; the pool is everybody's    *)
(* and the organization's own; any of the player's active contracts says   *)
(* what he costs.                                                          *)
Views(player, db) ==
  LET minSalary == IF db.minSalary = None THEN MinSalary ELSE db.minSalary
      pool == SelectSeq(db.comparables, LAMBDA c : c.org \in {None, player.org})
      hits == {c.hit : c \in {c \in db.contracts : c.player = player.id /\ c.active}}
      p == [position |-> player.position, status |-> player.status, age |-> ageOn(player.birth, db.start),
            gar |-> db.projection.gar, availability |-> db.projection.availability, points |-> db.projection.points]
      value == PerformanceValue(p, minSalary)
  IN  IF db.projection = None
      THEN {[performance |-> None, market |-> None, surplus |-> None]}
      ELSE [performance : {value}, market : {estimateMarketValue(p, value, pool, minSalary)},
            surplus : IF hits = {} THEN {None} ELSE {value - h : h \in hits}]

(***************************************************************************)
(* Properties.                                                             *)
(***************************************************************************)
(* Two comparables of a player's position contend for the fifth place when *)
(* one is as far from him as another and only one of them is used.         *)
TiedAtFifth(p, pool) ==
  LET same == {i \in DOMAIN pool : pool[i].position = p.position}
      Nearer(i) == Cardinality({j \in same : Apart(p, pool[j]) < Apart(p, pool[i])})
      NoFarther(i) == Cardinality({j \in same : Apart(p, pool[j]) <= Apart(p, pool[i])})
  IN  \E i \in same : Nearer(i) < 5 /\ NoFarther(i) > 5

(* The order in which the database returns the pool, and comparables that  *)
(* are farther than five others, change an estimate only if comparables    *)
(* contend for the fifth place; whatever else is in the pool of another    *)
(* position changes nothing.                                               *)
EstimateOfNearest(p, value, pool) ==
  LET e == estimateMarketValue(p, value, pool, MinSalary)
      Same(other) == [estimateMarketValue(p, value, other, MinSalary) EXCEPT !.used = ToSet(@)] = [e EXCEPT !.used = ToSet(@)]
      farthest == Max({Apart(p, e.used[i]) : i \in DOMAIN e.used})
  IN  /\ ~TiedAtFifth(p, pool) => Same(Reverse(pool))
      /\ Len(e.used) = 5 =>
           \A c \in ToSet(pool) : Apart(p, c) > farthest =>
             Same(SelectSeq(pool, LAMBDA x : x # c)) /\ Same(<<[c EXCEPT !.aav = 10 * @]>> \o pool)
      /\ Same(SelectSeq(pool, LAMBDA x : x.position = p.position))

(* A higher price of his own, and a dearer comparable, never make a player *)
(* cheaper; a restricted one is never dearer than an open one; and a band  *)
(* holds its estimate and is narrower, for the money, the more comparables *)
(* it is of.                                                               *)
EstimateMonotone(p, value, pool) ==
  LET e == estimateMarketValue(p, value, pool, MinSalary)
      Aav(q, v, comps) == estimateMarketValue(q, v, comps, MinSalary).aav
  IN  /\ Aav(p, value + 1, pool) >= e.aav
      /\ \A i \in DOMAIN pool : Aav(p, value, [pool EXCEPT ![i].aav = @ + 300]) >= e.aav
      /\ Aav([p EXCEPT !.status = "rfa"], value, pool) <= Aav([p EXCEPT !.status = "ufa"], value, pool)
      /\ e.low <= e.aav /\ e.aav <= e.high
      /\ \A n \in 1..Len(pool) :
           LET fewer == estimateMarketValue(p, value, SubSeq(pool, 1, n - 1), MinSalary)
           IN  /\ fewer.confidence <= e.confidence
               /\ (e.high - e.aav - 1) * fewer.aav <= (fewer.high - fewer.aav + 1) * e.aav

(* A page of one organization is the same whatever other organizations     *)
(* have recorded, and its surplus is of the price that it shows and of an  *)
(* active contract.                                                        *)
ViewIsOwn(player, db) ==
  /\ Views(player, db) = Views(player, [db EXCEPT !.comparables = SelectSeq(@, LAMBDA c : c.org \in {None, player.org})])
  /\ \A v \in Views(player, db) :
       /\ v.surplus # None => \E c \in db.contracts : c.player = player.id /\ c.active /\ v.surplus + c.hit = v.performance
       /\ v.market # None => v.market.confidence <= 85 /\ v.market.aav <= Max({v.performance} \cup {Inflated(c.aav) : c \in ToSet(v.market.used)})
=============================================================================
