----------------------------- MODULE Consensus ------------------------------
(***************************************************************************)
(* Scout consensus as a pure operator (lib/scouting/consensus.ts): mean,   *)
(* median, range and standard deviation of the ranks that scouts gave a    *)
(* prospect.  The mean and the deviation are kept in hundredths and the    *)
(* median in tenths, rounded half up as toFixed rounds.                    *)
(***************************************************************************)
EXTENDS Integers, FiniteSets, FiniteSetsExt

CONSTANT None  \* null

MinConsensusSubmissions == 3

RoundedDiv(n, d) == (2 * n + d) \div (2 * d)

(* The k-th of the ranks of S in ascending order.                          *)
Nth(S, rank, k) ==
  Min({rank[u] : u \in {w \in S : Cardinality({v \in S : rank[v] <= rank[w]}) >= k}})

(* Fault: the upper of the two in the middle.                              *)
Median_Upper(S, rank) == 10 * Nth(S, rank, Cardinality(S) \div 2 + 1)

Median(S, rank) ==
  LET n == Cardinality(S) IN
  IF n % 2 = 1 THEN 10 * Nth(S, rank, (n + 1) \div 2)
  ELSE 5 * (Nth(S, rank, n \div 2) + Nth(S, rank, n \div 2 + 1))

(* Fault: the deviation of a sample, not of the population.                *)
Deviation_Sample(S, rank) ==
  LET n == Cardinality(S)
      total == MapThenSumSet(LAMBDA u : rank[u], S)
      v == n * MapThenSumSet(LAMBDA u : rank[u] * rank[u], S) - total * total
      d == IF n = 1 THEN 1 ELSE n * (n - 1)
  IN  CHOOSE k \in 0..(100 * (n * Max({rank[u] : u \in S}))) :
        /\ k = 0 \/ (2 * k - 1) * (2 * k - 1) * d <= 40000 * v
        /\ 40000 * v < (2 * k + 1) * (2 * k + 1) * d

(* The root of the variance v / n^2, in hundredths.                        *)
Deviation(S, rank) ==
  LET n == Cardinality(S)
      total == MapThenSumSet(LAMBDA u : rank[u], S)
      v == n * MapThenSumSet(LAMBDA u : rank[u] * rank[u], S) - total * total
  IN  CHOOSE k \in 0..(100 * Max({rank[u] : u \in S})) :
        /\ k = 0 \/ (2 * k - 1) * (2 * k - 1) * n * n <= 40000 * v
        /\ 40000 * v < (2 * k + 1) * (2 * k + 1) * n * n

(* computeConsensus of the ranks that the scouts S gave.                   *)
ConsensusOf(S, rank) ==
  IF S = {} THEN None
  ELSE
    LET n == Cardinality(S)
        best == Min({rank[u] : u \in S})
        worst == Max({rank[u] : u \in S})
    IN  [submissions |-> n,
         mean |-> RoundedDiv(100 * MapThenSumSet(LAMBDA u : rank[u], S), n),
         median |-> Median(S, rank),
         best |-> best,
         worst |-> worst,
         spread |-> worst - best,
         deviation |-> Deviation(S, rank),
         insufficient |-> n < MinConsensusSubmissions,
         disagree |-> worst - best >= 10]
=============================================================================
