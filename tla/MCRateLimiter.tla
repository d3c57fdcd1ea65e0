--------------------------- MODULE MCRateLimiter ---------------------------
(***************************************************************************)
(* What goes out to the sources without an import, one part of the model   *)
(* at a time: limiter, four requests that may all go to one of two hosts   *)
(* of different intervals or be spread over both; scores, visits of the    *)
(* scoreboard; and situations, visits of the teams' game situations.       *)
(* While a part is at work the others stay as they were at first.          *)
(***************************************************************************)
EXTENDS RateLimiter, LeagueViews

CONSTANTS h1, h2, r1, r2, r3, r4, v1, v2, g1

VARIABLE part

allVars == <<vars, pageVars, part>>

MCHosts == {h1, h2}
MCRequests == {r1, r2, r3, r4}
MCInterval == [h \in MCHosts |-> IF h = h1 THEN 3 ELSE 1]
MCTurnOfYear == [s \in Seasons |-> 3]

(* Bound: the clock while the scoreboard is visited.                       *)
BoardTime == 2

OutInit ==
  /\ Init /\ PagesInit
  /\ \/ part \in {"limiter", "scores"} /\ files = [s \in Seasons |-> Nothing]
     \/ part = "situations"

OutNext ==
  /\ \/ part = "limiter" /\ Next /\ UNCHANGED pageVars
     \/ part = "scores" /\ ((Pass /\ clock < BoardTime) \/ Restart \/ ScoreboardNext) /\ UNCHANGED vars
     \/ part = "situations" /\ (Pass \/ Restart \/ SituationsNext) /\ UNCHANGED vars
  /\ UNCHANGED part

(* Timers fire and fetches answer or break off.                            *)
OutFairness ==
  /\ WF_allVars(part = "limiter" /\ Tick /\ UNCHANGED <<pageVars, part>>)
  /\ \A r \in MCRequests : WF_allVars(part = "limiter" /\ Step(r) /\ UNCHANGED <<pageVars, part>>)
  /\ WF_allVars(part = "situations" /\ Refresh("2025-26") /\ UNCHANGED <<vars, part>>)

OutSpec == OutInit /\ [][OutNext]_allVars /\ OutFairness

-----------------------------------------------------------------------------
(* Every request that was chained starts or is told that its sleep failed, *)
(* and every refresh that has begun ends: neither stalls those behind it.  *)
EachSettles == EverySettles /\ (part = "situations" ~> refreshing = {})

(* "A finished season is fetched once; the season in progress is refreshed *)
(* every few hours" (situationsService.ts:5): who visits a season that is  *)
(* over is shown a copy fetched when it was over.                          *)
FinishedSeason == part = "situations" => FetchedWhenFinished
=============================================================================
