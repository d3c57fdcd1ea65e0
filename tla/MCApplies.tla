----------------------------- MODULE MCApplies ------------------------------
(***************************************************************************)
(* Three instances of applies, one part each.  In "races", whose constants *)
(* the configuration gives, the embedded database runs three requests that *)
(* want the same contract; in "postgres" two applies lock two contracts in *)
(* opposite orders; both while the records are edited by hand.  In         *)
(* "editing" moves of a scenario are added, toggled and removed, and       *)
(* scenarios archived, while they are applied.                             *)
(***************************************************************************)
EXTENDS ScenarioApply

CONSTANTS c1, c2, c3, c4, c5, p1, p2, p3, p4, p5, s1, s2, r1, r2, r3, t1, t2, t3, t4, t5

VARIABLE part

allVars == <<vars, part>>

(* Two contracts, a free agent, and scenarios that want the same contract: *)
(* one trades it away and signs the free agent, the other buys it out.     *)
MCContracts == {c1, c2, c3, c4, c5}
MCPlayers == {p1, p2, p3, p4, p5}
MCSeasons == 1..2

Person(name, st) ==
  [name |-> name, goalie |-> FALSE, onTeam |-> st # "non_roster", status |-> st]
OldRow(hit) == [hit |-> hit, base |-> hit, cash |-> hit]
Deal(player, ss, hit) ==
  [player |-> player, status |-> "active", twoWay |-> FALSE, kept |-> 0, 
   rows |-> [s \in MCSeasons |-> IF s \in ss THEN OldRow(hit) ELSE None]]

MCOfficials ==
  {[contracts |-> (c1 :> Deal(p1, {1, 2}, 4) @@ c2 :> Deal(p2, {1}, 3)) @@ [c \in MCContracts |-> None],
    players |-> (p1 :> Person("Lee", "pro_active") @@ p2 :> Person("Roy", "minor")
                   @@ p3 :> Person("Fox", "non_roster")) @@ [p \in MCPlayers |-> None],
    obligations |-> {},
    log |-> <<>>]}

Years(ss, hit) == [s \in ss |-> [hit |-> hit, bonus |-> 0]]
Sign == [kind |-> "sign_free_agent", name |-> "Fox", goalie |-> FALSE, twoWay |-> FALSE, kept |-> 0,
         seasons |-> Years({1}, 5)]
TradeOut == [kind |-> "trade_out", contract |-> c1, pct |-> 50]
Buyout == [kind |-> "buyout", contract |-> c1, pct |-> 67]
CallUp == [kind |-> "call_up", contract |-> c2]
Malformed == [kind |-> "trade_out", contract |-> c1, pct |-> 150]
Extension == [kind |-> "extension", contract |-> c2, seasons |-> Years({2}, 3)]

Listed(id, order, move) == [id |-> id, order |-> order, move |-> move, enabled |-> TRUE]

MCScenarios == {s1, s2}
MCPlans == s1 :> <<Listed(t1, 0, TradeOut), Listed(t2, 1, Sign)>>
             @@ s2 :> <<Listed(t3, 0, CallUp), Listed(t4, 1, Buyout)>>

(* Two applies that lock c1 and c2 in opposite orders.                     *)
CrossingPlans == s1 :> <<Listed(t1, 0, TradeOut), Listed(t2, 1, Extension)>>
                   @@ s2 :> <<Listed(t3, 0, Extension), Listed(t4, 1, Buyout)>>

(* A signing that just fits under the cap.                                 *)
SignOnly == s1 :> <<Listed(t1, 0, [Sign EXCEPT !.seasons = Years({1}, 3)])>> @@ s2 :> <<>>
(* One scenario holds a disabled move that does not parse.                 *)
EditedPlans == s1 :> <<Listed(t1, 0, TradeOut), [Listed(t2, 1, Malformed) EXCEPT !.enabled = FALSE]>>
                 @@ s2 :> <<Listed(t3, 0, CallUp), Listed(t4, 1, Buyout)>>
MCRowIds == {t1, t2, t3, t4, t5}
MCNewRows == [s \in MCSeasons |-> IF s = 1 THEN OldRow(2) ELSE None]

MCRules ==
  [s \in MCSeasons |-> [k \in RuleKeys |->
     CASE k = "upper_limit" -> 9
       [] k = "buried_allowance" -> 1
       [] k = "min_salary" -> 1
       [] k = "max_active" -> 3
       [] OTHER -> None]]

Two == {r1, r2}
Three == {r1, r2, r3}
JustC1 == {c1}
JustC2 == {c2}
JustP3 == {p3}
JustS1 == {s1}
Empty == {}
Minor == {"minor"}
Archive == {"archived", "active"}
Added1 == {Extension}

-----------------------------------------------------------------------------

Postgres ==
  INSTANCE ScenarioApply WITH Exclusive <- FALSE, Requests <- Two, Plans <- CrossingPlans, Terminable <- JustC2

Editing ==
  INSTANCE ScenarioApply WITH
    Requests <- Two, Plans <- EditedPlans, Editable <- JustS1, EditMoves <- Added1, MaxRows <- 3,
    Signable <- Empty, Terminable <- Empty, StatusEdits <- Empty, ScenarioEdits <- Archive

AppliesInit ==
  \/ part = "races" /\ Init
  \/ part = "postgres" /\ Postgres!Init
  \/ part = "editing" /\ Editing!Init

AppliesNext ==
  /\ \/ part = "races" /\ Next
     \/ part = "postgres" /\ Postgres!Next
     \/ part = "editing" /\ Editing!Next
  /\ UNCHANGED part

(* What the server has begun it goes on with, and a deadlock is broken.    *)
Step(r) ==
  \/ part = "postgres" /\ Postgres!Continue(r)
  \/ part = "editing" /\ Editing!Continue(r)

AppliesFairness ==
  /\ \A r \in Three : WF_allVars(part = "races" /\ Continue(r) /\ UNCHANGED part)
  /\ \A r \in Two : /\ WF_allVars(Step(r) /\ UNCHANGED part)
                     /\ WF_allVars(part = "postgres" /\ Postgres!AbortDeadlock(r) /\ UNCHANGED part)

AppliesSpec == AppliesInit /\ [][AppliesNext]_allVars /\ AppliesFairness

-----------------------------------------------------------------------------
(* One instance alone, without fairness.                                   *)
RacesInit == part = "races" /\ Init
RacesSpec == RacesInit /\ [][Next /\ UNCHANGED part]_allVars

(* Every request that has begun comes to an end, though others' failures,  *)
(* refusals and transactions are in its way.                               *)
Underway(r) == r \in DOMAIN pc /\ ~Ended(r)
EachRequestEnds == \A r \in Three : Underway(r) ~> ~Underway(r)

(* Where the embedded database runs requests that race, the records change *)
(* as OfficialLedger says they do: a whole scenario at a time.             *)
Raced == IF part = "races" THEN db ELSE CHOOSE d \in Officials : TRUE
AppliedLedger == INSTANCE OfficialLedger WITH MoveLists <- BoundedSeq(AllMoves, MaxRows), db <- Raced
ImplementsOfficialLedger == AppliedLedger!Spec
=============================================================================
