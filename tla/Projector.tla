----------------------------- MODULE Projector -----------------------------
(***************************************************************************)
(* The scenario projector (src/src/lib/scenario/projector.ts): overlays    *)
(* the moves of a scenario on the cap inputs of every season, without      *)
(* touching the official records.                                          *)
(*                                                                         *)
(* Notes are left out: a move whose target is not found, and a proposed    *)
(* season that is outside the league, change nothing.                      *)
(***************************************************************************)
EXTENDS RosterMoves, SequencesExt

HypotheticalRow(proposed, m, cash) ==
  [hit |-> proposed.hit, base |-> proposed.hit, cash |-> cash, minor |-> None,
   twoWay |-> m.twoWay, kept |-> m.kept, goalie |-> m.goalie, status |-> "pro_active"]

(* A signing's cash includes the bonus, an acquisition's does not.         *)
ProjectedCash(proposed, m) ==
  IF m.kind = "sign_free_agent" THEN proposed.hit + proposed.bonus ELSE proposed.hit

(* The seasons whose rows include contract c.                              *)
Found(inputs, c) == {s \in Seasons : c \in DOMAIN inputs[s].rows}

ProjectArrival(inputs, m, id) ==
  [s \in Seasons |->
    IF s \in Covered(m)
    THEN [inputs[s] EXCEPT !.rows =
            @ @@ (id :> HypotheticalRow(m.seasons[s], m, ProjectedCash(m.seasons[s], m)))]
    ELSE inputs[s]]

(* The row is removed from every season that has it, and what the team     *)
(* still owes for it takes its place.                                      *)
ProjectDeparture(inputs, m) ==
  LET Debt(s) == {[contract |-> m.contract, season |-> s, kind |-> DebtKind(m),
                   amount |-> Share(inputs[s].rows[m.contract].hit, m.pct), by |-> None]}
  IN  [s \in Seasons |->
        IF s \in Found(inputs, m.contract)
        THEN [inputs[s] EXCEPT
               !.rows = [c \in DOMAIN @ \ {m.contract} |-> @[c]],
               !.obligations = @ \cup (IF m.kind = "buyout" \/ m.pct > 0 THEN Debt(s) ELSE {})]
        ELSE inputs[s]]

(* Fault: an IR placement is previewed as a plain assignment to the minors *)
(* when it is long-term.                                                   *)
ProjectAssignment_Buried(inputs, m) ==
  LET found == Found(inputs, m.contract)
  IN  [s \in Seasons |->
        IF found # {} /\ s = Min(found)
        THEN [inputs[s] EXCEPT !.rows[m.contract].status =
                IF m.kind = "ir_placement" /\ m.longTerm THEN "minor" ELSE AssignedStatus(m)]
        ELSE inputs[s]]

(* "Assignment affects the first (current) season only": the first season  *)
(* of the league that has a row of the contract.                           *)
ProjectAssignment(inputs, m) ==
  LET found == Found(inputs, m.contract)
  IN  [s \in Seasons |->
        IF found # {} /\ s = Min(found)
        THEN [inputs[s] EXCEPT !.rows[m.contract].status = AssignedStatus(m)]
        ELSE inputs[s]]

(* The added rows copy the contract's first row but for the figures.       *)
ProjectExtension(inputs, m) ==
  LET found == Found(inputs, m.contract)
      template == inputs[Min(found)].rows[m.contract]
      Year(proposed) == [template EXCEPT !.hit = proposed.hit, !.base = proposed.hit,
                                         !.cash = proposed.hit, !.status = "pro_active"]
  IN  [s \in Seasons |->
        IF found # {} /\ s \in Covered(m) \ found
        THEN [inputs[s] EXCEPT !.rows = @ @@ (m.contract :> Year(m.seasons[s]))]
        ELSE inputs[s]]

(* One move; id is the hypothetical contract's, should the move make one.  *)
ProjectMove(inputs, m, id) ==
  CASE m.kind \in Incoming -> ProjectArrival(inputs, m, id)
    [] m.kind \in Departures -> ProjectDeparture(inputs, m)
    [] m.kind \in Assignments -> ProjectAssignment(inputs, m)
    [] m.kind = "extension" -> ProjectExtension(inputs, m)

(* projectScenario: the moves in order.                                    *)
Project(inputs, plan) ==
  LET Step(acc, m) == [inputs |-> ProjectMove(acc.inputs, m, <<"hypo", acc.next>>),
                       next |-> acc.next + 1]
  IN  FoldLeft(Step, [inputs |-> inputs, next |-> 1], plan).inputs
=============================================================================
