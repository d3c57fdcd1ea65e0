--------------------------- MODULE MCOrganization ---------------------------
(***************************************************************************)
(* What administrators do, one part of the model at a time: the members of *)
(* an organization (of one admin, a colleague with an account and an       *)
(* outsider without one, with two invites and two people accepting at a    *)
(* time); two league rules edited by three administrators; and an          *)
(* organization set up and clubs imported by two, on PGlite and, fewer     *)
(* requests, on Postgres, where transactions cross.  While a part is at    *)
(* work the others stay as they are at first.                              *)
(***************************************************************************)
EXTENDS Membership, LeagueRules, OrgSetup, TLC

CONSTANTS ann, bob, cat, i1, i2, a1, a2, j1, j2, h1, cap, floor, e1, e2, e3, o1, chi, det, n1, n2

VARIABLE part

allVars == <<part, vars, ruleVars, setupVars>>

MCFirstRoles == ann :> "org_admin" @@ bob :> None @@ cat :> None
MCTwoAdmins == ann :> "org_admin" @@ bob :> "org_admin" @@ cat :> None
MCOffers == {[role |-> "org_admin", email |-> None, maxUses |-> 1],
             [role |-> "league_admin", email |-> cat, maxUses |-> 2]}
MCNewRoles == {"viewer", "league_admin"}
Event(t, n, at) == [type |-> t, status |-> "active", seats |-> n, created |-> at]
MCEvents == {Event("created", 2, 1), Event("deleted", 3, 2)}
MCFirstValue == cap :> 1 @@ floor :> 1
MCRole == e1 :> "org_admin" @@ e2 :> "org_admin" @@ e3 :> "league_admin"

MCFirstClub == n1 :> chi @@ n2 :> det
MCOrgOf == e1 :> o1 @@ e2 :> o1

Pglite == INSTANCE OrgSetup WITH MaxTrades <- 0
Postgres == INSTANCE OrgSetup WITH MaxRequests <- 3

MembersInit == part = "members" /\ Init /\ RulesInit /\ SetupInit /\ serial
MembersNext == part = "members" /\ Next /\ UNCHANGED <<part, ruleVars, setupVars>>
MembersSpec == MembersInit /\ [][MembersNext]_allVars

OrganizationInit ==
  \/ MembersInit
  \/ /\ Init /\ exclusive /\ RulesInit /\ SetupInit
     /\ \/ part = "setup"
        \/ part = "rules" /\ serial

OrganizationNext ==
  \/ MembersNext
  \/ part = "rules" /\ RulesNext /\ UNCHANGED <<part, vars, setupVars>>
  \/ part = "setup" /\ serial /\ Pglite!SetupNext /\ UNCHANGED <<part, vars, ruleVars>>
  \/ part = "setup" /\ ~serial /\ Postgres!SetupNext /\ UNCHANGED <<part, vars, ruleVars>>

OrganizationSpec == OrganizationInit /\ [][OrganizationNext]_allVars

MembersSymmetry == Permutations({j1, j2}) \cup Permutations({i1, i2})
OrganizationSymmetry == MembersSymmetry \cup Permutations({e1, e2}) \cup Permutations({cap, floor})
=============================================================================
