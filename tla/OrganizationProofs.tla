------------------------- MODULE OrganizationProofs -------------------------
(***************************************************************************)
(* Proofs about an organization.                                           *)
(*                                                                         *)
(* Membership: who is a member, in which role and by which invite, for any *)
(* number of users, invites, requests and billing events, on either        *)
(* database.                                                               *)
(*                                                                         *)
(* LeagueRules, for any rules, values and editors: a rule has one active   *)
(* row, its latest; the history and the audit tell what happened; and no   *)
(* row of a rule is ever overwritten.                                      *)
(*                                                                         *)
(* OrgSetup, for any requests, clubs and players: what requests that die   *)
(* leave half made, the one NHL league, the club's one team, rosters of    *)
(* players on record, and statuses that no import changes.                 *)
(***************************************************************************)
EXTENDS Membership, LeagueRules, OrgSetup, FiniteSetTheorems, TLAPS

-----------------------------------------------------------------------------
(* Members and invites.                                                    *)

Tasks == {None} \cup OrgRoles \cup [member : Nat, role : OrgRoles] \cup [member : Nat]
         \cup [user : Users, invite : Invites \cup {None}]

(* Tasks are kept one per request, and each kind of request has its labels.*)
SlotInv ==
  /\ task \in [Slots -> Tasks]
  /\ \A r \in Slots : /\ pc[r] \in AdminLabels => r \in AdminSlots
                      /\ pc[r] \in JoinLabels => r \in JoinSlots

(* What a transaction of acceptInvite may count on: its invite is there    *)
(* and is for it; once it has claimed a use, no other has the row, and     *)
(* the use and the invite are still good.                                  *)
ClaimInv ==
  /\ \A r \in Slots : InTransaction(r) => invites[task[r].invite] # None /\ IsFor(task[r].invite, task[r].user)
  /\ \A r \in Slots : pc[r] = "claimed" =>
       /\ invites[task[r].invite].uses < invites[task[r].invite].offer.maxUses
       /\ ~invites[task[r].invite].revoked
       /\ ~InviteLocked(task[r].invite, r)

(* Rows are numbered as they are born.                                     *)
RowInv ==
  /\ IsFiniteSet(joined)
  /\ \A m \in members : m.id <= born
  /\ \A m, n \in members : m.id = n.id => m = n
  /\ \A j \in joined : j.row <= born

MembershipInv == TypeOK /\ SlotInv /\ ClaimInv /\ RowInv

-----------------------------------------------------------------------------
LEMMA InitTypes == Init => TypeOK /\ SlotInv /\ born = Cardinality(FirstMembers) /\ IsFiniteSet(FirstMembers)
<1> SUFFICES ASSUME Init
             PROVE  TypeOK /\ SlotInv /\ born = Cardinality(FirstMembers) /\ IsFiniteSet(FirstMembers)
  OBVIOUS
<1>1. IsFiniteSet(FirstMembers) /\ Cardinality(FirstMembers) \in Nat
  BY UsersAssumption, FS_CardinalityType, FS_Subset DEF FirstMembers
<1>2. born \in Nat /\ born = Cardinality(FirstMembers)
  BY <1>1 DEF Init
<1>3. members \subseteq MemberRows
  <2>1. PICK number \in [FirstMembers -> 1..born] :
          members = {[id |-> number[u], user |-> u, role |-> FirstRoles[u]] : u \in FirstMembers}
    BY DEF Init
  <2>2. \A u \in FirstMembers : number[u] \in Nat /\ u \in Users /\ FirstRoles[u] \in OrgRoles
    <3> SUFFICES ASSUME NEW u \in FirstMembers
                 PROVE  number[u] \in Nat /\ u \in Users /\ FirstRoles[u] \in OrgRoles
      OBVIOUS
    <3>1. number[u] \in 1..born
      BY <2>1
    <3>2. u \in Users /\ FirstRoles[u] # None
      BY DEF FirstMembers
    <3> QED BY <3>1, <3>2, <1>2, RolesAssumption
  <2> QED BY <2>1, <2>2 DEF MemberRows
<1>4. TypeOK
  BY <1>2, <1>3, UsersAssumption, DatabasesAssumption
     DEF Init, BillingInit, TypeOK, AdminLabels, JoinLabels
<1>5. SlotInv
  BY DEF Init, SlotInv, Tasks, AdminLabels, JoinLabels
<1> QED BY <1>1, <1>2, <1>4, <1>5

(* A step that only moves one request on.                                  *)
LEMMA GotoTypes ==
  ASSUME TypeOK, SlotInv, NEW r \in Slots, NEW label, NEW data, Goto(r, label, data),
         label \in AdminLabels \cup JoinLabels,
         data \in TasksAt(label),
         label \in AdminLabels => r \in AdminSlots,
         label \in JoinLabels => r \in JoinSlots,
         UNCHANGED <<billingVars, exclusive, accounts, members, born, invites, joined>>
  PROVE  TypeOK' /\ SlotInv'
<1>1. pc' = [pc EXCEPT ![r] = label] /\ task' = [task EXCEPT ![r] = data]
  BY DEF Goto
<1>2. data \in Tasks
  BY DEF TasksAt, AdminLabels, JoinLabels, Tasks
<1>3. \A q \in Slots : pc'[q] # "idle" => task'[q] \in TasksAt(pc'[q])
  BY <1>1 DEF TypeOK, SlotInv
<1> QED BY <1>1, <1>2, <1>3 DEF TypeOK, SlotInv, billingVars

LEMMA AcceptReadTypes ==
  ASSUME TypeOK, SlotInv, NEW r \in JoinSlots, NEW u \in Users, NEW i \in Invites, AcceptRead(r, u, i)
  PROVE  TypeOK' /\ SlotInv'
<1>1. /\ Goto(r, "reading", [user |-> u, invite |-> i])
      /\ UNCHANGED <<billingVars, exclusive, accounts, members, born, invites, joined>>
  BY DEF AcceptRead
<1>2. [user |-> u, invite |-> i] \in TasksAt("reading")
  BY DEF TasksAt
<1>3. "reading" \in JoinLabels /\ "reading" \notin AdminLabels /\ r \in Slots
  BY DEF JoinLabels, AdminLabels, Slots
<1> QED BY <1>1, <1>2, <1>3, GotoTypes

LEMMA ClaimTypes ==
  ASSUME TypeOK, SlotInv, NEW r \in JoinSlots, Claim(r)
  PROVE  TypeOK' /\ SlotInv'
<1>1. "claimed" \in JoinLabels /\ "claimed" \notin AdminLabels /\ r \in Slots
  BY DEF JoinLabels, AdminLabels, Slots
<1>2. /\ pc[r] = "reading"
      /\ Goto(r, "claimed", task[r])
      /\ UNCHANGED <<billingVars, exclusive, accounts, members, born, invites, joined>>
  BY DEF Claim
<1>3. task[r] \in TasksAt("claimed")
  BY <1>1, <1>2 DEF TypeOK, TasksAt
<1> QED BY <1>1, <1>2, <1>3, GotoTypes

(* The types and the tasks, action by action.                              *)
LEMMA StepTypes == TypeOK /\ SlotInv /\ ClaimInv /\ Next => TypeOK' /\ SlotInv'
<1> SUFFICES ASSUME TypeOK, SlotInv, ClaimInv, Next PROVE TypeOK' /\ SlotInv' OBVIOUS
<1> USE DEF TypeOK, SlotInv, Tasks, AdminLabels, JoinLabels, TasksAt, Goto, Finish, billingVars, memberVars, Slots
<1>1. ASSUME NEW r \in AdminSlots, AdminStep(r) PROVE TypeOK' /\ SlotInv'
  <2>1. ASSUME NEW m \in members, Authorize(r, m) PROVE TypeOK' /\ SlotInv'
    BY <2>1, <1>1 DEF Authorize, MemberRows
  <2>2. ASSUME NEW m \in members, CheckRemoval(r, m) PROVE TypeOK' /\ SlotInv'
    BY <2>2, <1>1 DEF CheckRemoval, MemberRows
  <2>3. ASSUME NEW m \in members, NEW role \in NewRoles, CheckRole(r, m, role) PROVE TypeOK' /\ SlotInv'
    BY <2>3, <1>1, RolesAssumption DEF CheckRole, MemberRows
  <2>4. ASSUME NEW i \in Invites, NEW offer \in Offers, CreateInvite(r, i, offer) PROVE TypeOK' /\ SlotInv'
    BY <2>4, <1>1, OffersAssumption DEF CreateInvite, InviteRows
  <2>5. ASSUME NEW i \in Invites, RevokeInvite(r, i) PROVE TypeOK' /\ SlotInv'
    BY <2>5, <1>1 DEF RevokeInvite, InviteRows
  <2>6. ASSUME WriteRole(r) PROVE TypeOK' /\ SlotInv'
    <3>1. task[r].member \in Nat /\ task[r].role \in OrgRoles
      BY <2>6, <1>1 DEF WriteRole
    <3>2. members' \subseteq MemberRows
      BY <3>1, <2>6 DEF WriteRole, MemberRows
    <3> QED BY <2>6, <1>1, <3>2 DEF WriteRole
  <2>7. ASSUME WriteRemoval(r) PROVE TypeOK' /\ SlotInv'
    BY <2>7, <1>1 DEF WriteRemoval, MemberRows
  <2> QED BY <1>1, <2>1, <2>2, <2>3, <2>4, <2>5, <2>6, <2>7 DEF AdminStep
<1>2. ASSUME NEW r \in JoinSlots, JoinStep(r) PROVE TypeOK' /\ SlotInv'
  <2>1. ASSUME NEW u \in Users, NEW i \in Invites \cup {None}, Admit(r, u, i) PROVE TypeOK' /\ SlotInv'
    BY <2>1, <1>2 DEF Admit
  <2>2. ASSUME NEW u \in Users, NEW i \in Invites, AcceptRead(r, u, i) PROVE TypeOK' /\ SlotInv'
    <3> HIDE DEF TypeOK, SlotInv, Tasks, AdminLabels, JoinLabels, TasksAt, Goto, Finish, Slots
    <3> QED BY <2>2, <1>2, AcceptReadTypes
  <2>3. ASSUME Register(r) PROVE TypeOK' /\ SlotInv'
    <3>1. task[r] \in [user : Users, invite : Invites \cup {None}] /\ task[r].user \in Users
      BY <2>3, <1>2 DEF Register
    <3>2. CASE Finish(r)
      BY <2>3, <3>1, <3>2, <1>2 DEF Register
    <3>3. CASE Goto(r, "registered", task[r]) /\ task[r].invite # None
      <4>1. task[r] \in [user : Users, invite : Invites]
        BY <3>1, <3>3
      <4> QED BY <2>3, <3>1, <3>3, <4>1, <1>2 DEF Register
    <3> QED BY <2>3, <3>2, <3>3 DEF Register
  <2>4. ASSUME Claim(r) PROVE TypeOK' /\ SlotInv'
    <3> HIDE DEF TypeOK, SlotInv, Tasks, AdminLabels, JoinLabels, TasksAt, Goto, Finish, Slots
    <3> QED BY <2>4, <1>2, ClaimTypes
  <2>5. ASSUME Join(r) PROVE TypeOK' /\ SlotInv'
    <3> DEFINE i == task[r].invite
    <3>1. task[r] \in [user : Users, invite : Invites] /\ i \in Invites
      BY <2>5, <1>2 DEF Join
    <3>2. invites[i] \in InviteRows
      BY <3>1, <2>5, <1>2 DEF Join, ClaimInv, InTransaction
    <3>3. invites' \in [Invites -> InviteRows \cup {None}]
      BY <3>1, <3>2, <2>5 DEF Join, InviteRows
    <3>4. born' \in Nat /\ members' \subseteq MemberRows
      BY <3>1, <3>2, <2>5 DEF Join, InviteRows, AllOffers, MemberRows
    <3>5. joined' \subseteq [row : Nat, user : Users, invite : Invites]
      BY <3>1, <3>4, <2>5 DEF Join
    <3> HIDE DEF i
    <3> QED BY <3>3, <3>4, <3>5, <2>5, <1>2 DEF Join
  <2> QED BY <1>2, <2>1, <2>2, <2>3, <2>4, <2>5 DEF JoinStep
<1>3. ASSUME NEW r \in Slots, Abort(r) PROVE TypeOK' /\ SlotInv'
  BY <1>3 DEF Abort
<1>4. ASSUME NEW i \in Invites, Expire(i) PROVE TypeOK' /\ SlotInv'
  BY <1>4 DEF Expire, InviteRows
<1>5. ASSUME BillingStep PROVE TypeOK' /\ SlotInv'
  <2>1. PICK h \in Handlers : Store(h) \/ \E e \in Events : Receive(h, e)
    BY <1>5 DEF BillingStep
  <2>2. subscription' \in Subscriptions \cup {None} /\ handling' \in [Handlers -> Events \cup {None}]
    <3>1. CASE Store(h)
      <4>1. handling[h] \in AllEvents
        BY <3>1, EventsAssumption DEF Store
      <4>2. StateOf(handling[h]) \in Subscriptions
        BY <4>1 DEF StateOf, Subscriptions, AllEvents, SubscriptionStatuses, PaidStatuses
      <4> QED BY <3>1, <4>2 DEF Store
    <3>2. CASE \E e \in Events : Receive(h, e)
      BY <3>2 DEF Receive
    <3> QED BY <2>1, <3>1, <3>2
  <2> QED BY <1>5, <2>2 DEF BillingStep
<1> QED BY <1>1, <1>2, <1>3, <1>4, <1>5 DEF Next

(* What can change of an invite that is there.                             *)
SameOffers(i) ==
  /\ \A k \in Invites \ {i} : invites'[k] = invites[k]
  /\ invites'[i] # None /\ invites'[i].offer = invites[i].offer

LEMMA RowTypes ==
  ASSUME TypeOK, NEW i \in Invites, invites[i] # None
  PROVE  /\ invites[i] \in InviteRows
         /\ \A b \in BOOLEAN :
              /\ invites' = [invites EXCEPT ![i].revoked = b] =>
                   SameOffers(i) /\ invites'[i].uses = invites[i].uses /\ invites'[i].revoked = b
              /\ invites' = [invites EXCEPT ![i].expired = b] =>
                   SameOffers(i) /\ invites'[i].uses = invites[i].uses /\ invites'[i].revoked = invites[i].revoked
         /\ invites' = [invites EXCEPT ![i].uses = @ + 1] =>
              SameOffers(i) /\ invites'[i].uses = invites[i].uses + 1 /\ invites'[i].revoked = invites[i].revoked
<1>1. invites[i] \in InviteRows /\ None \notin InviteRows /\ DOMAIN invites = Invites
  BY NoneAssumption DEF TypeOK
<1>2. \A b \in BOOLEAN : /\ [invites[i] EXCEPT !.revoked = b] \in InviteRows
                         /\ [invites[i] EXCEPT !.expired = b] \in InviteRows
  BY <1>1 DEF InviteRows
<1>3. [invites[i] EXCEPT !.uses = @ + 1] \in InviteRows
  BY <1>1 DEF InviteRows
<1> QED BY <1>1, <1>2, <1>3 DEF SameOffers, InviteRows

(* A request that moves on without entering a transaction.                 *)
LEMMA GotoClaims ==
  ASSUME TypeOK, SlotInv, ClaimInv, NEW r \in Slots, NEW label, NEW data, Goto(r, label, data),
         label \notin {"reading", "claimed"}, invites' = invites
  PROVE  ClaimInv'
  BY DEF TypeOK, SlotInv, ClaimInv, InTransaction, InviteLocked, IsFor, Goto

(* A step that leaves an invite alone, or only uses, revokes or expires    *)
(* one that no other request has claimed, keeps the claims.                *)
LEMMA StepClaims == TypeOK /\ SlotInv /\ ClaimInv /\ Next => ClaimInv'
<1> SUFFICES ASSUME TypeOK, SlotInv, ClaimInv, Next PROVE ClaimInv' OBVIOUS
<1>0. /\ task \in [Slots -> Tasks]
      /\ pc \in [Slots -> {"idle"} \cup AdminLabels \cup JoinLabels]
      /\ \A r \in Slots : InTransaction(r) => task[r].invite \in Invites
  BY DEF TypeOK, SlotInv, TasksAt, AdminLabels, JoinLabels, InTransaction
<1>1. ASSUME NEW r \in AdminSlots, AdminStep(r) PROVE ClaimInv'
  <2>1. ASSUME NEW m \in members, Authorize(r, m) PROVE ClaimInv'
    BY <2>1, GotoClaims DEF Authorize, Slots
  <2>2. ASSUME NEW m \in members, CheckRemoval(r, m) PROVE ClaimInv'
    BY <2>2, GotoClaims DEF CheckRemoval, Slots
  <2>3. ASSUME NEW m \in members, NEW role \in NewRoles, CheckRole(r, m, role) PROVE ClaimInv'
    BY <2>3, GotoClaims DEF CheckRole, Slots
  <2>4. ASSUME NEW i \in Invites, NEW offer \in Offers, CreateInvite(r, i, offer) PROVE ClaimInv'
    BY <1>0, <2>4 DEF ClaimInv, InTransaction, InviteLocked, IsFor, CreateInvite, Finish, Goto, Slots, TypeOK
  <2>5. ASSUME NEW i \in Invites, RevokeInvite(r, i) PROVE ClaimInv'
    <3>1. pc' = [pc EXCEPT ![r] = "idle"] /\ task' = [task EXCEPT ![r] = None] /\ pc[r] = "authorized" /\ r \in Slots
      BY <2>5 DEF RevokeInvite, Finish, Goto, Slots
    <3>2. SameOffers(i)
      BY <2>5, RowTypes DEF RevokeInvite
    <3>3. \A q \in Slots : pc[q] = "claimed" => task[q].invite # i
      BY <2>5, <3>1 DEF RevokeInvite, InviteLocked
    <3> QED BY <1>0, <3>1, <3>2, <3>3 DEF ClaimInv, InTransaction, InviteLocked, IsFor, SameOffers
  <2>6. ASSUME WriteRole(r) PROVE ClaimInv'
    BY <2>6, GotoClaims DEF WriteRole, Finish, Slots
  <2>7. ASSUME WriteRemoval(r) PROVE ClaimInv'
    BY <2>7, GotoClaims DEF WriteRemoval, Finish, Slots
  <2> QED BY <1>1, <2>1, <2>2, <2>3, <2>4, <2>5, <2>6, <2>7 DEF AdminStep
<1>2. ASSUME NEW r \in JoinSlots, JoinStep(r) PROVE ClaimInv'
  <2>1. ASSUME NEW u \in Users, NEW i \in Invites \cup {None}, Admit(r, u, i) PROVE ClaimInv'
    BY <1>0, <2>1 DEF ClaimInv, InTransaction, InviteLocked, IsFor, Admit, Goto, Slots
  <2>2. ASSUME NEW u \in Users, NEW i \in Invites, AcceptRead(r, u, i) PROVE ClaimInv'
    BY <1>0, <2>2 DEF ClaimInv, InTransaction, InviteLocked, IsFor, AcceptRead, Works, Goto, Slots
  <2>3. ASSUME Register(r) PROVE ClaimInv'
    BY <1>0, <2>3 DEF ClaimInv, InTransaction, InviteLocked, IsFor, Register, Finish, Goto, Slots
  <2>4. ASSUME Claim(r) PROVE ClaimInv'
    BY <1>0, <2>4 DEF ClaimInv, InTransaction, InviteLocked, IsFor, Claim, Goto, Slots
  <2>5. ASSUME Join(r) PROVE ClaimInv'
    <3>1. pc' = [pc EXCEPT ![r] = "idle"] /\ task' = [task EXCEPT ![r] = None] /\ pc[r] = "claimed" /\ r \in Slots
      BY <2>5 DEF Join, Finish, Goto, Slots
    <3>2. task[r].invite \in Invites /\ invites[task[r].invite] # None
      BY <1>0, <3>1 DEF ClaimInv, InTransaction
    <3>3. SameOffers(task[r].invite)
      BY <2>5, <3>2, RowTypes DEF Join
    <3>4. \A q \in Slots : pc[q] = "claimed" /\ q # r => task[q].invite # task[r].invite
      BY <3>1 DEF ClaimInv, InviteLocked
    <3> QED BY <1>0, <3>1, <3>2, <3>3, <3>4 DEF ClaimInv, InTransaction, InviteLocked, IsFor, SameOffers
  <2> QED BY <1>2, <2>1, <2>2, <2>3, <2>4, <2>5 DEF JoinStep
<1>3. ASSUME NEW r \in Slots, Abort(r) PROVE ClaimInv'
  BY <1>3, GotoClaims DEF Abort, Finish
<1>4. ASSUME NEW i \in Invites, Expire(i) PROVE ClaimInv'
  <2>1. UNCHANGED <<pc, task>> /\ SameOffers(i)
    BY <1>4, RowTypes DEF Expire
  <2>2. invites'[i].uses = invites[i].uses /\ invites'[i].revoked = invites[i].revoked
    BY <1>4, RowTypes DEF Expire
  <2> QED BY <1>0, <2>1, <2>2 DEF ClaimInv, InTransaction, InviteLocked, IsFor, SameOffers
<1>5. ASSUME BillingStep PROVE ClaimInv'
  BY <1>5 DEF ClaimInv, InTransaction, InviteLocked, IsFor, BillingStep, memberVars
<1> QED BY <1>1, <1>2, <1>3, <1>4, <1>5 DEF Next

LEMMA FirstRow ==
  Init => /\ \A m \in members : m.user \in FirstMembers /\ m.role = FirstRoles[m.user] /\ m.user \in Users
          /\ \A m, n \in members : m.user = n.user => m = n
          /\ \A u \in FirstMembers : \E m \in members : m.user = u
<1> SUFFICES ASSUME Init
             PROVE  /\ \A m \in members : m.user \in FirstMembers /\ m.role = FirstRoles[m.user] /\ m.user \in Users
                    /\ \A m, n \in members : m.user = n.user => m = n
                    /\ \A u \in FirstMembers : \E m \in members : m.user = u
  OBVIOUS
<1>1. PICK number \in [FirstMembers -> 1..born] :
        members = {[id |-> number[u], user |-> u, role |-> FirstRoles[u]] : u \in FirstMembers}
  BY DEF Init
<1>2. FirstMembers \subseteq Users
  BY DEF FirstMembers
<1>3. \A m \in members : \E u \in FirstMembers : m = [id |-> number[u], user |-> u, role |-> FirstRoles[u]]
  BY <1>1
<1>4. \A u \in FirstMembers : [id |-> number[u], user |-> u, role |-> FirstRoles[u]] \in members
  BY <1>1
<1>5. \A m \in members : m.user \in FirstMembers /\ m.role = FirstRoles[m.user] /\ m.user \in Users
  BY <1>2, <1>3
<1>6. \A m, n \in members : m.user = n.user => m = n
  BY <1>3
<1>7. \A u \in FirstMembers : \E m \in members : m.user = u
  BY <1>4
<1> QED BY <1>5, <1>6, <1>7

LEMMA InitRows == Init => ClaimInv /\ RowInv
<1> SUFFICES ASSUME Init PROVE ClaimInv /\ RowInv OBVIOUS
<1>2. PICK number \in [FirstMembers -> 1..born] :
        /\ \A u, w \in FirstMembers : number[u] = number[w] => u = w
        /\ members = {[id |-> number[u], user |-> u, role |-> FirstRoles[u]] : u \in FirstMembers}
  BY DEF Init
<1>3. \A m \in members : m.id <= born
  BY <1>2, InitTypes, FS_CardinalityType
<1>4. \A m, n \in members : m.id = n.id => m = n
  BY <1>2
<1> QED BY <1>2, <1>3, <1>4, FS_EmptySet DEF Init, ClaimInv, RowInv, InTransaction

(* Only a join gives birth to a row; promotions keep a row's number.       *)
LEMMA StepRows == TypeOK /\ SlotInv /\ RowInv /\ Next => RowInv'
<1> SUFFICES ASSUME TypeOK, SlotInv, RowInv, Next PROVE RowInv' OBVIOUS
<1>1. CASE UNCHANGED <<members, born, joined>>
  BY <1>1 DEF RowInv
<1>2. ASSUME NEW r \in AdminSlots, WriteRole(r) PROVE RowInv'
  <2>1. task[r].member \in Nat /\ task[r].role \in OrgRoles /\ UNCHANGED <<born, joined>>
    BY <1>2 DEF WriteRole, TypeOK, TasksAt, Slots
  <2>2. \A m \in members : [m EXCEPT !.role = task[r].role].id = m.id
    BY DEF TypeOK, MemberRows
  <2>3. \A n \in members' : \E m \in members :
          n.id = m.id /\ n = IF m.id = task[r].member THEN [m EXCEPT !.role = task[r].role] ELSE m
    BY <1>2, <2>2 DEF WriteRole
  <2>4. \A n \in members' : n.id <= born
    BY <2>3 DEF RowInv
  <2>5. \A m, n \in members' : m.id = n.id => m = n
    BY <2>3 DEF RowInv
  <2> QED BY <2>1, <2>4, <2>5 DEF RowInv
<1>3. ASSUME NEW r \in AdminSlots, WriteRemoval(r) PROVE RowInv'
  BY <1>3 DEF WriteRemoval, RowInv
<1>4. ASSUME NEW r \in JoinSlots, Join(r) PROVE RowInv'
  <2>1. /\ born' = born + 1
        /\ \E m : m.id = born + 1 /\ members' = members \cup {m}
        /\ \E j : j.row = born + 1 /\ joined' = joined \cup {j}
    BY <1>4 DEF Join
  <2>2. IsFiniteSet(joined')
    BY <2>1, FS_AddElement DEF RowInv
  <2>3. born \in Nat /\ (\A m \in members : m.id \in Nat) /\ (\A j \in joined : j.row \in Nat)
    BY DEF TypeOK, MemberRows
  <2> QED BY <2>1, <2>2, <2>3 DEF RowInv
<1> QED
  BY <1>1, <1>2, <1>3, <1>4
     DEF Next, AdminStep, JoinStep, Authorize, CheckRemoval, CheckRole, CreateInvite, RevokeInvite,
         Admit, AcceptRead, Register, Claim, Abort, Expire, BillingStep, memberVars

LEMMA Stuttering == MembershipInv /\ UNCHANGED vars => MembershipInv'
  BY DEF MembershipInv, TypeOK, SlotInv, ClaimInv, RowInv, InTransaction, InviteLocked, IsFor,
         vars, billingVars, memberVars

LEMMA Inductive == MembershipInv /\ [Next]_vars => MembershipInv'
  BY StepTypes, StepClaims, StepRows, Stuttering DEF MembershipInv

LEMMA Invariance == Spec => []MembershipInv
<1>1. Init => MembershipInv
  BY InitTypes, InitRows DEF MembershipInv
<1> QED BY <1>1, Inductive, PTL DEF Spec

(* Every variable keeps its type and every request what it is working on.  *)
THEOREM TypeCorrect == Spec => []TypeOK
<1>1. MembershipInv => TypeOK
  BY DEF MembershipInv
<1> QED BY <1>1, Invariance, PTL

-----------------------------------------------------------------------------
(* A use is counted when, and only when, somebody joins: the claimed use   *)
(* is below the limit until the claim's transaction ends.                  *)
LEMMA StepUses == MembershipInv /\ UsesAreJoins /\ Next => UsesAreJoins'
<1> SUFFICES ASSUME MembershipInv, UsesAreJoins, Next PROVE UsesAreJoins' OBVIOUS
<1> USE DEF MembershipInv
<1>0. \A i \in Invites :
        /\ invites[i] = None => {j \in joined : j.invite = i} = {}
        /\ invites[i] # None =>
             /\ Cardinality({j \in joined : j.invite = i}) = invites[i].uses
             /\ invites[i].uses <= invites[i].offer.maxUses
             /\ \A j \in joined : j.invite = i => IsFor(i, j.user)
  BY DEF UsesAreJoins
<1>1. CASE UNCHANGED <<invites, joined>>
  BY <1>1 DEF UsesAreJoins, IsFor
<1>2. ASSUME NEW r \in AdminSlots, NEW i \in Invites, NEW offer \in Offers, CreateInvite(r, i, offer)
      PROVE  UsesAreJoins'
  <2> DEFINE row == [offer |-> offer, uses |-> 0, revoked |-> FALSE, expired |-> FALSE]
  <2>1. row \in InviteRows /\ offer.maxUses \in Nat
    BY OffersAssumption DEF InviteRows, AllOffers
  <2>2. invites' = [invites EXCEPT ![i] = row] /\ invites[i] = None /\ joined' = joined
    BY <1>2 DEF CreateInvite
  <2>3. /\ \A k \in Invites \ {i} : invites'[k] = invites[k]
        /\ invites'[i] = row /\ row # None
    BY <2>1, <2>2, NoneAssumption DEF TypeOK
  <2>4. {j \in joined' : j.invite = i} = {}
    BY <1>0, <2>2
  <2>5. ASSUME NEW k \in Invites \ {i}
        PROVE  \A u : IsFor(k, u)' <=> IsFor(k, u)
    BY <2>3 DEF IsFor
  <2>6. Cardinality({j \in joined' : j.invite = i}) = 0
    BY <2>4, FS_EmptySet
  <2>7. ASSUME NEW k \in Invites
        PROVE  IF invites'[k] = None
               THEN {j \in joined' : j.invite = k} = {}
               ELSE /\ Cardinality({j \in joined' : j.invite = k}) = invites'[k].uses
                    /\ invites'[k].uses <= invites'[k].offer.maxUses
                    /\ \A j \in {l \in joined' : l.invite = k} : IsFor(k, j.user)'
    <3>1. CASE k = i
      <4>1. invites'[i].uses = 0 /\ invites'[i].offer.maxUses = offer.maxUses /\ offer.maxUses >= 0
        BY <2>3, OffersAssumption DEF AllOffers
      <4> QED BY <2>3, <2>4, <2>6, <3>1, <4>1
    <3>2. CASE k # i
      BY <1>0, <2>2, <2>3, <2>5, <3>2
    <3> QED BY <3>1, <3>2
  <2> QED BY <2>7 DEF UsesAreJoins
<1>3. ASSUME NEW r \in AdminSlots, NEW i \in Invites, RevokeInvite(r, i) PROVE UsesAreJoins'
  <2>1. SameOffers(i) /\ invites'[i].uses = invites[i].uses /\ joined' = joined /\ invites[i] # None
    BY <1>3, RowTypes DEF RevokeInvite
  <2> QED BY <2>1 DEF UsesAreJoins, IsFor, SameOffers
<1>4. ASSUME NEW i \in Invites, Expire(i) PROVE UsesAreJoins'
  <2>1. SameOffers(i) /\ invites'[i].uses = invites[i].uses /\ joined' = joined /\ invites[i] # None
    BY <1>4, RowTypes DEF Expire
  <2> QED BY <2>1 DEF UsesAreJoins, IsFor, SameOffers
<1>5. ASSUME NEW r \in JoinSlots, Join(r) PROVE UsesAreJoins'
  <2> DEFINE i == task[r].invite
             new == [row |-> born', user |-> task[r].user, invite |-> i]
             Through(k) == {j \in joined : j.invite = k}
  <2>1. /\ i \in Invites /\ invites[i] # None /\ IsFor(i, task[r].user)
        /\ invites[i].uses < invites[i].offer.maxUses
    BY <1>5 DEF Join, ClaimInv, InTransaction, TypeOK, TasksAt, Slots
  <2>2. /\ SameOffers(i) /\ invites'[i].uses = invites[i].uses + 1
        /\ joined' = joined \cup {new} /\ born' = born + 1
    BY <1>5, <2>1, RowTypes DEF Join
  <2>3. new \notin joined
    BY <2>2 DEF RowInv, TypeOK
  <2>4. IsFiniteSet(Through(i))
    BY FS_Subset DEF RowInv
  <2>5. {j \in joined' : j.invite = i} = Through(i) \cup {new}
    BY <2>2
  <2>6. Cardinality(Through(i) \cup {new}) = Cardinality(Through(i)) + 1
    BY <2>3, <2>4, FS_AddElement
  <2>7. invites[i].uses \in Nat /\ invites[i].offer.maxUses \in Nat
    BY <2>1 DEF TypeOK, InviteRows, AllOffers
  <2>8. \A k \in Invites \ {i} : {j \in joined' : j.invite = k} = Through(k)
    BY <2>2
  <2>9. \A j \in Through(i) \cup {new} : IsFor(i, j.user)
    <3>1. \A j \in Through(i) : IsFor(i, j.user)
      BY <1>0, <2>1
    <3>2. new.user = task[r].user
      OBVIOUS
    <3> HIDE DEF new, i
    <3> QED BY <2>1, <3>1, <3>2
  <2>10. Cardinality(Through(i)) = invites[i].uses
    BY <1>0, <2>1
  <2>11. ASSUME NEW k \in Invites, invites[k] # None
         PROVE  \A u : IsFor(k, u)' <=> IsFor(k, u)
    BY <2>1, <2>2 DEF SameOffers, IsFor
  <2>12. ASSUME NEW k \in Invites
         PROVE  IF invites'[k] = None
                THEN {j \in joined' : j.invite = k} = {}
                ELSE /\ Cardinality({j \in joined' : j.invite = k}) = invites'[k].uses
                     /\ invites'[k].uses <= invites'[k].offer.maxUses
                     /\ \A j \in {l \in joined' : l.invite = k} : IsFor(k, j.user)'
    <3>1. CASE k = i
      <4> HIDE DEF i, new, Through
      <4>1. invites'[i] # None /\ invites'[i].offer = invites[i].offer
        BY <2>2 DEF SameOffers
      <4>2. invites'[i].uses = Cardinality({j \in joined' : j.invite = i})
        BY <2>2, <2>5, <2>6, <2>10
      <4>3. invites'[i].uses <= invites'[i].offer.maxUses
        BY <2>1, <2>2, <2>7, <4>1
      <4>4. \A j \in {l \in joined' : l.invite = k} : IsFor(k, j.user)'
        <5>1. {l \in joined' : l.invite = k} = Through(i) \cup {new}
          BY <2>5, <3>1
        <5>2. \A u : IsFor(k, u)' <=> IsFor(i, u)
          BY <2>1, <2>11, <3>1
        <5> QED BY <2>9, <5>1, <5>2
      <4> QED BY <3>1, <4>1, <4>2, <4>3, <4>4
    <3>2. CASE k # i
      BY <1>0, <2>2, <2>8, <2>11, <3>2 DEF SameOffers
    <3> QED BY <3>1, <3>2
  <2> QED BY <2>12 DEF UsesAreJoins
<1> QED
  BY <1>1, <1>2, <1>3, <1>4, <1>5
     DEF Next, AdminStep, JoinStep, Authorize, CheckRemoval, CheckRole, WriteRole, WriteRemoval,
         Admit, AcceptRead, Register, Claim, Abort, BillingStep, memberVars

(* An invite's uses are the people it let in, and stay within its limit.   *)
THEOREM UsesAreCounted == Spec => []UsesAreJoins
<1>1. Init => UsesAreJoins
  BY FS_EmptySet DEF Init, UsesAreJoins
<1>2. MembershipInv /\ UsesAreJoins /\ [Next]_vars => UsesAreJoins'
  <2>1. UsesAreJoins /\ UNCHANGED vars => UsesAreJoins'
    BY DEF vars, memberVars, UsesAreJoins, IsFor
  <2> QED BY <2>1, StepUses
<1> QED BY <1>1, <1>2, Invariance, PTL DEF Spec

(* Nobody joins with a revoked invite: the claim has the row locked.       *)
THEOREM RevocationHolds == Spec => RevokedAdmitsNobody
<1>1. MembershipInv /\ [Next]_vars => [\A j \in joined' \ joined : ~invites[j.invite].revoked]_vars
  <2> SUFFICES ASSUME MembershipInv, Next PROVE \A j \in joined' \ joined : ~invites[j.invite].revoked
    OBVIOUS
  <2>1. CASE joined' = joined
    BY <2>1
  <2>2. ASSUME NEW r \in JoinSlots, Join(r) PROVE \A j \in joined' \ joined : ~invites[j.invite].revoked
    BY <2>2 DEF Join, MembershipInv, ClaimInv, Slots
  <2> QED
    BY <2>1, <2>2
       DEF Next, AdminStep, JoinStep, Authorize, CheckRemoval, CheckRole, CreateInvite, RevokeInvite,
           WriteRole, WriteRemoval, Admit, AcceptRead, Register, Claim, Abort, Expire, BillingStep, memberVars
<1> QED BY <1>1, Invariance, PTL DEF Spec, RevokedAdmitsNobody

-----------------------------------------------------------------------------
(* A request goes on with the role it read; it never grants league_admin   *)
(* unless it read that role itself.                                        *)
AuthorityInv ==
  /\ \A m \in members : m.role # "league_admin"
  /\ \A i \in Invites : invites[i] # None => invites[i].offer.role # "league_admin"
  /\ \A r \in Slots : /\ pc[r] = "authorized" => task[r] # "league_admin"
                      /\ pc[r] = "changing" => task[r].role # "league_admin"

LEMMA GotoAuthority ==
  ASSUME TypeOK, SlotInv, AuthorityInv, NEW r \in Slots, NEW label, NEW data, Goto(r, label, data),
         UNCHANGED <<members, invites>>,
         label = "authorized" => data # "league_admin",
         label = "changing" => data.role # "league_admin"
  PROVE  AuthorityInv'
  BY DEF TypeOK, SlotInv, AuthorityInv, Goto

LEMMA StepAuthority == MembershipInv /\ AuthorityInv /\ Next => AuthorityInv'
<1> SUFFICES ASSUME MembershipInv, AuthorityInv, Next PROVE AuthorityInv' OBVIOUS
<1> USE DEF MembershipInv
<1>1. ASSUME NEW r \in AdminSlots, AdminStep(r) PROVE AuthorityInv'
  <2>0. r \in Slots
    BY DEF Slots
  <2>1. ASSUME NEW m \in members, Authorize(r, m) PROVE AuthorityInv'
    BY <2>0, <2>1, GotoAuthority DEF Authorize, AuthorityInv
  <2>2. ASSUME NEW m \in members, CheckRemoval(r, m) PROVE AuthorityInv'
    BY <2>0, <2>2, GotoAuthority DEF CheckRemoval
  <2>3. ASSUME NEW m \in members, NEW role \in NewRoles, CheckRole(r, m, role) PROVE AuthorityInv'
    <3>1. role # "league_admin"
      BY <2>0, <2>3 DEF CheckRole, CanGrant, AuthorityInv
    <3> QED BY <2>0, <2>3, <3>1, GotoAuthority DEF CheckRole
  <2>4. ASSUME NEW i \in Invites, NEW offer \in Offers, CreateInvite(r, i, offer) PROVE AuthorityInv'
    <3>1. offer.role # "league_admin"
      BY <2>0, <2>4 DEF CreateInvite, CanGrant, AuthorityInv
    <3>2. /\ invites'[i].offer = offer
          /\ \A k \in Invites \ {i} : invites'[k] = invites[k]
          /\ UNCHANGED members
          /\ pc' = [pc EXCEPT ![r] = "idle"] /\ task' = [task EXCEPT ![r] = None]
      BY <2>4 DEF CreateInvite, Finish, Goto, TypeOK
    <3> QED BY <2>0, <3>1, <3>2 DEF AuthorityInv, TypeOK, SlotInv
  <2>5. ASSUME NEW i \in Invites, RevokeInvite(r, i) PROVE AuthorityInv'
    <3>1. SameOffers(i) /\ invites[i] # None
      BY <2>5, RowTypes DEF RevokeInvite
    <3> QED BY <2>0, <2>5, <3>1 DEF RevokeInvite, SameOffers, Finish, Goto, AuthorityInv, TypeOK, SlotInv
  <2>6. ASSUME WriteRole(r) PROVE AuthorityInv'
    <3>1. \A n \in members' : n.role # "league_admin"
      <4>1. task[r].role # "league_admin"
        BY <2>0, <2>6 DEF WriteRole, AuthorityInv
      <4>2. \A m \in members : [m EXCEPT !.role = task[r].role].role = task[r].role
        BY DEF TypeOK, MemberRows
      <4> QED BY <2>6, <4>1, <4>2 DEF WriteRole, AuthorityInv
    <3> QED BY <2>0, <2>6, <3>1 DEF WriteRole, Finish, Goto, AuthorityInv, TypeOK, SlotInv
  <2>7. ASSUME WriteRemoval(r) PROVE AuthorityInv'
    BY <2>0, <2>7 DEF WriteRemoval, Finish, Goto, AuthorityInv, TypeOK, SlotInv
  <2> QED BY <1>1, <2>1, <2>2, <2>3, <2>4, <2>5, <2>6, <2>7 DEF AdminStep
<1>2. ASSUME NEW r \in JoinSlots, JoinStep(r) PROVE AuthorityInv'
  <2>0. r \in Slots
    BY DEF Slots
  <2>1. CASE Join(r)
    <3>1. task[r].invite \in Invites /\ invites[task[r].invite] # None
      BY <2>0, <2>1 DEF Join, ClaimInv, InTransaction, TypeOK, TasksAt
    <3>2. SameOffers(task[r].invite)
      BY <2>1, <3>1, RowTypes DEF Join
    <3>3. \A m \in members' : m.role # "league_admin"
      BY <2>1, <3>1 DEF Join, AuthorityInv
    <3> QED BY <2>0, <2>1, <3>1, <3>2, <3>3 DEF Join, SameOffers, Finish, Goto, AuthorityInv, TypeOK, SlotInv
  <2> QED
    BY <2>0, <2>1, <1>2, GotoAuthority DEF JoinStep, Admit, AcceptRead, Register, Claim, Finish
<1>3. ASSUME NEW r \in Slots, Abort(r) PROVE AuthorityInv'
  BY <1>3, GotoAuthority DEF Abort, Finish
<1>4. ASSUME NEW i \in Invites, Expire(i) PROVE AuthorityInv'
  <2>1. SameOffers(i) /\ invites[i] # None /\ UNCHANGED <<members, pc, task>>
    BY <1>4, RowTypes DEF Expire
  <2> QED BY <2>1 DEF SameOffers, AuthorityInv
<1>5. ASSUME BillingStep PROVE AuthorityInv'
  BY <1>5 DEF BillingStep, memberVars, AuthorityInv
<1> QED BY <1>1, <1>2, <1>3, <1>4, <1>5 DEF Next

(* In an organization without a league_admin nobody becomes one.           *)
THEOREM NobodyPromotesThemselves == Spec => []NoLeagueAdmin
<1> DEFINE None_ == "league_admin" \notin {FirstRoles[u] : u \in Users}
<1>1. CASE None_
  <2>1. Init => AuthorityInv
    <3> SUFFICES ASSUME Init PROVE AuthorityInv
      OBVIOUS
    <3>1. \A m \in members : \E u \in Users : m.role = FirstRoles[u]
      BY FirstRow
    <3> QED BY <1>1, <3>1 DEF Init, AuthorityInv
  <2>2. MembershipInv /\ AuthorityInv /\ [Next]_vars => AuthorityInv'
    <3>1. AuthorityInv /\ UNCHANGED vars => AuthorityInv'
      BY DEF vars, memberVars, AuthorityInv
    <3> QED BY <3>1, StepAuthority
  <2>3. AuthorityInv => NoLeagueAdmin
    BY DEF AuthorityInv, NoLeagueAdmin
  <2> QED BY <2>1, <2>2, <2>3, Invariance, PTL DEF Spec
<1>2. CASE ~None_
  <2>1. NoLeagueAdmin
    BY <1>2 DEF NoLeagueAdmin
  <2> QED BY <2>1, PTL
<1> QED BY <1>1, <1>2

-----------------------------------------------------------------------------
(* The unique index makes the second of two joins of one person fail.      *)
THEOREM OneMembershipEach == Spec => []OneMembership
<1>1. Init => OneMembership
  BY FirstRow DEF OneMembership
<1>2. MembershipInv /\ OneMembership /\ [Next]_vars => OneMembership'
  <2> SUFFICES ASSUME MembershipInv, OneMembership, [Next]_vars PROVE OneMembership' OBVIOUS
  <2>1. CASE UNCHANGED members
    BY <2>1 DEF OneMembership
  <2>2. ASSUME NEW r \in AdminSlots, WriteRole(r) PROVE OneMembership'
    <3>1. \A m \in members : [m EXCEPT !.role = task[r].role].user = m.user
      BY DEF MembershipInv, TypeOK, MemberRows
    <3>2. \A n \in members' : \E m \in members :
            n.user = m.user /\ n = IF m.id = task[r].member THEN [m EXCEPT !.role = task[r].role] ELSE m
      BY <2>2, <3>1 DEF WriteRole
    <3> QED BY <3>2 DEF OneMembership
  <2>3. ASSUME NEW r \in AdminSlots, WriteRemoval(r) PROVE OneMembership'
    BY <2>3 DEF WriteRemoval, OneMembership
  <2>4. ASSUME NEW r \in JoinSlots, Join(r) PROVE OneMembership'
    BY <2>4 DEF Join, MayInsert, IsMember, OneMembership
  <2> QED
    BY <2>1, <2>2, <2>3, <2>4
       DEF Next, AdminStep, JoinStep, Authorize, CheckRemoval, CheckRole, CreateInvite, RevokeInvite,
           Admit, AcceptRead, Register, Claim, Abort, Expire, BillingStep, memberVars, vars
<1> QED BY <1>1, <1>2, Invariance, PTL DEF Spec

-----------------------------------------------------------------------------
(* One admin at work at a time: what its request checked is still so when  *)
(* it writes, so another admin than its target remains.                    *)
SpareAdmin(id) == \E n \in members : n.role = "org_admin" /\ n.id # id

SpareInv ==
  \A r \in AdminSlots :
    /\ pc[r] = "changing" /\ task[r].role # "org_admin" => SpareAdmin(task[r].member)
    /\ pc[r] = "removing" => SpareAdmin(task[r].member)

LEMMA NotLast ==
  ASSUME MembershipInv, KeepsAnAdmin, NEW m \in members, ~LastAdmin(m)
  PROVE  SpareAdmin(m.id)
<1>1. CASE m.role # "org_admin"
  BY <1>1 DEF KeepsAnAdmin, Admins, SpareAdmin, MembershipInv, RowInv
<1>2. CASE m.role = "org_admin"
  <2>1. ~(Cardinality(Admins) <= 1)
    BY <1>2 DEF LastAdmin
  <2>2. Admins # {m}
    <3>1. Cardinality({m}) = 1
      BY FS_Singleton
    <3> QED BY <2>1, <3>1
  <2>3. m \in Admins
    BY <1>2 DEF Admins
  <2> QED BY <2>2, <2>3 DEF Admins, SpareAdmin, MembershipInv, RowInv
<1> QED BY <1>1, <1>2

LEMMA StepSpare ==
  ASSUME \A q, r \in AdminSlots : q = r, MembershipInv, KeepsAnAdmin, SpareInv, Next
  PROVE  KeepsAnAdmin' /\ SpareInv'
<1> USE DEF MembershipInv
<1>0. /\ pc \in [Slots -> {"idle"} \cup AdminLabels \cup JoinLabels]
      /\ task \in [Slots -> Tasks]
      /\ AdminSlots \subseteq Slots /\ JoinSlots \subseteq Slots
      /\ AdminSlots \cap JoinSlots = {}
  BY SlotsAssumption DEF TypeOK, SlotInv, Slots
<1>1. ASSUME NEW r \in AdminSlots, AdminStep(r) PROVE KeepsAnAdmin' /\ SpareInv'
  <2>1. ASSUME NEW m \in members, CheckRemoval(r, m) PROVE KeepsAnAdmin' /\ SpareInv'
    <3>1. SpareAdmin(m.id)
      BY <2>1, NotLast DEF CheckRemoval
    <3>2. /\ UNCHANGED members /\ pc'[r] = "removing" /\ task'[r] = [member |-> m.id]
      BY <1>0, <2>1 DEF CheckRemoval, Goto
    <3> QED BY <3>1, <3>2 DEF KeepsAnAdmin, Admins, SpareInv, SpareAdmin
  <2>2. ASSUME NEW m \in members, NEW role \in NewRoles, CheckRole(r, m, role) PROVE KeepsAnAdmin' /\ SpareInv'
    <3>1. role # "org_admin" => SpareAdmin(m.id)
      BY <2>2, NotLast DEF CheckRole
    <3>2. /\ UNCHANGED members /\ pc'[r] = "changing" /\ task'[r] = [member |-> m.id, role |-> role]
      BY <1>0, <2>2 DEF CheckRole, Goto
    <3> QED BY <3>1, <3>2 DEF KeepsAnAdmin, Admins, SpareInv, SpareAdmin
  <2>3. ASSUME WriteRole(r) PROVE KeepsAnAdmin' /\ SpareInv'
    <3>1. pc'[r] = "idle" /\ pc[r] = "changing"
      BY <1>0, <2>3 DEF WriteRole, Finish, Goto
    <3>2. \A m \in members : (IF m.id = task[r].member THEN [m EXCEPT !.role = task[r].role] ELSE m) \in members'
      BY <2>3 DEF WriteRole
    <3>3. CASE task[r].role = "org_admin"
      <4>1. PICK m \in members : m.role = "org_admin"
        BY DEF KeepsAnAdmin, Admins
      <4>2. [m EXCEPT !.role = task[r].role].role = "org_admin"
        BY <3>3, <4>1 DEF TypeOK, MemberRows
      <4> QED BY <3>1, <3>2, <4>1, <4>2 DEF KeepsAnAdmin, Admins, SpareInv
    <3>4. CASE task[r].role # "org_admin"
      BY <3>1, <3>2, <3>4 DEF KeepsAnAdmin, Admins, SpareInv, SpareAdmin
    <3> QED BY <3>3, <3>4
  <2>4. ASSUME WriteRemoval(r) PROVE KeepsAnAdmin' /\ SpareInv'
    BY <1>0, <2>4 DEF WriteRemoval, Finish, Goto, KeepsAnAdmin, Admins, SpareInv, SpareAdmin
  <2>5. CASE UNCHANGED members /\ pc'[r] \in {"idle", "authorized"}
    BY <2>5 DEF KeepsAnAdmin, Admins, SpareInv
  <2> QED
    BY <1>0, <1>1, <2>1, <2>2, <2>3, <2>4, <2>5
       DEF AdminStep, Authorize, CreateInvite, RevokeInvite, Finish, Goto
<1>2. ASSUME NEW r \in JoinSlots, JoinStep(r) PROVE KeepsAnAdmin' /\ SpareInv'
  <2>1. members \subseteq members'
    BY <1>2 DEF JoinStep, Admit, AcceptRead, Register, Claim, Join
  <2>2. \A q \in AdminSlots : pc'[q] = pc[q] /\ task'[q] = task[q]
    BY <1>0, <1>2 DEF JoinStep, Admit, AcceptRead, Register, Claim, Join, Finish, Goto
  <2> QED BY <2>1, <2>2 DEF KeepsAnAdmin, Admins, SpareInv, SpareAdmin
<1>3. ASSUME NEW r \in Slots, Abort(r) PROVE KeepsAnAdmin' /\ SpareInv'
  BY <1>0, <1>3 DEF Abort, Finish, Goto, KeepsAnAdmin, Admins, SpareInv, SpareAdmin
<1>4. CASE UNCHANGED <<members, pc, task>>
  BY <1>4 DEF KeepsAnAdmin, Admins, SpareInv, SpareAdmin
<1> QED BY <1>1, <1>2, <1>3, <1>4 DEF Next, Expire, BillingStep, memberVars

(* With one admin at work at a time an organization that has an org_admin  *)
(* always keeps one.                                                       *)
THEOREM LastAdminStays ==
  ASSUME \A q, r \in AdminSlots : q = r,
         \E u \in Users : FirstRoles[u] = "org_admin"
  PROVE  Spec => []KeepsAnAdmin
<1>1. Init => KeepsAnAdmin /\ SpareInv
  <2> SUFFICES ASSUME Init PROVE KeepsAnAdmin /\ SpareInv OBVIOUS
  <2>1. PICK u \in FirstMembers : FirstRoles[u] = "org_admin"
    <3>1. PICK u \in Users : FirstRoles[u] = "org_admin"
      OBVIOUS
    <3>2. u \in FirstMembers
      BY <3>1, NoneAssumption DEF FirstMembers, OrgRoles, RoleTier
    <3> QED BY <3>1, <3>2
  <2> QED BY <2>1, FirstRow DEF Init, KeepsAnAdmin, Admins, SpareInv, Slots
<1>2. MembershipInv /\ KeepsAnAdmin /\ SpareInv /\ [Next]_vars => KeepsAnAdmin' /\ SpareInv'
  <2>1. KeepsAnAdmin /\ SpareInv /\ UNCHANGED vars => KeepsAnAdmin' /\ SpareInv'
    BY DEF vars, memberVars, KeepsAnAdmin, Admins, SpareInv, SpareAdmin
  <2> QED BY <2>1, StepSpare
<1> QED BY <1>1, <1>2, Invariance, PTL DEF Spec

-----------------------------------------------------------------------------
(* On the embedded database nothing changes the members or the plan while  *)
(* a transaction is open: the seat it found is still free when it commits. *)
SeatInv == exclusive => \A r \in Slots : InTransaction(r) => HasSeat

LEMMA StepSeats ==
  ASSUME MembershipInv, SeatInv, Next
  PROVE  SeatInv'
<1> USE DEF MembershipInv
<1>0. /\ pc \in [Slots -> {"idle"} \cup AdminLabels \cup JoinLabels]
      /\ AdminSlots \subseteq Slots /\ JoinSlots \subseteq Slots
  BY DEF TypeOK, Slots
<1>1. exclusive' = exclusive
  BY DEF Next, AdminStep, JoinStep, Authorize, CheckRemoval, CheckRole, CreateInvite, RevokeInvite, WriteRole,
         WriteRemoval, Admit, AcceptRead, Register, Claim, Join, Abort, Expire, BillingStep, memberVars
<1>2. CASE /\ UNCHANGED <<members, subscription>>
           /\ \A r \in Slots : InTransaction(r)' => InTransaction(r)
  BY <1>1, <1>2 DEF SeatInv, HasSeat, SeatLimit, Paid
<1>3. ASSUME NEW r \in Slots, MayRun(r), pc' = [pc EXCEPT ![r] = "idle"]
      PROVE  SeatInv'
  BY <1>0, <1>1, <1>3 DEF SeatInv, MayRun, InTransaction
<1>4. ASSUME NEW r \in Slots, NEW u \in Users, NEW i \in Invites, AcceptRead(r, u, i)
      PROVE  SeatInv'
  BY <1>1, <1>4 DEF AcceptRead, SeatInv, HasSeat, SeatLimit, Paid, billingVars
<1>5. ASSUME BillingStep PROVE SeatInv'
  BY <1>1, <1>5 DEF BillingStep, MayRunAlone, SeatInv, InTransaction, memberVars
<1>6. ASSUME NEW r \in Slots, WriteRole(r) \/ WriteRemoval(r) \/ Join(r) PROVE SeatInv'
  <2>1. MayRun(r) /\ pc' = [pc EXCEPT ![r] = "idle"]
    BY <1>6 DEF WriteRole, WriteRemoval, Join, Finish, Goto
  <2> QED BY <2>1, <1>3
<1>7. ASSUME NEW r \in Slots, NEW label, pc' = [pc EXCEPT ![r] = label],
             InTransaction(r) \/ label \notin {"reading", "claimed"},
             UNCHANGED <<members, subscription>>
      PROVE  SeatInv'
  <2>1. \A q \in Slots : InTransaction(q)' => InTransaction(q)
    BY <1>0, <1>7 DEF InTransaction
  <2> QED BY <2>1, <1>2, <1>7
<1>8. ASSUME NEW r \in AdminSlots, AdminStep(r) PROVE SeatInv'
  BY <1>0, <1>6, <1>7, <1>8
     DEF AdminStep, Authorize, CheckRemoval, CheckRole, CreateInvite, RevokeInvite, Finish, Goto, billingVars
<1>9. ASSUME NEW r \in JoinSlots, JoinStep(r) PROVE SeatInv'
  <2>1. CASE Claim(r)
    BY <1>0, <1>7, <2>1 DEF Claim, InTransaction, Goto, billingVars
  <2>2. CASE Register(r) \/ \E u \in Users, i \in Invites \cup {None} : Admit(r, u, i)
    BY <1>0, <1>7, <2>2 DEF Register, Admit, Finish, Goto, billingVars
  <2> QED BY <1>0, <1>4, <1>6, <1>9, <2>1, <2>2 DEF JoinStep
<1>10. ASSUME NEW r \in Slots, Abort(r) PROVE SeatInv'
  BY <1>7, <1>10 DEF Abort, Finish, Goto, billingVars
<1>11. ASSUME NEW i \in Invites, Expire(i) PROVE SeatInv'
  BY <1>2, <1>11 DEF Expire, InTransaction, billingVars
<1> QED BY <1>5, <1>8, <1>9, <1>10, <1>11 DEF Next

(* Nobody joins beyond the seats of the plan on the embedded database.     *)
THEOREM SeatsHold == Spec => JoinWithinSeats
<1>1. Init => SeatInv
  BY DEF Init, SeatInv, InTransaction
<1>2. MembershipInv /\ SeatInv /\ [Next]_vars => SeatInv'
  <2>1. SeatInv /\ UNCHANGED vars => SeatInv'
    BY DEF vars, memberVars, billingVars, SeatInv, InTransaction, HasSeat, SeatLimit, Paid
  <2> QED BY <2>1, StepSeats
<1>3. MembershipInv /\ SeatInv /\ [Next]_vars =>
        [exclusive /\ joined' # joined => Cardinality(members) < SeatLimit]_vars
  <2> SUFFICES ASSUME MembershipInv, SeatInv, Next, exclusive, joined' # joined
               PROVE  Cardinality(members) < SeatLimit
    OBVIOUS
  <2>1. PICK r \in JoinSlots : Join(r)
    BY DEF Next, AdminStep, JoinStep, Authorize, CheckRemoval, CheckRole, CreateInvite, RevokeInvite, WriteRole,
           WriteRemoval, Admit, AcceptRead, Register, Claim, Abort, Expire, BillingStep, memberVars
  <2>2. InTransaction(r) /\ r \in Slots
    BY <2>1 DEF Join, InTransaction, Slots
  <2> QED BY <2>2 DEF SeatInv, HasSeat
<1> QED BY <1>1, <1>2, <1>3, Invariance, PTL DEF Spec, JoinWithinSeats

(* What a handler goes on with is no older than what is stored.            *)
HandledInv ==
  \A h \in Handlers :
    handling[h] # None /\ subscription # None => handling[h].created >= subscription.updatedAt

(* With one event handled at a time the stored subscription never becomes  *)
(* an older one, however late and however often events come.               *)
THEOREM NoOlderEvent ==
  ASSUME NEW one, Handlers = {one}
  PROVE  Spec => NeverOlder
<1>1. Init => HandledInv
  BY DEF Init, BillingInit, HandledInv
<1>2. ASSUME MembershipInv, HandledInv, [Next]_vars
      PROVE  /\ HandledInv'
             /\ subscription # None => subscription'.updatedAt >= subscription.updatedAt
  <2>1. /\ TypeOK /\ handling \in [Handlers -> Events \cup {None}] /\ Events \subseteq AllEvents
        /\ subscription \in Subscriptions \cup {None}
    BY <1>2, EventsAssumption DEF MembershipInv, TypeOK
  <2>2. subscription # None => subscription.updatedAt \in Nat
    BY <2>1 DEF Subscriptions
  <2>3. CASE UNCHANGED billingVars
    BY <1>2, <2>2, <2>3 DEF billingVars, HandledInv
  <2>4. ASSUME NEW h \in Handlers, NEW e \in Events, Receive(h, e)
        PROVE  HandledInv' /\ subscription' = subscription
    <3>1. handling' = [handling EXCEPT ![h] = e] /\ subscription' = subscription /\ ~Stale(e)
      BY <2>4 DEF Receive
    <3>2. e.created \in Nat
      BY <2>1 DEF AllEvents
    <3>3. subscription # None => e.created >= subscription.updatedAt
      BY <2>2, <3>1, <3>2 DEF Stale
    <3> QED BY <1>2, <2>1, <3>1, <3>3 DEF HandledInv
  <2>5. ASSUME NEW h \in Handlers, Store(h)
        PROVE  HandledInv' /\ (subscription # None => subscription'.updatedAt >= subscription.updatedAt)
    <3>1. /\ handling[h] # None /\ subscription' = StateOf(handling[h])
          /\ handling' = [handling EXCEPT ![h] = None]
      BY <2>5 DEF Store
    <3>2. subscription'.updatedAt = handling[h].created
      BY <3>1 DEF StateOf
    <3>3. \A g \in Handlers : handling'[g] = None
      BY <2>1, <3>1
    <3> QED BY <1>2, <3>1, <3>2, <3>3 DEF HandledInv
  <2>6. CASE BillingStep
    BY <2>2, <2>4, <2>5, <2>6 DEF BillingStep
  <2>7. Next => BillingStep \/ UNCHANGED billingVars
    BY DEF Next, AdminStep, JoinStep, Authorize, CheckRemoval, CheckRole, CreateInvite, RevokeInvite, WriteRole,
           WriteRemoval, Admit, AcceptRead, Register, Claim, Join, Finish, Goto, Abort, Expire
  <2> QED BY <1>2, <2>3, <2>6, <2>7 DEF vars
<1> QED BY <1>1, <1>2, Invariance, PTL DEF Spec, NeverOlder

(* So with one event handled at a time nobody joins an organization beyond *)
(* the seats that the newest event left.                                   *)
THEOREM SeatsFollow ==
  ASSUME NEW one, Handlers = {one}
  PROVE  Spec => SeatsFollowBilling
  BY SeatsHold, NoOlderEvent DEF SeatsFollowBilling

(* Both: every use of an invite is a join, and nobody is a member twice.   *)
THEOREM JoinsAreCounted == Spec => []JoinsCounted
BY UsesAreCounted, OneMembershipEach, PTL DEF JoinsCounted

-----------------------------------------------------------------------------
(* The rules of a league.                                                  *)
(*                                                                         *)
(* The invariant: a rule's versions are 1 to n without a gap and each has  *)
(* one row; the row an edit has read keeps its value; a transaction that   *)
(* has updated a row holds its lock alone; and once it is past the unique  *)
(* index nobody else can have made the version it inserts.  So whoever     *)
(* commits supersedes the latest row.                                      *)

USE ValuesAssumption

-----------------------------------------------------------------------------
(* The invariant.                                                          *)

(* A version has one row.                                                  *)
OneRow == \A r, x \in rules : SameRow(r, x) => r = x

(* Versions have no gap.                                                   *)
NoGap == \A r \in rules : \A v \in 1..r.version : \E x \in rules : x.key = r.key /\ x.version = v

(* A rule's active row is its latest.                                      *)
LatestIsActive ==
  \A k \in Keys :
    \E r \in rules :
      /\ r.key = k /\ r.active
      /\ \A x \in rules : x.key = k /\ x # r => ~x.active /\ x.version < r.version

(* What a request has read is there, with the value it read.               *)
ReadIsThere ==
  \A e \in Editors :
    editing[e] # "idle" => HasValue(edit[e].rule.key, edit[e].rule.version, edit[e].rule.value)

(* A row that was updated is locked by one transaction.                    *)
OneHolder ==
  \A d, e \in Editors : Holds(d) /\ Holds(e) /\ SameRow(edit[d].rule, edit[e].rule) => d = e

(* Past the unique index, the next version is this transaction's to make.  *)
NextIsFree == \A e \in Editors : editing[e] \in {"log", "commit"} => ~VersionTaken(e)

(* What a request is about to audit is there.                              *)
CommittedIsThere ==
  \A e \in Editors :
    editing[e] = "audit" => HasValue(edit[e].rule.key, edit[e].rule.version + 1, edit[e].value)

(* The change e has committed and is about to audit.                       *)
ChangeOf(e) == ChangeRow(edit[e].rule.key, edit[e].rule.version + 1, edit[e].value)

(* Changes without an audit are those of requests about to audit them and  *)
(* of requests that were cut short, one for each.                          *)
LostAreCut ==
  \E L : /\ IsFiniteSet(L) /\ Cardinality(L) <= cutShort
         /\ Unaudited \subseteq L \cup {ChangeOf(e) : e \in Auditing}

RowsInv == OneRow /\ NoGap /\ LatestIsActive /\ ChangesAreVersions
EditsInv == ReadIsThere /\ OneHolder /\ NextIsFree /\ CommittedIsThere
RulesInv == RulesTypeOK /\ RowsInv /\ EditsInv /\ AuditTrue /\ LostAreCut

-----------------------------------------------------------------------------
(* Types.                                                                  *)

(* A request that turns to a label leaves the others as they are.          *)
LEMMA TurnFacts ==
  ASSUME RulesTypeOK, NEW e \in Editors, NEW label, NEW data, Turn(e, label, data)
  PROVE  /\ editing'[e] = label /\ edit'[e] = data
         /\ \A d \in Editors \ {e} : editing'[d] = editing[d] /\ edit'[d] = edit[d]
BY DEF RulesTypeOK, Turn

(* A turn to a label with an edit, or to "idle", keeps the types.          *)
LEMMA TurnKeepsTypes ==
  ASSUME RulesTypeOK, NEW e \in Editors, NEW label \in EditLabels, NEW data \in Edits \cup {NoEdit},
         Turn(e, label, data), label # "idle" => data \in Edits
  PROVE  /\ editing' \in [Editors -> EditLabels]
         /\ edit' \in [Editors -> Edits \cup {NoEdit}]
         /\ \A d \in Editors : editing'[d] # "idle" => edit'[d] \in Edits
BY TurnFacts DEF RulesTypeOK, Turn

(* The rows a commit writes are rows.                                      *)
LEMMA NewRows ==
  ASSUME NEW r \in RuleRows, NEW value \in Values
  PROVE  /\ NextRow(r, value) \in RuleRows /\ Superseded(r) \in RuleRows
         /\ ChangeRow(r.key, r.version + 1, value) \in ChangeRows
         /\ [key |-> r.key, version |-> r.version, previous |-> r.value, new |-> value] \in AuditRows
         /\ Superseded(r).key = r.key /\ Superseded(r).version = r.version
         /\ Superseded(r).value = r.value /\ ~Superseded(r).active
<1>1. r.key \in Keys /\ r.version \in Nat \ {0} /\ r.version + 1 \in Nat \ {0} /\ r.value \in Int /\ value \in Int
  BY DEF RuleRows
<1>2. NextRow(r, value) \in RuleRows
  BY <1>1 DEF NextRow, RuleRow, RuleRows
<1>3. /\ Superseded(r).key = r.key /\ Superseded(r).version = r.version
      /\ Superseded(r).value = r.value /\ ~Superseded(r).active
  BY DEF Superseded, RuleRows
<1>4. Superseded(r) \in RuleRows
  BY DEF Superseded, RuleRows
<1>5. ChangeRow(r.key, r.version + 1, value) \in ChangeRows
  BY <1>1 DEF ChangeRow, ChangeRows
<1>6. [key |-> r.key, version |-> r.version, previous |-> r.value, new |-> value] \in AuditRows
  BY <1>1 DEF AuditRows
<1> QED BY <1>2, <1>3, <1>4, <1>5, <1>6

(* Rows and requests keep their types in every step.                       *)
LEMMA TypesKept ==
  ASSUME RulesTypeOK, NEW e \in Editors,
         \/ \E r \in rules, value \in Values : ReadRule(e, r, value)
         \/ Supersede(e) \/ InsertNext(e) \/ InsertChange(e) \/ CommitEdit(e) \/ AuditEdit(e) \/ CutShort(e)
  PROVE  RulesTypeOK'
<1> DEFINE r == edit[e].rule
<1>1. editing[e] # "idle" => edit[e] \in Edits /\ r \in RuleRows /\ edit[e].value \in Values
  BY DEF RulesTypeOK, Edits
<1>2. ASSUME NEW x \in rules, NEW value \in Values, ReadRule(e, x, value) PROVE RulesTypeOK'
  <2>1. [rule |-> x, value |-> value] \in Edits /\ "supersede" \in EditLabels
    BY DEF RulesTypeOK, Edits, EditLabels
  <2> QED BY <1>2, <2>1, TurnKeepsTypes DEF ReadRule, ruleTables, RulesTypeOK
<1>3. ASSUME EndEdit(e) \/ Turn(e, "idle", NoEdit)
      PROVE  /\ editing' \in [Editors -> EditLabels]
             /\ edit' \in [Editors -> Edits \cup {NoEdit}]
             /\ \A d \in Editors : editing'[d] # "idle" => edit'[d] \in Edits
  <2>1. "idle" \in EditLabels
    BY DEF EditLabels
  <2> QED BY <1>3, <2>1, TurnKeepsTypes DEF EndEdit
<1>4. ASSUME NEW label \in {"insert", "log", "commit", "audit"}, GoOn(e, label), editing[e] # "idle"
      PROVE  /\ editing' \in [Editors -> EditLabels]
             /\ edit' \in [Editors -> Edits \cup {NoEdit}]
             /\ \A d \in Editors : editing'[d] # "idle" => edit'[d] \in Edits
  <2>1. label \in EditLabels
    BY DEF EditLabels
  <2> QED BY <1>1, <1>4, <2>1, TurnKeepsTypes DEF GoOn
<1>5. CASE Supersede(e)
  BY <1>4, <1>5 DEF Supersede, GoOn, ruleTables, RulesTypeOK
<1>6. CASE InsertNext(e)
  BY <1>3, <1>4, <1>6 DEF InsertNext, GoOn, EndEdit, ruleTables, RulesTypeOK
<1>7. CASE InsertChange(e)
  BY <1>4, <1>7 DEF InsertChange, GoOn, ruleTables, RulesTypeOK
<1>8. CASE CommitEdit(e)
  <2>1. rules' \subseteq RuleRows /\ changes' \subseteq ChangeRows
    BY <1>1, <1>8, NewRows DEF CommitEdit, RulesTypeOK
  <2> QED BY <1>4, <1>8, <2>1 DEF CommitEdit, GoOn, RulesTypeOK
<1>9. CASE AuditEdit(e)
  <2>1. audits' \subseteq AuditRows
    BY <1>1, <1>9, NewRows DEF AuditEdit, RulesTypeOK
  <2> QED BY <1>3, <1>9, <2>1 DEF AuditEdit, EndEdit, RulesTypeOK
<1>10. CASE CutShort(e)
  BY <1>3, <1>10 DEF CutShort, ruleTables, RulesTypeOK
<1> QED BY <1>2, <1>5, <1>6, <1>7, <1>8, <1>9, <1>10

-----------------------------------------------------------------------------
(* Steps that leave the rules as they are.                                 *)

LEMMA QuietKeepsRows ==
  ASSUME RowsInv, UNCHANGED <<rules, changes>>
  PROVE  RowsInv'
BY DEF RowsInv, OneRow, NoGap, LatestIsActive, ChangesAreVersions

(* What is told of the other requests stays true.                          *)
LEMMA OthersKept ==
  ASSUME RulesTypeOK, EditsInv, NEW e \in Editors, NEW label, NEW data, Turn(e, label, data), UNCHANGED rules
  PROVE  \A d \in Editors \ {e} :
           /\ editing'[d] # "idle" => HasValue(edit[d].rule.key, edit[d].rule.version, edit[d].rule.value)'
           /\ editing'[d] \in {"log", "commit"} => ~VersionTaken(d)'
           /\ editing'[d] = "audit" => HasValue(edit[d].rule.key, edit[d].rule.version + 1, edit[d].value)'
           /\ \A f \in Editors \ {e} : Holds(d)' /\ Holds(f)' /\ SameRow(edit[d].rule, edit[f].rule)' => d = f
BY TurnFacts DEF EditsInv, ReadIsThere, OneHolder, NextIsFree, CommittedIsThere, HasValue, VersionTaken, Holds, SameRow

LEMMA ReadKeepsEdits ==
  ASSUME RulesTypeOK, EditsInv, NEW e \in Editors, NEW r \in rules, NEW value \in Values, ReadRule(e, r, value)
  PROVE  EditsInv'
<1>1. Turn(e, "supersede", [rule |-> r, value |-> value]) /\ UNCHANGED rules
  BY DEF ReadRule, ruleTables
<1>2. editing'[e] = "supersede" /\ edit'[e].rule = r
  BY <1>1, TurnFacts
<1>3. HasValue(edit[e].rule.key, edit[e].rule.version, edit[e].rule.value)'
  BY <1>1, <1>2 DEF HasValue
<1> QED BY <1>1, <1>2, <1>3, OthersKept DEF EditsInv, ReadIsThere, OneHolder, NextIsFree, CommittedIsThere, Holds

LEMMA EndKeepsEdits ==
  ASSUME RulesTypeOK, EditsInv, NEW e \in Editors, Turn(e, "idle", NoEdit), UNCHANGED rules
  PROVE  EditsInv'
<1>1. editing'[e] = "idle"
  BY TurnFacts
<1> QED BY <1>1, OthersKept DEF EditsInv, ReadIsThere, OneHolder, NextIsFree, CommittedIsThere, Holds

(* A transaction goes on with a row that no other has updated.             *)
LEMMA GoOnKeepsEdits ==
  ASSUME RulesTypeOK, EditsInv, NEW e \in Editors, NEW label \in {"insert", "log", "commit"}, GoOn(e, label),
         editing[e] # "idle", UNCHANGED rules, ~RowLocked(e), label \in {"log", "commit"} => ~VersionTaken(e)
  PROVE  EditsInv'
<1>1. Turn(e, label, edit[e])
  BY DEF GoOn
<1>2. editing'[e] = label /\ edit'[e] = edit[e] /\ \A d \in Editors \ {e} : editing'[d] = editing[d] /\ edit'[d] = edit[d]
  BY <1>1, TurnFacts
<1>3. HasValue(edit[e].rule.key, edit[e].rule.version, edit[e].rule.value)'
  BY <1>2 DEF EditsInv, ReadIsThere, HasValue
<1>4. label \in {"log", "commit"} => ~VersionTaken(e)'
  BY <1>2 DEF VersionTaken
<1>5. \A d \in Editors \ {e} : ~(Holds(d)' /\ SameRow(edit[d].rule, edit[e].rule)') /\ ~(Holds(d)' /\ SameRow(edit[e].rule, edit[d].rule)')
  BY <1>2 DEF RowLocked, Holds, SameRow
<1> QED BY <1>1, <1>2, <1>3, <1>4, <1>5, OthersKept DEF EditsInv, ReadIsThere, OneHolder, NextIsFree, CommittedIsThere

(* A transaction that has updated a row is the only one.                   *)
LEMMA HolderIsAlone ==
  ASSUME EditsInv, NEW e \in Editors, Holds(e)
  PROVE  ~RowLocked(e)
BY DEF EditsInv, OneHolder, RowLocked

-----------------------------------------------------------------------------
(* A commit.                                                               *)

(* Whoever commits has read the latest row.                                *)
LEMMA CommitsOnLatest ==
  ASSUME RulesTypeOK, RowsInv, EditsInv, NEW e \in Editors, editing[e] = "commit"
  PROVE  \E r \in rules :
           /\ SameRow(r, edit[e].rule) /\ r.value = edit[e].rule.value /\ r.active
           /\ \A x \in rules : x.key = r.key /\ x # r => ~x.active /\ x.version < r.version
<1>1. PICK r \in rules : SameRow(r, edit[e].rule) /\ r.value = edit[e].rule.value
  BY DEF EditsInv, ReadIsThere, HasValue, SameRow
<1>2. r \in RuleRows
  BY DEF RulesTypeOK
<1>3. PICK l \in rules : /\ l.key = r.key /\ l.active
                        /\ \A x \in rules : x.key = r.key /\ x # l => ~x.active /\ x.version < l.version
  BY <1>2 DEF RowsInv, LatestIsActive, RuleRows
<1>4. l \in RuleRows
  BY DEF RulesTypeOK
<1>5. l = r
  <2> SUFFICES ASSUME l # r PROVE FALSE
    OBVIOUS
  <2>1. r.version < l.version
    BY <1>3
  <2>2. r.version + 1 \in 1..l.version
    BY <1>2, <1>4, <2>1 DEF RuleRows
  <2>3. \E x \in rules : x.key = l.key /\ x.version = r.version + 1
    BY <2>2 DEF RowsInv, NoGap
  <2>4. VersionTaken(e)
    BY <1>1, <1>3, <2>3 DEF VersionTaken, SameRow
  <2> QED BY <2>4 DEF EditsInv, NextIsFree
<1> QED BY <1>1, <1>3, <1>5

(* What a commit makes of the rows: the one it read superseded, and the    *)
(* next.                                                                   *)
LEMMA CommittedRows ==
  ASSUME RulesTypeOK, RowsInv, EditsInv, NEW e \in Editors, CommitEdit(e)
  PROVE  \E r \in rules :
           /\ r \in RuleRows /\ r.active /\ SameRow(r, edit[e].rule) /\ r.value = edit[e].rule.value
           /\ \A x \in rules : x.key = r.key /\ x # r => ~x.active /\ x.version < r.version
           /\ rules' = (rules \ {r}) \cup {Superseded(r), NextRow(r, edit[e].value)}
           /\ edit[e].value \in Values
<1>1. PICK r \in rules : /\ SameRow(r, edit[e].rule) /\ r.value = edit[e].rule.value /\ r.active
                        /\ \A x \in rules : x.key = r.key /\ x # r => ~x.active /\ x.version < r.version
  BY CommitsOnLatest DEF CommitEdit
<1>2. \A x \in rules : SameRow(x, edit[e].rule) <=> x = r
  BY <1>1 DEF RowsInv, OneRow, SameRow
<1>3. NextRow(edit[e].rule, edit[e].value) = NextRow(r, edit[e].value)
  BY <1>1 DEF NextRow, SameRow
<1>4. rules' = (rules \ {r}) \cup {Superseded(r), NextRow(r, edit[e].value)}
  BY <1>2, <1>3 DEF CommitEdit
<1>5. r \in RuleRows /\ edit[e].value \in Values
  BY DEF RulesTypeOK, CommitEdit, Edits
<1> QED BY <1>1, <1>4, <1>5

(* The rows after a commit, in general.                                    *)
LEMMA SupersedingKeepsRows ==
  ASSUME RulesTypeOK, RowsInv, NEW r \in rules, NEW value \in Values, r.active,
         \A x \in rules : x.key = r.key /\ x # r => ~x.active /\ x.version < r.version,
         rules' = (rules \ {r}) \cup {Superseded(r), NextRow(r, value)},
         changes' = changes \cup {ChangeRow(r.key, r.version + 1, value)}
  PROVE  RowsInv' /\ \A x \in rules : \E y \in rules' : SameRow(y, x) /\ y.value = x.value /\ (y.active => x.active)
<1> DEFINE n == NextRow(r, value)
           s == Superseded(r)
<1>1. /\ \A x \in rules : x.version \in Nat \ {0} /\ x.key \in Keys
      /\ r \in RuleRows
  BY DEF RulesTypeOK, RuleRows
<1>2. s.key = r.key /\ s.version = r.version /\ s.value = r.value /\ ~s.active
  BY <1>1, NewRows
<1>3. n.key = r.key /\ n.version = r.version + 1 /\ n.value = value /\ n.active
  BY DEF NextRow, RuleRow
<1>4. \A y : y \in rules' <=> (y \in rules /\ y # r) \/ y = s \/ y = n
  OBVIOUS
<1> HIDE DEF n, s
<1>5. OneRow'
  <2> SUFFICES ASSUME NEW x \in rules', NEW y \in rules', x.key = y.key, x.version = y.version
               PROVE  x = y
    BY DEF OneRow, SameRow
  <2>1. ASSUME NEW z \in rules, z # r, z.key = r.key PROVE z.version < r.version
    BY <2>1
  <2>2. ASSUME NEW z \in rules, NEW w \in rules, z.key = w.key, z.version = w.version PROVE z = w
    BY <2>2 DEF RowsInv, OneRow, SameRow
  <2> QED BY <1>1, <1>2, <1>3, <1>4, <2>1, <2>2
<1>6. NoGap'
  <2> SUFFICES ASSUME NEW x \in rules', NEW v \in 1..x.version
               PROVE  \E y \in rules' : y.key = x.key /\ y.version = v
    BY DEF NoGap
  <2>1. \A z \in rules : \A w \in 1..z.version : \E y \in rules : y.key = z.key /\ y.version = w
    BY DEF RowsInv, NoGap
  <2>2. \A z \in rules : \A w \in 1..z.version : \E y \in rules' : y.key = z.key /\ y.version = w
    BY <1>2, <1>4, <2>1
  <2>3. CASE x \in rules
    BY <2>2, <2>3
  <2>4. CASE x = s
    BY <1>2, <2>2, <2>4
  <2>5. CASE x = n /\ v = r.version + 1
    BY <1>3, <1>4, <2>5
  <2>6. CASE x = n /\ v # r.version + 1
    <3>1. v \in 1..r.version
      BY <1>1, <1>3, <2>6
    <3> QED BY <1>3, <2>2, <2>6, <3>1
  <2> QED BY <1>4, <2>3, <2>4, <2>5, <2>6
<1>7. LatestIsActive'
  <2> SUFFICES ASSUME NEW k \in Keys
               PROVE  \E l \in rules' :
                        /\ l.key = k /\ l.active
                        /\ \A x \in rules' : x.key = k /\ x # l => ~x.active /\ x.version < l.version
    BY DEF LatestIsActive
  <2>1. CASE k = r.key
    <3>1. ASSUME NEW x \in rules', x.key = k, x # n PROVE ~x.active /\ x.version < n.version
      BY <1>1, <1>2, <1>3, <1>4, <2>1, <3>1
    <3> QED BY <1>3, <1>4, <2>1, <3>1
  <2>2. CASE k # r.key
    <3>1. PICK l \in rules : /\ l.key = k /\ l.active
                            /\ \A x \in rules : x.key = k /\ x # l => ~x.active /\ x.version < l.version
      BY DEF RowsInv, LatestIsActive
    <3> QED BY <1>2, <1>3, <1>4, <2>2, <3>1
  <2> QED BY <2>1, <2>2
<1>8. ChangesAreVersions'
  <2>1. \A c : c \in changes <=> \E x \in rules : x.version > 1 /\ c = ChangeRow(x.key, x.version, x.value)
    BY DEF RowsInv, ChangesAreVersions
  <2>2. \A c : c \in changes' <=> c \in changes \/ c = ChangeRow(n.key, n.version, n.value)
    BY <1>3
  <2>3. n.version > 1
    BY <1>1, <1>3
  <2>4. \A c : c \in changes' <=> \E x \in rules' : x.version > 1 /\ c = ChangeRow(x.key, x.version, x.value)
    BY <1>2, <1>4, <2>1, <2>2, <2>3
  <2> QED BY <2>4 DEF ChangesAreVersions
<1>9. \A x \in rules : \E y \in rules' : SameRow(y, x) /\ y.value = x.value /\ (y.active => x.active)
  BY <1>2, <1>4 DEF SameRow
<1> QED BY <1>5, <1>6, <1>7, <1>8, <1>9 DEF RowsInv

(* After a commit the row every request has read is there, and the next    *)
(* version of any other transaction's row is still free.                   *)
LEMMA CommitKeepsEdits ==
  ASSUME RulesTypeOK, RowsInv, EditsInv, NEW e \in Editors, CommitEdit(e)
  PROVE  EditsInv'
<1>1. PICK r \in rules :
        /\ r \in RuleRows /\ r.active /\ SameRow(r, edit[e].rule) /\ r.value = edit[e].rule.value
        /\ \A x \in rules : x.key = r.key /\ x # r => ~x.active /\ x.version < r.version
        /\ rules' = (rules \ {r}) \cup {Superseded(r), NextRow(r, edit[e].value)}
        /\ edit[e].value \in Values
  BY CommittedRows
<1>2. changes' = changes \cup {ChangeRow(r.key, r.version + 1, edit[e].value)}
  BY <1>1 DEF CommitEdit, SameRow
<1>3. \A x \in rules : \E y \in rules' : SameRow(y, x) /\ y.value = x.value
  BY <1>1, <1>2, SupersedingKeepsRows
<1>5. /\ editing[e] = "commit" /\ editing'[e] = "audit" /\ edit'[e] = edit[e]
      /\ \A d \in Editors \ {e} : editing'[d] = editing[d] /\ edit'[d] = edit[d]
  BY TurnFacts DEF CommitEdit, GoOn
<1>6. ReadIsThere'
  <2> SUFFICES ASSUME NEW d \in Editors, editing'[d] # "idle"
               PROVE  HasValue(edit[d].rule.key, edit[d].rule.version, edit[d].rule.value)'
    BY DEF ReadIsThere
  <2>1. edit'[d] = edit[d] /\ editing[d] # "idle"
    BY <1>5
  <2>2. PICK x \in rules : /\ x.key = edit[d].rule.key /\ x.version = edit[d].rule.version
                          /\ x.value = edit[d].rule.value
    BY <2>1 DEF EditsInv, ReadIsThere, HasValue
  <2> QED BY <1>3, <2>1, <2>2 DEF HasValue, SameRow
<1>7. OneHolder'
  BY <1>5 DEF EditsInv, OneHolder, Holds, SameRow
<1>8. NextIsFree'
  <2> SUFFICES ASSUME NEW d \in Editors \ {e}, editing[d] \in {"log", "commit"},
                      NEW x \in rules', x.key = edit[d].rule.key, x.version = edit[d].rule.version + 1
               PROVE  FALSE
    BY <1>5 DEF NextIsFree, VersionTaken
  <2>1. ~VersionTaken(d)
    BY DEF EditsInv, NextIsFree
  <2>2. x \notin rules
    BY <2>1 DEF VersionTaken
  <2>3. x # Superseded(r)
    <3>1. Superseded(r).key = r.key /\ Superseded(r).version = r.version
      BY <1>1, NewRows
    <3> QED BY <2>1, <3>1 DEF VersionTaken
  <2>4. x.key = r.key /\ x.version = r.version + 1
    BY <1>1, <2>2, <2>3 DEF NextRow, RuleRow
  <2>5. edit[d].rule \in RuleRows
    BY DEF RulesTypeOK, Edits
  <2>6. edit[d].rule.version = r.version
    BY <1>1, <2>4, <2>5 DEF RuleRows
  <2>7. SameRow(edit[d].rule, edit[e].rule)
    BY <1>1, <2>4, <2>6 DEF SameRow
  <2> QED BY <1>5, <2>7 DEF EditsInv, OneHolder, Holds
<1>9. CommittedIsThere'
  <2>1. NextRow(r, edit[e].value) \in rules'
    BY <1>1
  <2>2. HasValue(edit[e].rule.key, edit[e].rule.version + 1, edit[e].value)'
    BY <1>1, <1>5, <2>1 DEF HasValue, NextRow, RuleRow, SameRow
  <2>3. ASSUME NEW d \in Editors \ {e}, editing[d] = "audit"
        PROVE  HasValue(edit[d].rule.key, edit[d].rule.version + 1, edit[d].value)'
    <3>1. PICK x \in rules : /\ x.key = edit[d].rule.key /\ x.version = edit[d].rule.version + 1
                            /\ x.value = edit[d].value
      BY <2>3 DEF EditsInv, CommittedIsThere, HasValue
    <3> QED BY <1>3, <1>5, <3>1 DEF HasValue, SameRow
  <2> QED BY <1>5, <2>2, <2>3 DEF CommittedIsThere
<1> QED BY <1>6, <1>7, <1>8, <1>9 DEF EditsInv

LEMMA CommitKeepsRows ==
  ASSUME RulesTypeOK, RowsInv, EditsInv, NEW e \in Editors, CommitEdit(e)
  PROVE  RowsInv' /\ \A x \in rules : Persists(x)
<1>1. PICK r \in rules :
        /\ r \in RuleRows /\ r.active /\ SameRow(r, edit[e].rule) /\ r.value = edit[e].rule.value
        /\ \A x \in rules : x.key = r.key /\ x # r => ~x.active /\ x.version < r.version
        /\ rules' = (rules \ {r}) \cup {Superseded(r), NextRow(r, edit[e].value)}
        /\ edit[e].value \in Values
  BY CommittedRows
<1>2. changes' = changes \cup {ChangeRow(r.key, r.version + 1, edit[e].value)}
  BY <1>1 DEF CommitEdit, SameRow
<1> QED BY <1>1, <1>2, SupersedingKeepsRows DEF Persists

-----------------------------------------------------------------------------
(* The audit.                                                              *)

LEMMA AuditKept ==
  ASSUME AuditTrue, UNCHANGED audits, \A k, v, x : HasValue(k, v, x) => HasValue(k, v, x)'
  PROVE  AuditTrue'
BY DEF AuditTrue

LEMMA AuditTold ==
  ASSUME EditsInv, AuditTrue, NEW e \in Editors, AuditEdit(e)
  PROVE  AuditTrue'
<1> DEFINE a == [key |-> edit[e].rule.key, version |-> edit[e].rule.version,
                 previous |-> edit[e].rule.value, new |-> edit[e].value]
<1>1. audits' = audits \cup {a} /\ rules' = rules /\ editing[e] = "audit"
  BY DEF AuditEdit
<1>2. HasValue(a.key, a.version, a.previous) /\ HasValue(a.key, a.version + 1, a.new)
  BY <1>1 DEF EditsInv, ReadIsThere, CommittedIsThere
<1> HIDE DEF a
<1>3. \A b \in audits' : HasValue(b.key, b.version, b.previous) /\ HasValue(b.key, b.version + 1, b.new)
  BY <1>1, <1>2 DEF AuditTrue
<1> QED BY <1>1, <1>3 DEF AuditTrue, HasValue

(* Requests neither commit nor audit nor are cut short before an audit.    *)
LEMMA QuietKeepsLost ==
  ASSUME RulesTypeOK, LostAreCut, NEW e \in Editors, NEW label, NEW data, Turn(e, label, data),
         editing[e] # "audit", label # "audit", UNCHANGED <<changes, audits>>, cutShort' \in {cutShort, cutShort + 1}
  PROVE  LostAreCut'
<1>1. PICK L : /\ IsFiniteSet(L) /\ Cardinality(L) <= cutShort
               /\ Unaudited \subseteq L \cup {ChangeOf(d) : d \in Auditing}
  BY DEF LostAreCut
<1>2. Unaudited' = Unaudited
  BY DEF Unaudited
<1>3. Auditing' = Auditing /\ \A d \in Auditing : ChangeOf(d)' = ChangeOf(d)
  BY TurnFacts DEF Auditing, ChangeOf
<1>4. Unaudited' \subseteq L \cup {ChangeOf(d)' : d \in Auditing'}
  BY <1>1, <1>2, <1>3
<1>5. Cardinality(L) <= cutShort'
  BY <1>1, FS_CardinalityType DEF RulesTypeOK
<1> QED BY <1>1, <1>4, <1>5 DEF LostAreCut

LEMMA CommitKeepsLost ==
  ASSUME RulesTypeOK, LostAreCut, NEW e \in Editors, CommitEdit(e)
  PROVE  LostAreCut'
<1>1. PICK L : /\ IsFiniteSet(L) /\ Cardinality(L) <= cutShort
               /\ Unaudited \subseteq L \cup {ChangeOf(d) : d \in Auditing}
  BY DEF LostAreCut
<1>2. /\ editing[e] = "commit" /\ editing'[e] = "audit" /\ edit'[e] = edit[e]
      /\ \A d \in Editors \ {e} : editing'[d] = editing[d] /\ edit'[d] = edit[d]
  BY TurnFacts DEF CommitEdit, GoOn
<1>3. Unaudited' \subseteq Unaudited \cup {ChangeOf(e)}
  BY DEF Unaudited, CommitEdit, ChangeOf
<1>4. Auditing' = Auditing \cup {e} /\ \A d \in Auditing' : ChangeOf(d)' = ChangeOf(d)
  BY <1>2 DEF Auditing, ChangeOf
<1>5. Unaudited' \subseteq L \cup {ChangeOf(d)' : d \in Auditing'}
  BY <1>1, <1>3, <1>4
<1>6. cutShort' = cutShort
  BY DEF CommitEdit, GoOn
<1> QED BY <1>1, <1>5, <1>6 DEF LostAreCut

LEMMA AuditKeepsLost ==
  ASSUME RulesTypeOK, LostAreCut, NEW e \in Editors, AuditEdit(e)
  PROVE  LostAreCut'
<1>1. PICK L : /\ IsFiniteSet(L) /\ Cardinality(L) <= cutShort
               /\ Unaudited \subseteq L \cup {ChangeOf(d) : d \in Auditing}
  BY DEF LostAreCut
<1>2. /\ editing[e] = "audit" /\ editing'[e] = "idle"
      /\ \A d \in Editors \ {e} : editing'[d] = editing[d] /\ edit'[d] = edit[d]
  BY TurnFacts DEF AuditEdit, EndEdit
<1>3. Unaudited' \subseteq Unaudited \ {ChangeOf(e)}
  <2> DEFINE a == [key |-> edit[e].rule.key, version |-> edit[e].rule.version,
                   previous |-> edit[e].rule.value, new |-> edit[e].value]
  <2>1. a \in audits' /\ a.key = edit[e].rule.key /\ a.version = edit[e].rule.version
    BY DEF AuditEdit
  <2> HIDE DEF a
  <2>2. ChangeOf(e).key = edit[e].rule.key /\ ChangeOf(e).version = edit[e].rule.version + 1
    BY DEF ChangeOf, ChangeRow
  <2>3. changes' = changes /\ audits \subseteq audits'
    BY DEF AuditEdit
  <2> QED BY <2>1, <2>2, <2>3 DEF Unaudited
<1>4. Auditing' = Auditing \ {e} /\ \A d \in Auditing' : ChangeOf(d)' = ChangeOf(d)
  BY <1>2 DEF Auditing, ChangeOf
<1>5. Unaudited' \subseteq L \cup {ChangeOf(d)' : d \in Auditing'}
  BY <1>1, <1>3, <1>4
<1>6. cutShort' = cutShort
  BY DEF AuditEdit, EndEdit
<1> QED BY <1>1, <1>5, <1>6 DEF LostAreCut

LEMMA CutKeepsLost ==
  ASSUME RulesTypeOK, LostAreCut, NEW e \in Editors, CutShort(e)
  PROVE  LostAreCut'
<1>1. PICK L : /\ IsFiniteSet(L) /\ Cardinality(L) <= cutShort
               /\ Unaudited \subseteq L \cup {ChangeOf(d) : d \in Auditing}
  BY DEF LostAreCut
<1> DEFINE M == L \cup {ChangeOf(e)}
<1>2. IsFiniteSet(M) /\ Cardinality(M) <= cutShort + 1
  <2>1. /\ IsFiniteSet(M)
        /\ Cardinality(M) = IF ChangeOf(e) \in L THEN Cardinality(L) ELSE Cardinality(L) + 1
    BY <1>1, FS_AddElement
  <2>2. Cardinality(L) \in Nat
    BY <1>1, FS_CardinalityType
  <2>3. cutShort \in Nat
    BY DEF RulesTypeOK
  <2> HIDE DEF M
  <2> QED BY <1>1, <2>1, <2>2, <2>3
<1>3. /\ editing'[e] = "idle"
      /\ \A d \in Editors \ {e} : editing'[d] = editing[d] /\ edit'[d] = edit[d]
  BY TurnFacts DEF CutShort
<1>4. Unaudited' = Unaudited /\ cutShort' = cutShort + 1
  BY DEF Unaudited, CutShort, ruleTables
<1>5. Auditing' = Auditing \ {e} /\ \A d \in Auditing' : ChangeOf(d)' = ChangeOf(d)
  BY <1>3 DEF Auditing, ChangeOf
<1>6. Unaudited' \subseteq M \cup {ChangeOf(d)' : d \in Auditing'}
  BY <1>1, <1>4, <1>5
<1> QED BY <1>2, <1>4, <1>6 DEF LostAreCut

-----------------------------------------------------------------------------
(* The invariant holds.                                                    *)

LEMMA InitHoldsRules == RulesInit => RulesInv
<1> SUFFICES ASSUME RulesInit PROVE RulesInv
  OBVIOUS
<1>1. \A r \in rules : \E k \in Keys : r = RuleRow(k, 1, FirstValue[k], TRUE)
  BY DEF RulesInit
<1>2. \A k \in Keys : RuleRow(k, 1, FirstValue[k], TRUE) \in rules
  BY DEF RulesInit
<1>3. \A k \in Keys : RuleRow(k, 1, FirstValue[k], TRUE) \in RuleRows
  BY DEF RuleRow, RuleRows
<1>4. RulesTypeOK
  BY <1>1, <1>3 DEF RulesInit, RulesTypeOK, EditLabels
<1>5. \A r \in rules : r.version = 1 /\ r = RuleRow(r.key, 1, FirstValue[r.key], TRUE)
  BY <1>1 DEF RuleRow
<1>6. OneRow
  BY <1>5 DEF OneRow, SameRow
<1>7. NoGap
  <2> SUFFICES ASSUME NEW r \in rules, NEW v \in 1..r.version PROVE r.version = v
    BY DEF NoGap
  <2>1. r.version = 1
    BY <1>5
  <2> QED BY <2>1
<1>8. LatestIsActive
  <2> SUFFICES ASSUME NEW k \in Keys
               PROVE  \E r \in rules :
                        /\ r.key = k /\ r.active
                        /\ \A x \in rules : x.key = k /\ x # r => ~x.active /\ x.version < r.version
    BY DEF LatestIsActive
  <2> DEFINE r == RuleRow(k, 1, FirstValue[k], TRUE)
  <2>1. r.key = k /\ r.active
    BY DEF RuleRow
  <2>2. \A x \in rules : x.key = k => x = r
    <3> SUFFICES ASSUME NEW x \in rules, x.key = k PROVE x = r
      OBVIOUS
    <3>1. PICK l \in Keys : x = RuleRow(l, 1, FirstValue[l], TRUE)
      BY <1>1
    <3>2. l = k
      BY <3>1 DEF RuleRow
    <3> QED BY <3>1, <3>2
  <2> QED BY <1>2, <2>1, <2>2
<1>9. ChangesAreVersions
  <2>1. \A x \in rules : ~(x.version > 1)
    <3>1. \A x \in rules : x.version = 1
      BY <1>5
    <3> QED BY <3>1
  <2> QED BY <2>1 DEF ChangesAreVersions, RulesInit
<1>10. EditsInv
  BY DEF RulesInit, EditsInv, ReadIsThere, OneHolder, NextIsFree, CommittedIsThere, Holds
<1>11. AuditTrue
  BY DEF RulesInit, AuditTrue
<1>12. LostAreCut
  <2>1. IsFiniteSet({}) /\ Cardinality({}) <= cutShort
    BY FS_EmptySet DEF RulesInit
  <2>2. Unaudited \subseteq {} \cup {ChangeOf(e) : e \in Auditing}
    BY DEF RulesInit, Unaudited
  <2> QED BY <2>1, <2>2 DEF LostAreCut
<1> QED BY <1>4, <1>6, <1>7, <1>8, <1>9, <1>10, <1>11, <1>12 DEF RulesInv, RowsInv

(* A step that leaves the rules, the changes and the audits.               *)
LEMMA QuietHoldsRules ==
  ASSUME RulesInv, EditsInv', RulesTypeOK', UNCHANGED ruleTables, LostAreCut'
  PROVE  RulesInv' /\ \A r \in rules : Persists(r)
<1>1. RowsInv'
  BY QuietKeepsRows DEF RulesInv, ruleTables
<1>2. AuditTrue'
  BY DEF RulesInv, AuditTrue, HasValue, ruleTables
<1>3. \A r \in rules : Persists(r)
  BY DEF Persists, SameRow, ruleTables
<1> QED BY <1>1, <1>2, <1>3 DEF RulesInv

LEMMA StepHoldsRules ==
  ASSUME RulesInv, RulesNext
  PROVE  RulesInv' /\ \A r \in rules : Persists(r)
<1>1. PICK e \in Editors :
        \/ \E r \in rules, value \in Values : ReadRule(e, r, value)
        \/ Supersede(e) \/ InsertNext(e) \/ InsertChange(e) \/ CommitEdit(e) \/ AuditEdit(e) \/ CutShort(e)
  BY DEF RulesNext
<1>2. RulesTypeOK /\ RowsInv /\ EditsInv /\ AuditTrue /\ LostAreCut
  BY DEF RulesInv
<1>3. RulesTypeOK'
  BY <1>1, <1>2, TypesKept
<1>4. ASSUME NEW r \in rules, NEW value \in Values, ReadRule(e, r, value)
      PROVE  EditsInv' /\ LostAreCut' /\ UNCHANGED ruleTables
  <2>1. EditsInv'
    BY <1>2, <1>4, ReadKeepsEdits
  <2>2. Turn(e, "supersede", [rule |-> r, value |-> value]) /\ editing[e] # "audit" /\ UNCHANGED <<ruleTables, cutShort>>
    BY <1>4 DEF ReadRule
  <2>3. LostAreCut'
    BY <1>2, <2>2, QuietKeepsLost DEF ruleTables
  <2> QED BY <2>1, <2>2, <2>3
<1>5. ASSUME NEW label \in {"insert", "log", "commit"}, GoOn(e, label), UNCHANGED ruleTables,
             editing[e] \in {"supersede", "insert", "log"}, ~RowLocked(e), label \in {"log", "commit"} => ~VersionTaken(e)
      PROVE  EditsInv' /\ LostAreCut'
  <2>1. UNCHANGED <<rules, changes, audits>> /\ Turn(e, label, edit[e]) /\ cutShort' = cutShort
    BY <1>5 DEF GoOn, ruleTables
  <2>2. EditsInv'
    BY <1>2, <1>5, <2>1, GoOnKeepsEdits
  <2>3. LostAreCut'
    BY <1>2, <1>5, <2>1, QuietKeepsLost
  <2> QED BY <2>2, <2>3
<1>6. CASE Supersede(e)
  BY <1>2, <1>3, <1>5, <1>6, QuietHoldsRules DEF Supersede
<1>7. CASE InsertNext(e) /\ ~VersionTaken(e)
  <2>1. ~RowLocked(e)
    BY <1>2, <1>7, HolderIsAlone DEF InsertNext, Holds
  <2> QED BY <1>2, <1>3, <1>5, <1>7, <2>1, QuietHoldsRules DEF InsertNext
<1>8. CASE InsertNext(e) /\ VersionTaken(e)
  <2>1. Turn(e, "idle", NoEdit) /\ UNCHANGED <<rules, changes, audits>> /\ cutShort' = cutShort /\ editing[e] # "audit"
    BY <1>8 DEF InsertNext, EndEdit, ruleTables
  <2>2. EditsInv' /\ LostAreCut'
    BY <1>2, <2>1, EndKeepsEdits, QuietKeepsLost
  <2> QED BY <1>3, <2>1, <2>2, QuietHoldsRules DEF ruleTables
<1>9. CASE InsertChange(e)
  <2>1. ~RowLocked(e) /\ ~VersionTaken(e)
    BY <1>2, <1>9, HolderIsAlone DEF InsertChange, Holds, EditsInv, NextIsFree
  <2> QED BY <1>2, <1>3, <1>5, <1>9, <2>1, QuietHoldsRules DEF InsertChange
<1>10. CASE CommitEdit(e)
  <2>1. RowsInv' /\ \A x \in rules : Persists(x)
    BY <1>2, <1>10, CommitKeepsRows
  <2>2. EditsInv' /\ LostAreCut'
    BY <1>2, <1>10, CommitKeepsEdits, CommitKeepsLost
  <2>3. AuditTrue'
    BY <1>2, <1>10, <2>1 DEF AuditTrue, HasValue, Persists, SameRow, CommitEdit
  <2> QED BY <1>3, <2>1, <2>2, <2>3 DEF RulesInv
<1>11. CASE AuditEdit(e)
  <2>1. EditsInv'
    BY <1>2, <1>11, EndKeepsEdits DEF AuditEdit, EndEdit
  <2>2. LostAreCut' /\ AuditTrue'
    BY <1>2, <1>11, AuditKeepsLost, AuditTold
  <2>3. RowsInv'
    BY <1>2, <1>11, QuietKeepsRows DEF AuditEdit
  <2>4. \A r \in rules : Persists(r)
    BY <1>11 DEF AuditEdit, Persists, SameRow
  <2> QED BY <1>3, <2>1, <2>2, <2>3, <2>4 DEF RulesInv
<1>12. CASE CutShort(e)
  <2>1. EditsInv'
    BY <1>2, <1>12, EndKeepsEdits DEF CutShort, ruleTables
  <2>2. LostAreCut'
    BY <1>2, <1>12, CutKeepsLost
  <2> QED BY <1>3, <1>12, <2>1, <2>2, QuietHoldsRules DEF CutShort
<1> QED BY <1>1, <1>3, <1>4, <1>6, <1>7, <1>8, <1>9, <1>10, <1>11, <1>12, QuietHoldsRules

LEMMA StutterHoldsRules ==
  ASSUME RulesInv, UNCHANGED ruleVars
  PROVE  RulesInv' /\ \A r \in rules : Persists(r)
<1>1. /\ UNCHANGED ruleTables /\ editing' = editing /\ edit' = edit /\ cutShort' = cutShort
      /\ rules' = rules /\ changes' = changes /\ audits' = audits
  BY DEF ruleVars, ruleTables
<1>2. RulesTypeOK'
  BY <1>1 DEF RulesInv, RulesTypeOK
<1>3. EditsInv'
  BY <1>1 DEF RulesInv, EditsInv, ReadIsThere, OneHolder, NextIsFree, CommittedIsThere, HasValue, VersionTaken, Holds, SameRow
<1>4. LostAreCut'
  BY <1>1 DEF RulesInv, LostAreCut, Unaudited, Auditing, ChangeOf
<1> QED BY <1>1, <1>2, <1>3, <1>4, QuietHoldsRules

(* The inductive invariant of the edits of rules.                          *)
THEOREM RulesInvariant == RulesSpec => []RulesInv
<1>1. RulesInv /\ [RulesNext]_ruleVars => RulesInv'
  BY StepHoldsRules, StutterHoldsRules
<1> QED BY <1>1, InitHoldsRules, PTL DEF RulesSpec

-----------------------------------------------------------------------------
(* What it tells.                                                          *)

(* The latest row is the one the cap engine reads.                         *)
LEMMA LatestIsRead ==
  ASSUME LatestIsActive
  PROVE  OneActive
<1> SUFFICES ASSUME NEW k \in Keys
             PROVE  \E r \in rules :
                      /\ r.key = k /\ r.active
                      /\ \A x \in rules : x.key = k /\ x # r => ~x.active /\ x.version < r.version
                      /\ LoadRuleSet(k) = {r.value}
  BY DEF OneActive
<1>1. PICK r \in rules : /\ r.key = k /\ r.active
                        /\ \A x \in rules : x.key = k /\ x # r => ~x.active /\ x.version < r.version
  BY DEF LatestIsActive
<1>2. {x \in rules : x.key = k /\ x.active} = {r}
  BY <1>1
<1>3. LoadRuleSet(k) = {r.value}
  BY <1>2 DEF LoadRuleSet
<1> QED BY <1>1, <1>3

(* There are no more changes without an audit than requests about to audit *)
(* one or cut short.                                                       *)
LEMMA LostAreFew ==
  ASSUME RulesTypeOK, LostAreCut
  PROVE  AuditedButForFailures
<1>1. PICK L : /\ IsFiniteSet(L) /\ Cardinality(L) <= cutShort
               /\ Unaudited \subseteq L \cup {ChangeOf(d) : d \in Auditing}
  BY DEF LostAreCut
<1> DEFINE T == {ChangeOf(d) : d \in Auditing}
           f == [d \in Auditing |-> ChangeOf(d)]
<1>2. IsFiniteSet(Auditing)
  BY EditorsAssumption, FS_Subset DEF Auditing
<1>3. f \in Surjection(Auditing, T)
  BY DEF Surjection
<1> HIDE DEF f
<1>4. IsFiniteSet(T) /\ Cardinality(T) <= Cardinality(Auditing)
  BY <1>2, <1>3, FS_Surjection
<1> HIDE DEF T
<1>5. IsFiniteSet(L \cup T) /\ Cardinality(L \cup T) = Cardinality(L) + Cardinality(T) - Cardinality(L \cap T)
  BY <1>1, <1>4, FS_Union
<1>6. Cardinality(Unaudited) <= Cardinality(L \cup T)
  BY <1>1, <1>5, FS_Subset DEF T
<1>7. Cardinality(L) \in Nat /\ Cardinality(T) \in Nat /\ Cardinality(L \cup T) \in Nat /\ Cardinality(Auditing) \in Nat
  BY <1>1, <1>2, <1>4, <1>5, FS_CardinalityType
<1>8. IsFiniteSet(L \cap T) /\ IsFiniteSet(Unaudited)
  BY <1>1, <1>5, FS_Subset DEF T
<1>9. Cardinality(L \cap T) \in Nat /\ Cardinality(Unaudited) \in Nat /\ cutShort \in Nat
  BY <1>8, FS_CardinalityType DEF RulesTypeOK
<1> QED BY <1>1, <1>4, <1>5, <1>6, <1>7, <1>9 DEF AuditedButForFailures

(* Rows and requests keep their types, for any rules, values and editors.  *)
THEOREM RulesTyped == RulesSpec => []RulesTypeOK
<1>1. RulesInv => RulesTypeOK
  BY DEF RulesInv
<1> QED BY <1>1, RulesInvariant, PTL

(* Whatever edits cross or die, a rule has one active row, its latest, the *)
(* history has each later version, and what is audited is what happened.   *)
THEOREM RulesToldAlways == RulesSpec => []RulesTold
<1>1. RulesInv => RulesTold
  BY LatestIsRead, LostAreFew DEF RulesInv, RowsInv, RulesTold
<1> QED BY <1>1, RulesInvariant, PTL

(* No row of a rule goes, gets another value or becomes active again.      *)
THEOREM RulesPersist == RulesSpec => NeverOverwritten
<1>1. RulesInv /\ [RulesNext]_ruleVars => [\A r \in rules : Persists(r)]_ruleVars
  BY StepHoldsRules
<1> QED BY <1>1, RulesInvariant, PTL DEF RulesSpec, NeverOverwritten

-----------------------------------------------------------------------------
(* Organizations, leagues, teams and clubs set up: any requests, clubs,    *)
(* players and years, on PGlite and on Postgres.                           *)

(* What a request's work is at each of its stages.                         *)
MakingWork == [league : Ids, year : 1..LeagueYears, club : Clubs \cup {Nothing}]
FetchedWork == [club : Clubs, roster : SUBSET NhlPlayers, hide : BOOLEAN]
LeagueWork ==
  [club : Clubs, roster : SUBSET NhlPlayers, hide : BOOLEAN, league : LeagueRows, years : SUBSET (1..NhlYears)]
TeamWork ==
  [club : Clubs, roster : SUBSET NhlPlayers, league : LeagueRows, years : SUBSET (1..NhlYears),
   team : TeamRows, show : BOOLEAN, hidden : SUBSET Ids]

Making(e) == stage[e] \in {"season", "rules"}
Placing(e) == stage[e] \in {"players", "roster", "commit"}

WorkInv(e) ==
  /\ stage[e] \in {"idle", "member", "season", "rules", "insertTeam", "fetched", "team", "players", "roster", "commit"}
  /\ stage[e] # "idle" => begun >= 1
  /\ Making(e) \/ stage[e] = "insertTeam" => work[e] \in MakingWork
  /\ stage[e] = "fetched" => work[e] \in FetchedWork
  /\ stage[e] = "team" => work[e] \in LeagueWork
  /\ Placing(e) => work[e] \in TeamWork

TypedInv ==
  /\ SetupTypeOK
  /\ begun \in 0..MaxRequests /\ failures \in Nat
  /\ \A e \in Requests : WorkInv(e)
  /\ \A e \in Requests : stage[e] = "member" => OrgOf[e] \in orgs

(* Ids are handed out once: no row has one that a request is about to give.*)
Unused(e, rows) == \A r \in rows : r.id[1] = e => r.id[2] < begun

IdInv ==
  /\ \A l \in leagues : l.id[2] <= begun
  /\ \A t \in teams : t.id[2] <= begun /\ t.org = OrgOf[t.id[1]]
  /\ \A t, x \in teams : t.id = x.id => t = x
  /\ \A e \in Requests : Making(e) \/ stage[e] \in {"insertTeam", "fetched", "team"} => Unused(e, teams)
  /\ \A e \in Requests : stage[e] = "fetched" => Unused(e, leagues)

(* The NHL's leagues are whole; a league that is made is so up to the year *)
(* that its request has come to.                                           *)
IsThere(id) == \E l \in leagues : l.id = id

MadeInv(e) ==
  LET u == work[e] IN
  /\ Making(e) => /\ IsThere(u.league)
                  /\ \A y \in 1..LeagueYears : y < u.year => SeasonRow(u.league, y) \in ruled
  /\ stage[e] = "rules" => SeasonRow(u.league, u.year) \in seasons
  /\ Transacting(e) => /\ u.league.kind = "nhl" /\ u.league.id[2] <= begun
                       /\ u.league \in leagues \/ u.league.id[1] = e
                       /\ \A y \in 1..NhlYears : y \in u.years \/ SeasonRow(u.league.id, y) \in ruled

LeagueInv ==
  /\ \A s \in seasons : IsThere(s.league)
  /\ \A l \in leagues : l.kind = "nhl" => Whole(l)
  /\ \A e \in Requests : MadeInv(e)

(* The team that an import writes is one that is there or has an id of its *)
(* own, and those it hides are others of its organization.                 *)
HasId(id) == \E t \in teams : t.id = id

PlaceInv(e) ==
  LET u == work[e] IN
  Placing(e) =>
    /\ u.team.org = OrgOf[e] /\ OrgOf[u.team.id[1]] = OrgOf[e] /\ u.team.id[2] <= begun
    /\ u.team.club = u.club
    /\ HasId(u.team.id) \/ u.team.id[1] = e
    /\ u.team.id \notin u.hidden
    /\ \A h \in u.hidden : OrgOf[h[1]] = OrgOf[e]

(* While one transaction runs, what it has read stays so.                  *)
AloneInv(e) ==
  LET u == work[e] IN
  /\ Transacting(e) => NhlLeagues = {} \/ u.league \in NhlLeagues
  /\ Placing(e) =>
       /\ u.show = ~u.team.active
       /\ \/ u.team \in teams
          \/ u.team.active /\ ~HasId(u.team.id) /\ ClubTeams(e) = {}

SerialInv ==
  serial =>
    /\ \A d, e \in Requests : Transacting(d) /\ Transacting(e) => d = e
    /\ \A l, m \in NhlLeagues : l = m
    /\ \A e \in Requests : AloneInv(e)

(* What requests that died have left half made.                            *)
Working(id) == \E e \in Requests : Making(e) /\ work[e].league = id
Orphans == {l \in leagues : ~Whole(l) /\ ~Working(l.id)}
OrphanOrgs == {o \in orgs \ staffed : \A e \in Requests : stage[e] = "member" => OrgOf[e] # o}

OrphanInv ==
  /\ IsFiniteSet(leagues) /\ IsFiniteSet(orgs)
  /\ Cardinality(Orphans) + Cardinality(OrphanOrgs) <= failures

SetupInv ==
  /\ TypedInv /\ IdInv /\ LeagueInv /\ SerialInv /\ OrphanInv /\ MembersExist
  /\ \A e \in Requests : PlaceInv(e)

-----------------------------------------------------------------------------
(* Types.                                                                  *)

(* What a move of a request changes.                                       *)
LEMMA Moved ==
  ASSUME SetupTypeOK, NEW e \in Requests, NEW label, NEW data, MoveTo(e, label, data)
  PROVE  /\ stage'[e] = label /\ work'[e] = data
         /\ DOMAIN stage' = Requests /\ DOMAIN work' = Requests
         /\ \A d \in Requests \ {e} : stage'[d] = stage[d] /\ work'[d] = work[d]
BY DEF MoveTo, SetupTypeOK

(* Whatever a request does, the others' work is what it was.               *)
LEMMA MoveKeepsTypes ==
  ASSUME TypedInv, NEW e \in Requests, NEW label, NEW data, MoveTo(e, label, data),
         WorkInv(e)', begun' \in Nat, begun' >= begun
  PROVE  \A d \in Requests : WorkInv(d)'
<1> TAKE d \in Requests
<1>1. CASE d = e BY <1>1
<1>2. CASE d # e
  <2>1. stage'[d] = stage[d] /\ work'[d] = work[d]
    BY <1>2, Moved DEF TypedInv
  <2>2. WorkInv(d) /\ begun \in Nat
    BY SetupAssumption DEF TypedInv
  <2> QED BY <2>1, <2>2 DEF WorkInv, Making, Placing
<1> QED BY <1>1, <1>2

(* What the types of requests come to after a step of the request e.       *)
WorkKept(e, label) ==
  /\ \A d \in Requests : WorkInv(d)'
  /\ begun' \in 0..MaxRequests /\ failures' \in Nat
  /\ nhl' = nhl /\ DOMAIN stage' = Requests /\ DOMAIN work' = Requests
  /\ \A d \in Requests : stage'[d] = "member" => stage[d] = "member" \/ (d = e /\ label = "member")

(* A request that goes on has work of its new stage's type.                *)
LEMMA ProceedKeepsTypes ==
  ASSUME TypedInv, NEW e \in Requests, NEW label, NEW data, Proceed(e, label, data), stage[e] # "idle",
         /\ label \in {"idle", "season", "rules", "insertTeam", "fetched", "team", "players", "roster", "commit"}
         /\ label \in {"season", "rules", "insertTeam"} => data \in MakingWork
         /\ label = "fetched" => data \in FetchedWork
         /\ label = "team" => data \in LeagueWork
         /\ label \in {"players", "roster", "commit"} => data \in TeamWork
  PROVE  WorkKept(e, label)
<1>1. MoveTo(e, label, data) /\ begun' = begun /\ failures' = failures /\ nhl' = nhl
  BY DEF Proceed
<1>2. /\ stage'[e] = label /\ work'[e] = data /\ DOMAIN stage' = Requests /\ DOMAIN work' = Requests
      /\ \A d \in Requests \ {e} : stage'[d] = stage[d]
  BY <1>1, Moved DEF TypedInv
<1>3. begun \in Nat /\ begun >= 1
  BY SetupAssumption DEF TypedInv, WorkInv
<1>4. WorkInv(e)'
  BY <1>1, <1>2, <1>3 DEF WorkInv, Making, Placing
<1>5. \A d \in Requests : WorkInv(d)'
  BY <1>1, <1>3, <1>4, MoveKeepsTypes
<1> QED BY <1>1, <1>2, <1>5 DEF TypedInv, WorkKept

(* So has one that begins.                                                 *)
LEMMA StartKeepsTypes ==
  ASSUME TypedInv, NEW e \in Requests, NEW label, NEW data, Start(e, label, data),
         /\ label \in {"member", "season", "rules", "insertTeam", "fetched"}
         /\ label \in {"season", "rules", "insertTeam"} => data \in MakingWork
         /\ label = "fetched" => data \in FetchedWork
  PROVE  WorkKept(e, label)
<1>1. /\ MoveTo(e, label, data) /\ begun' = begun + 1 /\ failures' = failures /\ nhl' = nhl
      /\ begun < MaxRequests
  BY DEF Start
<1>2. /\ stage'[e] = label /\ work'[e] = data /\ DOMAIN stage' = Requests /\ DOMAIN work' = Requests
      /\ \A d \in Requests \ {e} : stage'[d] = stage[d]
  BY <1>1, Moved DEF TypedInv
<1>3. begun \in Nat /\ MaxRequests \in Nat
  BY SetupAssumption DEF TypedInv
<1>4. WorkInv(e)'
  BY <1>1, <1>2, <1>3 DEF WorkInv, Making, Placing
<1>5. \A d \in Requests : WorkInv(d)'
  BY <1>1, <1>3, <1>4, MoveKeepsTypes
<1> QED BY <1>1, <1>2, <1>3, <1>5 DEF TypedInv, WorkKept

(* An id that is given now.                                                *)
LEMMA NewIds ==
  ASSUME TypedInv, NEW e \in Requests
  PROVE  /\ stage[e] # "idle" => <<e, begun>> \in Ids
         /\ begun < MaxRequests => <<e, begun + 1>> \in Ids
BY SetupAssumption DEF TypedInv, WorkInv, Ids

(* The requests are well typed, and the tables remain to be looked at.     *)
LEMMA TypesOfTables ==
  ASSUME TypedInv, serial' = serial, NEW e \in Requests, NEW label, WorkKept(e, label), label # "member",
         /\ orgs' = orgs /\ staffed' \subseteq orgs
         /\ leagues' \subseteq LeagueRows /\ seasons' \subseteq SeasonRows /\ ruled' \subseteq seasons'
         /\ teams' \subseteq TeamRows
         /\ players' \in [Orgs -> [NhlPlayers -> PlayerRows \cup {Nothing}]]
         /\ rosters' \subseteq RosterRows
  PROVE  TypedInv'
BY DEF TypedInv, SetupTypeOK, WorkKept

(* Organizations, leagues and teams are made well typed.                   *)
LEMMA MakingKeepsTypes ==
  ASSUME TypedInv, serial' = serial, NEW e \in Requests, MadeInv(e),
         \/ CreateOrganization(e) \/ InsertMember(e)
         \/ \E club \in Clubs \cup {Nothing} :
              CreateLeague(e, club) \/ \E l \in leagues : JoinLeague(e, l, club)
         \/ InsertSeason(e) \/ InsertRules(e) \/ InsertTeam(e)
  PROVE  TypedInv'
<1>0. /\ SetupTypeOK /\ LeagueYears \in Nat /\ LeagueYears >= 1 /\ NhlYears \in Nat /\ NhlYears >= 1
      /\ \A d \in Requests : stage[d] = "member" => OrgOf[d] \in orgs
      /\ OrgOf[e] \in Orgs
  BY SetupAssumption DEF TypedInv
<1>1. CASE CreateOrganization(e)
  <2>1. Start(e, "member", Nothing)
    BY <1>1 DEF CreateOrganization
  <2>2. WorkKept(e, "member")
    BY <2>1, StartKeepsTypes
  <2> QED BY <1>0, <1>1, <2>2 DEF CreateOrganization, TypedInv, SetupTypeOK, WorkKept
<1>2. CASE InsertMember(e)
  <2>1. Proceed(e, "idle", Nothing) /\ stage[e] = "member"
    BY <1>2 DEF InsertMember
  <2>2. WorkKept(e, "idle")
    BY <2>1, ProceedKeepsTypes
  <2>3. /\ orgs' = orgs /\ staffed' \subseteq orgs /\ UNCHANGED <<leagues, seasons, ruled, teams, players, rosters>>
    BY <1>0, <1>2 DEF InsertMember, SetupTypeOK
  <2> QED BY <1>0, <2>2, <2>3, TypesOfTables DEF SetupTypeOK
<1>3. ASSUME NEW club \in Clubs \cup {Nothing}, CreateLeague(e, club)
      PROVE  TypedInv'
  <2> DEFINE id == <<e, begun + 1>>
  <2>1. /\ Start(e, "season", [league |-> id, year |-> 1, club |-> club])
        /\ leagues' = leagues \cup {League(id, "custom")}
        /\ UNCHANGED <<orgs, staffed, seasons, ruled, teams, players, rosters>>
    BY <1>3 DEF CreateLeague
  <2>2. id \in Ids
    BY <2>1, NewIds DEF Start
  <2>3. [league |-> id, year |-> 1, club |-> club] \in MakingWork
    BY <1>0, <2>2 DEF MakingWork
  <2>4. League(id, "custom") \in LeagueRows
    BY <2>2 DEF League, LeagueRows
  <2> HIDE DEF id
  <2>5. WorkKept(e, "season")
    BY <2>1, <2>3, StartKeepsTypes
  <2> QED BY <1>0, <2>1, <2>4, <2>5, TypesOfTables DEF SetupTypeOK
<1>4. ASSUME NEW club \in Clubs \cup {Nothing}, NEW l \in leagues, JoinLeague(e, l, club)
      PROVE  TypedInv'
  <2>1. /\ Start(e, "insertTeam", [league |-> l.id, year |-> LeagueYears, club |-> club])
        /\ UNCHANGED <<orgs, staffed, leagues, seasons, ruled, teams, players, rosters>>
    BY <1>4 DEF JoinLeague, setupTables
  <2>2. l.id \in Ids
    BY <1>0 DEF SetupTypeOK, LeagueRows
  <2>3. [league |-> l.id, year |-> LeagueYears, club |-> club] \in MakingWork
    BY <1>0, <2>2 DEF MakingWork
  <2>4. WorkKept(e, "insertTeam")
    BY <2>1, <2>3, StartKeepsTypes
  <2> QED BY <1>0, <2>1, <2>4, TypesOfTables DEF SetupTypeOK
<1>5. CASE InsertSeason(e)
  <2>1. /\ Proceed(e, "rules", work[e]) /\ stage[e] = "season"
        /\ seasons' = seasons \cup {SeasonRow(work[e].league, work[e].year)}
        /\ UNCHANGED <<orgs, staffed, leagues, ruled, teams, players, rosters>>
    BY <1>5 DEF InsertSeason
  <2>2. work[e] \in MakingWork
    BY <2>1 DEF TypedInv, WorkInv, Making
  <2>3. SeasonRow(work[e].league, work[e].year) \in SeasonRows
    BY <1>0, <2>2 DEF SeasonRow, SeasonRows, MakingWork
  <2>4. WorkKept(e, "rules")
    BY <2>1, <2>2, ProceedKeepsTypes
  <2> QED BY <1>0, <2>1, <2>3, <2>4, TypesOfTables DEF SetupTypeOK
<1>6. CASE InsertRules(e)
  <2>1. /\ stage[e] = "rules" /\ ruled' = ruled \cup {SeasonRow(work[e].league, work[e].year)}
        /\ \/ work[e].year = LeagueYears /\ Proceed(e, "insertTeam", work[e])
           \/ work[e].year # LeagueYears /\ Proceed(e, "season", [work[e] EXCEPT !.year = @ + 1])
        /\ UNCHANGED <<orgs, staffed, leagues, seasons, teams, players, rosters>>
    BY <1>6 DEF InsertRules
  <2>2. work[e] \in MakingWork
    BY <2>1 DEF TypedInv, WorkInv, Making
  <2>3. work[e].year # LeagueYears => [work[e] EXCEPT !.year = @ + 1] \in MakingWork
    BY <1>0, <2>2 DEF MakingWork
  <2>4. SeasonRow(work[e].league, work[e].year) \in seasons
    BY <2>1 DEF MadeInv
  <2>5. WorkKept(e, "insertTeam") \/ WorkKept(e, "season")
    BY <2>1, <2>2, <2>3, ProceedKeepsTypes
  <2> QED BY <1>0, <2>1, <2>4, <2>5, TypesOfTables DEF SetupTypeOK
<1>7. CASE InsertTeam(e)
  <2> DEFINE t == Team(<<e, begun>>, OrgOf[e], work[e].league, work[e].club)
  <2>1. /\ Proceed(e, "idle", Nothing) /\ stage[e] = "insertTeam"
        /\ teams' = teams \cup {t}
        /\ UNCHANGED <<orgs, staffed, leagues, seasons, ruled, players, rosters>>
    BY <1>7 DEF InsertTeam
  <2>2. work[e] \in MakingWork
    BY <2>1 DEF TypedInv, WorkInv
  <2>3. <<e, begun>> \in Ids
    BY <2>1, NewIds
  <2>4. t \in TeamRows
    BY <1>0, <2>2, <2>3 DEF Team, TeamRows, MakingWork
  <2> HIDE DEF t
  <2>5. WorkKept(e, "idle")
    BY <2>1, ProceedKeepsTypes
  <2> QED BY <1>0, <2>1, <2>4, <2>5, TypesOfTables DEF SetupTypeOK
<1> QED BY <1>1, <1>2, <1>3, <1>4, <1>5, <1>6, <1>7

(* What a committed import leaves of the teams: u is what it has found.    *)
Shown(u, t) ==
  IF t.id \in u.hidden THEN [t EXCEPT !.active = FALSE]
  ELSE IF t.id = u.team.id /\ u.show THEN [t EXCEPT !.active = TRUE] ELSE t

Placed(u) == IF HasId(u.team.id) THEN CHOOSE t \in teams : t.id = u.team.id ELSE u.team

(* The team that an import writes has the id of the one it found, and is   *)
(* that one, or there already.                                             *)
LEMMA PlacedTeam ==
  ASSUME TypedInv, NEW e \in Requests, Placing(e)
  PROVE  LET u == work[e] IN
         /\ u \in TeamWork /\ Placed(u) \in TeamRows /\ Placed(u).id = u.team.id
         /\ HasId(u.team.id) => Placed(u) \in teams
         /\ ~HasId(u.team.id) => Placed(u) = u.team
<1> DEFINE u == work[e]
<1>1. u \in TeamWork /\ teams \subseteq TeamRows
  BY DEF TypedInv, WorkInv, SetupTypeOK
<1>2. u.team \in TeamRows
  BY <1>1 DEF TeamWork
<1> HIDE DEF u
<1>3. CASE HasId(u.team.id)
  <2>1. \E t \in teams : t.id = u.team.id
    BY <1>3 DEF HasId
  <2>2. Placed(u) = CHOOSE t \in teams : t.id = u.team.id
    BY <1>3 DEF Placed
  <2>3. Placed(u) \in teams /\ Placed(u).id = u.team.id
    BY <2>1, <2>2
  <2> QED BY <1>1, <1>3, <2>3 DEF u
<1>4. CASE ~HasId(u.team.id)
  BY <1>1, <1>2, <1>4 DEF Placed, u
<1> QED BY <1>3, <1>4 DEF u

(* A team that is shown or hidden keeps everything else.                   *)
LEMMA ShownTeam ==
  ASSUME NEW u, NEW t \in TeamRows
  PROVE  /\ Shown(u, t) \in TeamRows
         /\ Shown(u, t).id = t.id /\ Shown(u, t).org = t.org /\ Shown(u, t).club = t.club
         /\ Shown(u, t).league = t.league
         /\ Shown(u, t).active = IF t.id \in u.hidden THEN FALSE
                                 ELSE IF t.id = u.team.id /\ u.show THEN TRUE ELSE t.active
BY DEF Shown, TeamRows

(* What a committed import changes.                                        *)
LEMMA Committed ==
  ASSUME NEW e \in Requests, CommitImport(e)
  PROVE  LET u == work[e] IN
         /\ stage[e] = "commit" /\ Proceed(e, "idle", Nothing) /\ orgs' = orgs /\ staffed' = staffed
         /\ leagues' = leagues \cup {u.league}
         /\ seasons' = seasons \cup {SeasonRow(u.league.id, y) : y \in u.years}
         /\ ruled' = ruled \cup {SeasonRow(u.league.id, y) : y \in u.years}
         /\ teams' = {Shown(u, t) : t \in teams \cup {Placed(u)}}
         /\ players' = [players EXCEPT ![OrgOf[e]] =
                          [n \in NhlPlayers |-> IF n \in u.roster THEN Refreshed(@[n], u.team.id) ELSE @[n]]]
         /\ rosters' = rosters \cup {[team |-> u.team.id, season |-> SeasonRow(u.league.id, 1), player |-> n] :
                                         n \in u.roster}
BY DEF CommitImport, Shown, Placed, HasId

(* A player's record refreshed by an import keeps its status.              *)
LEMMA RefreshedRow ==
  ASSUME NEW row \in PlayerRows \cup {Nothing}, NEW id \in Ids
  PROVE  /\ Refreshed(row, id) \in PlayerRows
         /\ row # Nothing => Refreshed(row, id).status = row.status
BY SetupAssumption DEF Refreshed, PlayerRows

(* An import commits rows of their types.                                  *)
LEMMA CommitKeepsTypes ==
  ASSUME TypedInv, serial' = serial, NEW e \in Requests, CommitImport(e)
  PROVE  TypedInv'
<1> DEFINE u == work[e]
<1>0. /\ SetupTypeOK /\ LeagueYears \in Nat /\ LeagueYears >= 1 /\ NhlYears \in Nat /\ NhlYears >= 1
      /\ OrgOf[e] \in Orgs
  BY SetupAssumption DEF TypedInv
<1>1. /\ stage[e] = "commit" /\ Proceed(e, "idle", Nothing) /\ orgs' = orgs /\ staffed' = staffed
      /\ leagues' = leagues \cup {u.league}
      /\ seasons' = seasons \cup {SeasonRow(u.league.id, y) : y \in u.years}
      /\ ruled' = ruled \cup {SeasonRow(u.league.id, y) : y \in u.years}
      /\ teams' = {Shown(u, t) : t \in teams \cup {Placed(u)}}
      /\ players' = [players EXCEPT ![OrgOf[e]] =
                       [n \in NhlPlayers |-> IF n \in u.roster THEN Refreshed(@[n], u.team.id) ELSE @[n]]]
      /\ rosters' = rosters \cup {[team |-> u.team.id, season |-> SeasonRow(u.league.id, 1), player |-> n] :
                                      n \in u.roster}
  BY Committed
<1>2. Placing(e)
  BY <1>1 DEF Placing
<1>3. u \in TeamWork /\ Placed(u) \in TeamRows
  BY <1>2, PlacedTeam
<1> HIDE DEF u
<1>4. WorkKept(e, "idle")
  BY <1>1, ProceedKeepsTypes
<1>5. /\ u.league \in LeagueRows /\ u.league.id \in Ids /\ u.years \subseteq 1..NhlYears
      /\ u.team.id \in Ids /\ u.roster \subseteq NhlPlayers
  BY <1>3 DEF TeamWork, LeagueRows, TeamRows
<1>6. \A y \in 1..NhlYears : SeasonRow(u.league.id, y) \in SeasonRows
  BY <1>0, <1>5 DEF SeasonRow, SeasonRows
<1>7. teams' \subseteq TeamRows
  <2>1. \A t \in teams \cup {Placed(u)} : Shown(u, t) \in TeamRows
    BY <1>0, <1>3, ShownTeam DEF SetupTypeOK
  <2> QED BY <1>1, <2>1
<1>8. players' \in [Orgs -> [NhlPlayers -> PlayerRows \cup {Nothing}]]
  <2> DEFINE ours == [n \in NhlPlayers |-> IF n \in u.roster THEN Refreshed(players[OrgOf[e]][n], u.team.id)
                                           ELSE players[OrgOf[e]][n]]
  <2>1. players \in [Orgs -> [NhlPlayers -> PlayerRows \cup {Nothing}]]
    BY <1>0 DEF SetupTypeOK
  <2>2. ours \in [NhlPlayers -> PlayerRows \cup {Nothing}]
    BY <1>0, <1>5, <2>1, RefreshedRow
  <2>3. players' = [players EXCEPT ![OrgOf[e]] = ours]
    BY <1>1
  <2> QED BY <1>0, <2>1, <2>2, <2>3
<1>9. rosters' \subseteq RosterRows
  <2>1. \A n \in u.roster : [team |-> u.team.id, season |-> SeasonRow(u.league.id, 1), player |-> n] \in RosterRows
    BY <1>0, <1>5, <1>6 DEF RosterRows
  <2> QED BY <1>0, <1>1, <2>1 DEF SetupTypeOK
<1>10. /\ leagues' \subseteq LeagueRows /\ seasons' \subseteq SeasonRows /\ ruled' \subseteq seasons'
  BY <1>0, <1>1, <1>5, <1>6 DEF SetupTypeOK
<1> QED BY <1>0, <1>1, <1>4, <1>7, <1>8, <1>9, <1>10, TypesOfTables DEF SetupTypeOK

(* Up to its commit an import writes no table.                             *)
LEMMA ImportKeepsTypes ==
  ASSUME TypedInv, serial' = serial, NEW e \in Requests,
         \/ \E club \in Clubs, hide \in BOOLEAN : FetchRoster(e, club, hide)
         \/ EnsureNhlLeague(e) \/ FindTeam(e) \/ WritePlayers(e) \/ AbortPlayers(e) \/ WriteRoster(e)
  PROVE  TypedInv'
<1>0. /\ SetupTypeOK /\ OrgOf[e] \in Orgs /\ NhlYears \in Nat
  BY SetupAssumption DEF TypedInv
<1>1. SUFFICES ASSUME NEW label, label # "member", WorkKept(e, label), UNCHANGED setupTables
               PROVE  TypedInv'
  <2>1. ASSUME NEW club \in Clubs, NEW hide \in BOOLEAN, FetchRoster(e, club, hide)
        PROVE  WorkKept(e, "fetched") /\ UNCHANGED setupTables
    <3> DEFINE roster == {n \in NhlPlayers : nhl[n] = club}
    <3>1. Start(e, "fetched", [club |-> club, roster |-> roster, hide |-> hide]) /\ UNCHANGED setupTables
      BY <2>1 DEF FetchRoster
    <3>2. [club |-> club, roster |-> roster, hide |-> hide] \in FetchedWork
      BY DEF FetchedWork
    <3> HIDE DEF roster
    <3> QED BY <3>1, <3>2, StartKeepsTypes
  <2>2. ASSUME EnsureNhlLeague(e)
        PROVE  WorkKept(e, "team") /\ UNCHANGED setupTables
    <3>1. PICK l \in IF NhlLeagues = {} THEN {League(<<e, begun>>, "nhl")} ELSE NhlLeagues :
            Proceed(e, "team", [club |-> work[e].club, roster |-> work[e].roster, hide |-> work[e].hide, league |-> l,
                                years |-> {y \in 1..NhlYears : SeasonRow(l.id, y) \notin seasons}])
      BY <2>2 DEF EnsureNhlLeague
    <3> DEFINE years == {y \in 1..NhlYears : SeasonRow(l.id, y) \notin seasons}
    <3>2. stage[e] = "fetched" /\ UNCHANGED setupTables
      BY <2>2 DEF EnsureNhlLeague
    <3>3. work[e] \in FetchedWork
      BY <3>2 DEF TypedInv, WorkInv
    <3>4. <<e, begun>> \in Ids
      BY <3>2, NewIds
    <3>5. l \in LeagueRows
      BY <1>0, <3>4 DEF SetupTypeOK, NhlLeagues, LeagueRows, League
    <3>6. years \subseteq 1..NhlYears
      OBVIOUS
    <3>7. Proceed(e, "team", [club |-> work[e].club, roster |-> work[e].roster, hide |-> work[e].hide, league |-> l,
                              years |-> years])
      BY <3>1
    <3> HIDE DEF years
    <3>8. [club |-> work[e].club, roster |-> work[e].roster, hide |-> work[e].hide, league |-> l, years |-> years]
            \in LeagueWork
      BY <3>3, <3>5, <3>6 DEF FetchedWork, LeagueWork
    <3> QED BY <3>2, <3>7, <3>8, ProceedKeepsTypes
  <2>3. ASSUME FindTeam(e)
        PROVE  WorkKept(e, "players") /\ UNCHANGED setupTables
    <3>1. PICK t \in IF ClubTeams(e) = {} THEN {Team(<<e, begun>>, OrgOf[e], work[e].league.id, work[e].club)}
                     ELSE ClubTeams(e) :
            Proceed(e, "players", [club |-> work[e].club, roster |-> work[e].roster, league |-> work[e].league,
                                   years |-> work[e].years, team |-> t, show |-> ~t.active, hidden |-> Hidden(e, t)])
      BY <2>3 DEF FindTeam
    <3>2. stage[e] = "team" /\ UNCHANGED setupTables
      BY <2>3 DEF FindTeam
    <3>3. work[e] \in LeagueWork
      BY <3>2 DEF TypedInv, WorkInv
    <3>4. <<e, begun>> \in Ids /\ work[e].league.id \in Ids
      BY <3>2, <3>3, NewIds DEF LeagueWork, LeagueRows
    <3>5. t \in TeamRows
      <4>1. work[e].club \in Clubs
        BY <3>3 DEF LeagueWork
      <4>2. Team(<<e, begun>>, OrgOf[e], work[e].league.id, work[e].club) \in TeamRows
        BY <1>0, <3>4, <4>1 DEF Team, TeamRows
      <4>3. ClubTeams(e) \subseteq TeamRows
        BY <1>0 DEF SetupTypeOK, ClubTeams
      <4> QED BY <3>1, <4>2, <4>3
    <3>6. Hidden(e, t) \subseteq Ids
      BY <1>0 DEF Hidden, SetupTypeOK, TeamRows
    <3>7. [club |-> work[e].club, roster |-> work[e].roster, league |-> work[e].league,
           years |-> work[e].years, team |-> t, show |-> ~t.active, hidden |-> Hidden(e, t)] \in TeamWork
      BY <3>3, <3>5, <3>6 DEF LeagueWork, TeamWork
    <3> QED BY <3>1, <3>2, <3>7, ProceedKeepsTypes
  <2>4. ASSUME WritePlayers(e)
        PROVE  WorkKept(e, "roster") /\ UNCHANGED setupTables
    <3>1. stage[e] = "players" /\ Proceed(e, "roster", work[e]) /\ UNCHANGED setupTables
      BY <2>4 DEF WritePlayers
    <3>2. work[e] \in TeamWork
      BY <3>1 DEF TypedInv, WorkInv, Placing
    <3> QED BY <3>1, <3>2, ProceedKeepsTypes
  <2>5. ASSUME AbortPlayers(e)
        PROVE  WorkKept(e, "idle") /\ UNCHANGED setupTables
    <3>1. stage[e] = "players" /\ Proceed(e, "idle", Nothing) /\ UNCHANGED setupTables
      BY <2>5 DEF AbortPlayers
    <3> QED BY <3>1, ProceedKeepsTypes
  <2>6. ASSUME WriteRoster(e)
        PROVE  WorkKept(e, "commit") /\ UNCHANGED setupTables
    <3>1. stage[e] = "roster" /\ Proceed(e, "commit", work[e]) /\ UNCHANGED setupTables
      BY <2>6 DEF WriteRoster
    <3>2. work[e] \in TeamWork
      BY <3>1 DEF TypedInv, WorkInv, Placing
    <3> QED BY <3>1, <3>2, ProceedKeepsTypes
  <2> QED BY <1>1, <2>1, <2>2, <2>3, <2>4, <2>5, <2>6
<1>2. UNCHANGED <<orgs, staffed, leagues, seasons, ruled, teams, players, rosters>>
  BY <1>1 DEF setupTables
<1> QED BY <1>0, <1>1, <1>2, TypesOfTables DEF SetupTypeOK

(* Deaths, edits and trades.                                               *)
LEMMA OtherStepsKeepTypes ==
  ASSUME TypedInv, serial' = serial,
         \/ \E e \in Requests : Dies(e)
         \/ \E o \in Orgs, n \in NhlPlayers : EditStatus(o, n, "injured_reserve")
         \/ \E n \in NhlPlayers, club \in Clubs \cup {Nothing} : Trade(n, club)
  PROVE  TypedInv'
<1>0. SetupTypeOK /\ begun \in Nat
  BY SetupAssumption DEF TypedInv
<1>1. ASSUME NEW e \in Requests, Dies(e)
      PROVE  TypedInv'
  <2>1. MoveTo(e, "idle", Nothing) /\ failures' = failures + 1 /\ UNCHANGED <<setupTables, nhl, begun, trades>>
    BY <1>1 DEF Dies
  <2>2. /\ stage'[e] = "idle" /\ DOMAIN stage' = Requests /\ DOMAIN work' = Requests
        /\ \A d \in Requests \ {e} : stage'[d] = stage[d]
    BY <1>0, <2>1, Moved
  <2>3. WorkInv(e)'
    BY <2>2 DEF WorkInv, Making, Placing
  <2>4. \A d \in Requests : WorkInv(d)'
    BY <1>0, <2>1, <2>3, MoveKeepsTypes
  <2>5. UNCHANGED <<orgs, staffed, leagues, seasons, ruled, teams, players, rosters>>
    BY <2>1 DEF setupTables
  <2>6. SetupTypeOK'
    BY <1>0, <2>1, <2>2, <2>5 DEF SetupTypeOK
  <2> QED BY <2>1, <2>2, <2>4, <2>5, <2>6 DEF TypedInv
<1>2. ASSUME NEW o \in Orgs, NEW n \in NhlPlayers, EditStatus(o, n, "injured_reserve")
      PROVE  TypedInv'
  <2>1. /\ players' = [players EXCEPT ![o][n].status = "injured_reserve"] /\ players[o][n] # Nothing
        /\ UNCHANGED <<orgs, staffed, leagues, seasons, ruled, teams, rosters, nhl, stage, work, begun, failures>>
    BY <1>2 DEF EditStatus
  <2>2. players[o][n] \in PlayerRows
    BY <1>0, <2>1 DEF SetupTypeOK
  <2>3. [players[o][n] EXCEPT !.status = "injured_reserve"] \in PlayerRows
    BY <2>2 DEF PlayerRows
  <2>4. players' \in [Orgs -> [NhlPlayers -> PlayerRows \cup {Nothing}]]
    <3> DEFINE row == [players[o][n] EXCEPT !.status = "injured_reserve"]
    <3>1. players' = [players EXCEPT ![o] = [@ EXCEPT ![n] = row]]
      BY <2>1
    <3> HIDE DEF row
    <3> QED BY <1>0, <2>3, <3>1 DEF SetupTypeOK, row
  <2> QED BY <1>0, <2>1, <2>4 DEF TypedInv, SetupTypeOK, WorkInv, Making, Placing
<1>3. ASSUME NEW n \in NhlPlayers, NEW club \in Clubs \cup {Nothing}, Trade(n, club)
      PROVE  TypedInv'
  <2>1. nhl' = [nhl EXCEPT ![n] = club] /\ UNCHANGED <<setupTables, stage, work, begun, failures>>
    BY <1>3 DEF Trade
  <2>2. UNCHANGED <<orgs, staffed, leagues, seasons, ruled, teams, players, rosters>>
    BY <2>1 DEF setupTables
  <2> QED BY <1>0, <2>1, <2>2 DEF TypedInv, SetupTypeOK, WorkInv, Making, Placing
<1> QED BY <1>1, <1>2, <1>3

-----------------------------------------------------------------------------
(* Steps of a request, as the lemmas below use them.                       *)

(* A request that goes on.                                                 *)
LEMMA Proceeded ==
  ASSUME SetupTypeOK, NEW e \in Requests, NEW label, NEW data, Proceed(e, label, data)
  PROVE  /\ stage'[e] = label /\ work'[e] = data
         /\ \A d \in Requests \ {e} : stage'[d] = stage[d] /\ work'[d] = work[d]
         /\ begun' = begun /\ failures' = failures
BY Moved DEF Proceed

(* A request that begins.                                                  *)
LEMMA Started ==
  ASSUME SetupTypeOK, NEW e \in Requests, NEW label, NEW data, Start(e, label, data)
  PROVE  /\ stage[e] = "idle" /\ stage'[e] = label /\ work'[e] = data
         /\ \A d \in Requests \ {e} : stage'[d] = stage[d] /\ work'[d] = work[d]
         /\ begun' = begun + 1 /\ failures' = failures
BY Moved DEF Start

(* A step at which no league and no team is inserted.                      *)
Quiet ==
  \/ \E e \in Requests :
       \/ CreateOrganization(e) \/ InsertMember(e)
       \/ \E club \in Clubs \cup {Nothing}, l \in leagues : JoinLeague(e, l, club)
       \/ InsertSeason(e) \/ InsertRules(e)
       \/ \E club \in Clubs, hide \in BOOLEAN : FetchRoster(e, club, hide)
       \/ EnsureNhlLeague(e) \/ FindTeam(e) \/ WritePlayers(e) \/ AbortPlayers(e)
       \/ WriteRoster(e) \/ Dies(e)
  \/ \E o \in Orgs, n \in NhlPlayers : EditStatus(o, n, "injured_reserve")
  \/ \E n \in NhlPlayers, club \in Clubs \cup {Nothing} : Trade(n, club)

(* Three actions insert leagues and teams.                                 *)
LEMMA NextIsQuiet ==
  ASSUME SetupNext
  PROVE  \/ Quiet
         \/ \E e \in Requests : \/ \E club \in Clubs \cup {Nothing} : CreateLeague(e, club)
                                \/ InsertTeam(e) \/ CommitImport(e)
BY DEF SetupNext, Quiet

(* Before an id is given a request is idle, or has been on its way.        *)
Unplaced == {"season", "rules", "insertTeam", "fetched", "team"}

NoNewId ==
  /\ leagues' = leagues /\ teams' = teams
  /\ begun' \in Nat /\ begun' >= begun
  /\ \A d \in Requests : stage'[d] \in Unplaced => stage[d] \in Unplaced \/ begun' = begun + 1
  /\ \A d \in Requests : stage'[d] = "fetched" => stage[d] = "fetched" \/ begun' = begun + 1

(* Of a step that inserts none.                                            *)
LEMMA QuietStep ==
  ASSUME TypedInv, Quiet
  PROVE  NoNewId
<1>0. SetupTypeOK /\ begun \in Nat
  BY SetupAssumption DEF TypedInv
<1>1. ASSUME NEW e \in Requests, NEW label, NEW data, Start(e, label, data), leagues' = leagues, teams' = teams
      PROVE  NoNewId
  <2>1. \A d \in Requests \ {e} : stage'[d] = stage[d]
    BY <1>0, <1>1, Started
  <2>2. begun' = begun + 1
    BY <1>0, <1>1, Started
  <2> QED BY <1>0, <1>1, <2>1, <2>2 DEF NoNewId
<1>2. ASSUME NEW e \in Requests, NEW label, NEW data, Proceed(e, label, data), leagues' = leagues, teams' = teams,
             label \in Unplaced => stage[e] \in Unplaced, label # "fetched"
      PROVE  NoNewId
  <2>1. /\ \A d \in Requests \ {e} : stage'[d] = stage[d]
        /\ stage'[e] = label /\ begun' = begun
    BY <1>0, <1>2, Proceeded
  <2> QED BY <1>0, <1>2, <2>1 DEF NoNewId
<1>3. ASSUME NEW e \in Requests, CreateOrganization(e) PROVE NoNewId
  BY <1>1, <1>3 DEF CreateOrganization
<1>4. ASSUME NEW e \in Requests, InsertMember(e) PROVE NoNewId
  BY <1>2, <1>4 DEF InsertMember, Unplaced
<1>5. ASSUME NEW e \in Requests, NEW club, NEW l, JoinLeague(e, l, club) PROVE NoNewId
  BY <1>1, <1>5 DEF JoinLeague, setupTables
<1>6. ASSUME NEW e \in Requests, InsertSeason(e) PROVE NoNewId
  <2>1. stage[e] \in Unplaced
    BY <1>6 DEF InsertSeason, Unplaced
  <2> QED BY <1>2, <1>6, <2>1 DEF InsertSeason
<1>7. ASSUME NEW e \in Requests, InsertRules(e) PROVE NoNewId
  <2>1. stage[e] \in Unplaced
    BY <1>7 DEF InsertRules, Unplaced
  <2> QED BY <1>2, <1>7, <2>1 DEF InsertRules
<1>8. ASSUME NEW e \in Requests, NEW club, NEW hide, FetchRoster(e, club, hide) PROVE NoNewId
  BY <1>1, <1>8 DEF FetchRoster, setupTables
<1>9. ASSUME NEW e \in Requests, EnsureNhlLeague(e) PROVE NoNewId
  <2>1. stage[e] \in Unplaced
    BY <1>9 DEF EnsureNhlLeague, Unplaced
  <2> QED BY <1>2, <1>9, <2>1 DEF EnsureNhlLeague, setupTables
<1>10. ASSUME NEW e \in Requests, FindTeam(e) PROVE NoNewId
  <2>1. "players" \notin Unplaced
    BY DEF Unplaced
  <2> QED BY <1>2, <1>10, <2>1 DEF FindTeam, setupTables
<1>11. ASSUME NEW e \in Requests, WritePlayers(e) \/ AbortPlayers(e) \/ WriteRoster(e) PROVE NoNewId
  <2>1. "roster" \notin Unplaced /\ "idle" \notin Unplaced /\ "commit" \notin Unplaced
    BY DEF Unplaced
  <2> QED BY <1>2, <1>11, <2>1 DEF WritePlayers, AbortPlayers, WriteRoster, setupTables
<1>12. ASSUME NEW e \in Requests, Dies(e) PROVE NoNewId
  <2>1. MoveTo(e, "idle", Nothing) /\ leagues' = leagues /\ teams' = teams /\ begun' = begun
    BY <1>12 DEF Dies, setupTables
  <2>2. /\ \A d \in Requests \ {e} : stage'[d] = stage[d]
        /\ stage'[e] = "idle"
    BY <1>0, <2>1, Moved
  <2> QED BY <1>0, <2>1, <2>2 DEF NoNewId, Unplaced
<1>13. ASSUME NEW o, NEW n, EditStatus(o, n, "injured_reserve") PROVE NoNewId
  BY <1>0, <1>13 DEF EditStatus, NoNewId
<1>14. ASSUME NEW n, NEW club, Trade(n, club) PROVE NoNewId
  BY <1>0, <1>14 DEF Trade, setupTables, NoNewId
<1> QED BY <1>3, <1>4, <1>5, <1>6, <1>7, <1>8, <1>9, <1>10, <1>11, <1>12, <1>13, <1>14 DEF Quiet

-----------------------------------------------------------------------------
(* Ids.                                                                    *)

(* A request that comes to where an id is given has a new one.             *)
LEMMA QuietKeepsIds ==
  ASSUME TypedInv, IdInv, Quiet
  PROVE  IdInv'
<1>1. NoNewId /\ begun \in Nat
  BY QuietStep, SetupAssumption DEF TypedInv
<1>2. /\ leagues \subseteq LeagueRows /\ teams \subseteq TeamRows
      /\ \A l \in leagues : l.id[2] \in Nat
      /\ \A t \in teams : t.id[2] \in Nat
  BY SetupAssumption DEF TypedInv, SetupTypeOK, LeagueRows, TeamRows, Ids
<1>3. ASSUME NEW d \in Requests, stage'[d] \in Unplaced PROVE Unused(d, teams)'
  BY <1>1, <1>2, <1>3 DEF IdInv, NoNewId, Unused, Unplaced, Making
<1>4. ASSUME NEW d \in Requests, stage'[d] = "fetched" PROVE Unused(d, leagues)'
  BY <1>1, <1>2, <1>4 DEF IdInv, NoNewId, Unused
<1>5. /\ \A l \in leagues' : l.id[2] <= begun'
      /\ \A t \in teams' : t.id[2] <= begun' /\ t.org = OrgOf[t.id[1]]
      /\ \A t, x \in teams' : t.id = x.id => t = x
  BY <1>1, <1>2 DEF IdInv, NoNewId
<1> QED BY <1>3, <1>4, <1>5 DEF IdInv, Unplaced, Making

(* A league made with a team has the id given now.                         *)
LEMMA CreateLeagueKeepsIds ==
  ASSUME TypedInv, IdInv, NEW e \in Requests, NEW club, CreateLeague(e, club)
  PROVE  IdInv'
<1> DEFINE l == League(<<e, begun + 1>>, "custom")
<1>0. SetupTypeOK /\ begun \in Nat
  BY SetupAssumption DEF TypedInv
<1>1. /\ Start(e, "season", [league |-> <<e, begun + 1>>, year |-> 1, club |-> club])
      /\ leagues' = leagues \cup {l} /\ teams' = teams
  BY DEF CreateLeague
<1>2. l.id[1] = e /\ l.id[2] = begun + 1
  BY DEF League
<1> HIDE DEF l
<1>3. /\ stage[e] = "idle" /\ stage'[e] = "season" /\ begun' = begun + 1
      /\ \A d \in Requests \ {e} : stage'[d] = stage[d]
  BY <1>0, <1>1, Started
<1>4. /\ \A x \in leagues : x.id[2] \in Nat
      /\ \A t \in teams : t.id[2] \in Nat
  BY <1>0, SetupAssumption DEF SetupTypeOK, LeagueRows, TeamRows, Ids
<1>5. ASSUME NEW d \in Requests, stage'[d] \in Unplaced PROVE Unused(d, teams)'
  BY <1>0, <1>1, <1>3, <1>4, <1>5 DEF IdInv, Unused, Unplaced, Making
<1>6. ASSUME NEW d \in Requests, stage'[d] = "fetched" PROVE Unused(d, leagues)'
  BY <1>0, <1>1, <1>2, <1>3, <1>4, <1>6 DEF IdInv, Unused
<1>7. /\ \A x \in leagues' : x.id[2] <= begun'
      /\ \A t \in teams' : t.id[2] <= begun' /\ t.org = OrgOf[t.id[1]]
      /\ \A t, x \in teams' : t.id = x.id => t = x
  BY <1>0, <1>1, <1>2, <1>3, <1>4 DEF IdInv
<1> QED BY <1>5, <1>6, <1>7 DEF IdInv, Unplaced, Making

(* A team made has its request's id, which no other team has.              *)
LEMMA InsertTeamKeepsIds ==
  ASSUME TypedInv, IdInv, NEW e \in Requests, InsertTeam(e)
  PROVE  IdInv'
<1> DEFINE t == Team(<<e, begun>>, OrgOf[e], work[e].league, work[e].club)
<1>0. SetupTypeOK /\ begun \in Nat
  BY SetupAssumption DEF TypedInv
<1>1. /\ stage[e] = "insertTeam" /\ Proceed(e, "idle", Nothing)
      /\ leagues' = leagues /\ teams' = teams \cup {t}
  BY DEF InsertTeam
<1>2. t.id = <<e, begun>> /\ t.id[1] = e /\ t.id[2] = begun /\ t.org = OrgOf[e]
  BY DEF Team
<1> HIDE DEF t
<1>3. /\ stage'[e] = "idle" /\ begun' = begun
      /\ \A d \in Requests \ {e} : stage'[d] = stage[d]
  BY <1>0, <1>1, Proceeded
<1>4. /\ \A x \in leagues : x.id[2] \in Nat
      /\ \A x \in teams : x.id[2] \in Nat
  BY <1>0, SetupAssumption DEF SetupTypeOK, LeagueRows, TeamRows, Ids
<1>5. \A x \in teams : x.id # t.id
  BY <1>0, <1>1, <1>2, <1>4 DEF IdInv, Unused
<1>6. ASSUME NEW d \in Requests, stage'[d] \in Unplaced PROVE Unused(d, teams)'
  BY <1>0, <1>1, <1>2, <1>3, <1>4, <1>6 DEF IdInv, Unused, Unplaced, Making
<1>7. ASSUME NEW d \in Requests, stage'[d] = "fetched" PROVE Unused(d, leagues)'
  BY <1>0, <1>1, <1>3, <1>7 DEF IdInv, Unused
<1>8. /\ \A x \in leagues' : x.id[2] <= begun'
      /\ \A x \in teams' : x.id[2] <= begun' /\ x.org = OrgOf[x.id[1]]
      /\ \A y, x \in teams' : y.id = x.id => y = x
  BY <1>0, <1>1, <1>2, <1>3, <1>4, <1>5 DEF IdInv
<1> QED BY <1>6, <1>7, <1>8 DEF IdInv, Unplaced, Making

(* The team of an import is one that is there, or has its request's id.    *)
LEMMA CommitKeepsIds ==
  ASSUME TypedInv, IdInv, NEW e \in Requests, CommitImport(e), MadeInv(e), PlaceInv(e)
  PROVE  IdInv'
<1> DEFINE u == work[e]
<1>0. SetupTypeOK /\ begun \in Nat
  BY SetupAssumption DEF TypedInv
<1>1. /\ stage[e] = "commit" /\ Proceed(e, "idle", Nothing)
      /\ leagues' = leagues \cup {u.league} /\ teams' = {Shown(u, t) : t \in teams \cup {Placed(u)}}
  BY Committed
<1>2. Placing(e) /\ Transacting(e)
  BY <1>1 DEF Placing, Transacting
<1>3. /\ u \in TeamWork /\ Placed(u) \in TeamRows /\ Placed(u).id = u.team.id
      /\ HasId(u.team.id) => Placed(u) \in teams
      /\ ~HasId(u.team.id) => Placed(u) = u.team
  BY <1>2, PlacedTeam
<1>4. /\ u.team.org = OrgOf[e] /\ OrgOf[u.team.id[1]] = OrgOf[e] /\ u.team.id[2] <= begun
      /\ HasId(u.team.id) \/ u.team.id[1] = e
      /\ u.league.id[2] <= begun /\ (u.league \in leagues \/ u.league.id[1] = e)
  BY <1>2 DEF PlaceInv, MadeInv
<1>5. /\ stage'[e] = "idle" /\ begun' = begun
      /\ \A d \in Requests \ {e} : stage'[d] = stage[d]
  BY <1>0, <1>1, Proceeded
<1> HIDE DEF u
<1>6. \A x \in teams \cup {Placed(u)} : Shown(u, x).id = x.id /\ Shown(u, x).org = x.org
  <2>1. \A x \in teams \cup {Placed(u)} : x \in TeamRows
    BY <1>0, <1>3 DEF SetupTypeOK
  <2> QED BY <2>1, ShownTeam
<1>7. /\ Placed(u).id[2] <= begun /\ Placed(u).org = OrgOf[Placed(u).id[1]]
      /\ \A x \in teams : x.id = Placed(u).id => x = Placed(u)
  <2>1. CASE HasId(u.team.id)
    BY <1>3, <2>1 DEF IdInv
  <2>2. CASE ~HasId(u.team.id)
    BY <1>3, <1>4, <2>2 DEF HasId
  <2> QED BY <2>1, <2>2
<1>8. \A x \in teams' : \E t \in teams \cup {Placed(u)} : x = Shown(u, t)
  BY <1>1
<1>9. /\ \A x \in teams' : x.id[2] <= begun' /\ x.org = OrgOf[x.id[1]]
      /\ \A y, x \in teams' : y.id = x.id => y = x
  <2>1. \A t, x \in teams \cup {Placed(u)} : t.id = x.id => t = x
    BY <1>7 DEF IdInv
  <2>2. \A t \in teams \cup {Placed(u)} : t.id[2] <= begun /\ t.org = OrgOf[t.id[1]]
    BY <1>7 DEF IdInv
  <2>3. \A x \in teams' : x.id[2] <= begun' /\ x.org = OrgOf[x.id[1]]
    <3> TAKE x \in teams'
    <3>1. PICK t \in teams \cup {Placed(u)} : x = Shown(u, t)
      BY <1>8
    <3> QED BY <1>5, <1>6, <2>2, <3>1
  <2>4. \A y, x \in teams' : y.id = x.id => y = x
    <3> TAKE y, x \in teams'
    <3>1. PICK t \in teams \cup {Placed(u)} : x = Shown(u, t)
      BY <1>8
    <3>2. PICK s \in teams \cup {Placed(u)} : y = Shown(u, s)
      BY <1>8
    <3> QED BY <1>6, <2>1, <3>1, <3>2
  <2> QED BY <2>3, <2>4
<1>10. ASSUME NEW d \in Requests, stage'[d] \in Unplaced PROVE Unused(d, teams)'
  <2>1. d # e /\ Unused(d, teams)
    BY <1>5, <1>10 DEF IdInv, Unplaced, Making
  <2>2. ASSUME NEW x \in teams', x.id[1] = d PROVE x.id[2] < begun'
    <3>1. PICK t \in teams \cup {Placed(u)} : x = Shown(u, t)
      BY <1>8
    <3>2. t.id = x.id
      BY <1>6, <3>1
    <3>3. t \in teams
      BY <1>3, <1>4, <2>1, <2>2, <3>2
    <3> QED BY <1>5, <2>1, <2>2, <3>2, <3>3 DEF Unused
  <2> QED BY <2>2 DEF Unused
<1>11. ASSUME NEW d \in Requests, stage'[d] = "fetched" PROVE Unused(d, leagues)'
  BY <1>1, <1>4, <1>5, <1>11 DEF IdInv, Unused
<1>12. \A x \in leagues' : x.id[2] <= begun'
  BY <1>1, <1>4, <1>5 DEF IdInv
<1> QED BY <1>9, <1>10, <1>11, <1>12 DEF IdInv, Unplaced, Making

-----------------------------------------------------------------------------
(* Leagues, seasons and rules.                                             *)

(* What every step does to the tables.                                     *)
Grows ==
  /\ orgs \subseteq orgs' /\ staffed \subseteq staffed'
  /\ leagues \subseteq leagues' /\ seasons \subseteq seasons' /\ ruled \subseteq ruled'
  /\ begun' \in Nat /\ begun' >= begun

Others(e) == \A d \in Requests \ {e} : stage'[d] = stage[d] /\ work'[d] = work[d]

(* What a request has made stays made while it waits.                      *)
LEMMA MadeStays ==
  ASSUME TypedInv, NEW d \in Requests, MadeInv(d), stage'[d] = stage[d], work'[d] = work[d], Grows
  PROVE  MadeInv(d)'
<1>0. begun \in Nat
  BY SetupAssumption DEF TypedInv
<1>1. Transacting(d) => work[d].league.id[2] \in Nat
  BY SetupAssumption DEF TypedInv, WorkInv, Transacting, Placing, LeagueWork, TeamWork, LeagueRows, Ids
<1>2. Transacting(d)' => Transacting(d)
  BY DEF Transacting
<1>3. Making(d)' => Making(d)
  BY DEF Making
<1>4. IsThere(work[d].league) => IsThere(work[d].league)'
  BY DEF IsThere, Grows
<1> QED BY <1>0, <1>1, <1>2, <1>3 DEF MadeInv, Grows, IsThere

(* What a step has to show for leagues, seasons and rules.                 *)
LEMMA LeaguesKept ==
  ASSUME TypedInv, LeagueInv, Grows, NEW e \in Requests, Others(e), MadeInv(e)',
         \A s \in seasons' : s \in seasons \/ IsThere(s.league)',
         \A l \in leagues' : l \in leagues \/ l.kind # "nhl" \/ Whole(l)'
  PROVE  LeagueInv'
<1>1. \A d \in Requests : MadeInv(d)'
  <2> TAKE d \in Requests
  <2>1. CASE d = e BY <2>1
  <2>2. CASE d # e
    <3>1. MadeInv(d) /\ stage'[d] = stage[d] /\ work'[d] = work[d]
      BY <2>2 DEF LeagueInv, Others
    <3> QED BY <3>1, MadeStays
  <2> QED BY <2>1, <2>2
<1>2. \A s \in seasons' : IsThere(s.league)'
  BY DEF LeagueInv, IsThere, Grows
<1>3. \A l \in leagues' : l.kind = "nhl" => Whole(l)'
  BY DEF LeagueInv, Whole, Grows
<1> QED BY <1>1, <1>2, <1>3 DEF LeagueInv

(* A request that makes no league and is in no transaction.                *)
LEMMA NothingMade ==
  ASSUME NEW e \in Requests, stage'[e] \in {"idle", "member", "insertTeam", "fetched"}
  PROVE  MadeInv(e)'
BY DEF MadeInv, Making, Transacting

(* A league is made year by year.                                          *)
LEMMA MakingKeepsLeagues ==
  ASSUME TypedInv, LeagueInv, NEW e \in Requests,
         \/ CreateOrganization(e) \/ InsertMember(e)
         \/ \E club \in Clubs \cup {Nothing} :
              CreateLeague(e, club) \/ \E l \in leagues : JoinLeague(e, l, club)
         \/ InsertSeason(e) \/ InsertRules(e) \/ InsertTeam(e)
  PROVE  LeagueInv' /\ Grows
<1>0. /\ SetupTypeOK /\ begun \in Nat /\ begun + 1 >= begun /\ MadeInv(e)
  BY SetupAssumption DEF TypedInv, LeagueInv
<1>1. CASE CreateOrganization(e)
  <2>1. /\ Start(e, "member", Nothing) /\ orgs' = orgs \cup {OrgOf[e]}
        /\ UNCHANGED <<staffed, leagues, seasons, ruled>>
    BY <1>1 DEF CreateOrganization
  <2>2. stage'[e] = "member" /\ Others(e) /\ begun' = begun + 1
    BY <1>0, <2>1, Started DEF Others
  <2>3. Grows
    BY <1>0, <2>1, <2>2 DEF Grows
  <2> QED BY <2>1, <2>2, <2>3, NothingMade, LeaguesKept
<1>2. CASE InsertMember(e)
  <2>1. /\ Proceed(e, "idle", Nothing) /\ staffed' = staffed \cup {OrgOf[e]}
        /\ UNCHANGED <<orgs, leagues, seasons, ruled>>
    BY <1>2 DEF InsertMember
  <2>2. stage'[e] = "idle" /\ Others(e) /\ begun' = begun
    BY <1>0, <2>1, Proceeded DEF Others
  <2>3. Grows
    BY <1>0, <2>1, <2>2 DEF Grows
  <2> QED BY <2>1, <2>2, <2>3, NothingMade, LeaguesKept
<1>3. ASSUME NEW club \in Clubs \cup {Nothing}, CreateLeague(e, club)
      PROVE  LeagueInv' /\ Grows
  <2> DEFINE id == <<e, begun + 1>>
             data == [league |-> id, year |-> 1, club |-> club]
  <2>1. /\ Start(e, "season", data) /\ leagues' = leagues \cup {League(id, "custom")}
        /\ UNCHANGED <<orgs, staffed, seasons, ruled>>
    BY <1>3 DEF CreateLeague
  <2>2. data.league = id /\ data.year = 1 /\ League(id, "custom").id = id /\ League(id, "custom").kind = "custom"
    BY DEF League
  <2> HIDE DEF id, data
  <2>3. stage'[e] = "season" /\ work'[e] = data /\ Others(e) /\ begun' = begun + 1
    BY <1>0, <2>1, Started DEF Others
  <2>4. Grows
    BY <1>0, <2>1, <2>3 DEF Grows
  <2>5. \E l \in leagues' : l.id = id
    BY <2>1, <2>2
  <2>6. MadeInv(e)'
    <3>1. work'[e].league = id /\ work'[e].year = 1
      BY <2>2, <2>3
    <3>2. \A y \in 1..LeagueYears : ~(y < 1)
      BY SetupAssumption
    <3> QED BY <2>3, <2>5, <3>1, <3>2 DEF MadeInv, Making, Transacting, IsThere
  <2> QED BY <2>1, <2>2, <2>3, <2>4, <2>6, LeaguesKept
<1>4. ASSUME NEW club \in Clubs \cup {Nothing}, NEW l \in leagues, JoinLeague(e, l, club)
      PROVE  LeagueInv' /\ Grows
  <2>1. /\ Start(e, "insertTeam", [league |-> l.id, year |-> LeagueYears, club |-> club])
        /\ UNCHANGED <<orgs, staffed, leagues, seasons, ruled>>
    BY <1>4 DEF JoinLeague, setupTables
  <2>2. stage'[e] = "insertTeam" /\ Others(e) /\ begun' = begun + 1
    BY <1>0, <2>1, Started DEF Others
  <2>3. Grows
    BY <1>0, <2>1, <2>2 DEF Grows
  <2> QED BY <2>1, <2>2, <2>3, NothingMade, LeaguesKept
<1>5. CASE InsertSeason(e)
  <2>1. /\ Proceed(e, "rules", work[e]) /\ stage[e] = "season"
        /\ seasons' = seasons \cup {SeasonRow(work[e].league, work[e].year)}
        /\ UNCHANGED <<orgs, staffed, leagues, ruled>>
    BY <1>5 DEF InsertSeason
  <2>2. stage'[e] = "rules" /\ work'[e] = work[e] /\ Others(e) /\ begun' = begun
    BY <1>0, <2>1, Proceeded DEF Others
  <2>3. Grows
    BY <1>0, <2>1, <2>2 DEF Grows
  <2>4. /\ IsThere(work[e].league)
        /\ \A y \in 1..LeagueYears : y < work[e].year => SeasonRow(work[e].league, y) \in ruled
    BY <1>0, <2>1 DEF MadeInv, Making
  <2>5. IsThere(work[e].league)'
    BY <2>1, <2>2, <2>4 DEF IsThere
  <2>6. SeasonRow(work[e].league, work[e].year).league = work[e].league
    BY DEF SeasonRow
  <2>7. MadeInv(e)'
    BY <2>1, <2>2, <2>4, <2>5 DEF MadeInv, Making, Transacting, IsThere
  <2>8. \A s \in seasons' : s \in seasons \/ IsThere(s.league)'
    BY <2>1, <2>2, <2>5, <2>6 DEF IsThere
  <2> QED BY <2>1, <2>2, <2>3, <2>7, <2>8, LeaguesKept
<1>6. CASE InsertRules(e)
  <2>1. /\ stage[e] = "rules" /\ ruled' = ruled \cup {SeasonRow(work[e].league, work[e].year)}
        /\ \/ Proceed(e, "insertTeam", work[e])
           \/ Proceed(e, "season", [work[e] EXCEPT !.year = @ + 1])
        /\ UNCHANGED <<orgs, staffed, leagues, seasons>>
    BY <1>6 DEF InsertRules
  <2>2. work[e] \in MakingWork
    BY <2>1 DEF TypedInv, WorkInv, Making
  <2>3. /\ [work[e] EXCEPT !.year = @ + 1].league = work[e].league
        /\ [work[e] EXCEPT !.year = @ + 1].year = work[e].year + 1
    BY <2>2 DEF MakingWork
  <2> DEFINE next == [work[e] EXCEPT !.year = @ + 1]
  <2>4. /\ \/ stage'[e] = "insertTeam"
           \/ stage'[e] = "season" /\ work'[e] = next
        /\ Others(e) /\ begun' = begun
    <3> HIDE DEF next
    <3>1. CASE Proceed(e, "insertTeam", work[e])
      BY <1>0, <3>1, Proceeded DEF Others
    <3>2. CASE Proceed(e, "season", next)
      BY <1>0, <3>2, Proceeded DEF Others
    <3> QED BY <2>1, <3>1, <3>2 DEF next
  <2>5. Grows
    BY <1>0, <2>1, <2>4 DEF Grows
  <2>6. MadeInv(e)'
    <3>1. CASE stage'[e] = "insertTeam"
      BY <3>1, NothingMade
    <3>2. CASE stage'[e] = "season" /\ work'[e] = next
      <4>1. /\ IsThere(work[e].league)
            /\ \A y \in 1..LeagueYears : y < work[e].year => SeasonRow(work[e].league, y) \in ruled
        BY <1>0, <2>1 DEF MadeInv, Making
      <4>2. work[e].year \in Nat
        BY <2>2 DEF MakingWork
      <4>3. \A y \in 1..LeagueYears : y < work[e].year + 1 => SeasonRow(work[e].league, y) \in ruled'
        <5> TAKE y \in 1..LeagueYears
        <5>1. y < work[e].year + 1 => y < work[e].year \/ y = work[e].year
          BY <4>2
        <5> QED BY <2>1, <4>1, <5>1
      <4> QED BY <2>1, <2>3, <3>2, <4>1, <4>3 DEF MadeInv, Making, Transacting, IsThere
    <3> QED BY <2>4, <3>1, <3>2
  <2> QED BY <2>1, <2>4, <2>5, <2>6, LeaguesKept
<1>7. CASE InsertTeam(e)
  <2>1. /\ Proceed(e, "idle", Nothing) /\ UNCHANGED <<orgs, staffed, leagues, seasons, ruled>>
    BY <1>7 DEF InsertTeam
  <2>2. stage'[e] = "idle" /\ Others(e) /\ begun' = begun
    BY <1>0, <2>1, Proceeded DEF Others
  <2>3. Grows
    BY <1>0, <2>1, <2>2 DEF Grows
  <2> QED BY <2>1, <2>2, <2>3, NothingMade, LeaguesKept
<1> QED BY <1>1, <1>2, <1>3, <1>4, <1>5, <1>6, <1>7

(* The years an import adds are those the NHL's league has no rules for.   *)
LEMMA EnsureKeepsLeagues ==
  ASSUME TypedInv, IdInv, LeagueInv, NEW e \in Requests, EnsureNhlLeague(e)
  PROVE  LeagueInv' /\ Grows
<1>0. SetupTypeOK /\ begun \in Nat
  BY SetupAssumption DEF TypedInv
<1>1. PICK l \in IF NhlLeagues = {} THEN {League(<<e, begun>>, "nhl")} ELSE NhlLeagues :
        Proceed(e, "team", [club |-> work[e].club, roster |-> work[e].roster, hide |-> work[e].hide, league |-> l,
                            years |-> {y \in 1..NhlYears : SeasonRow(l.id, y) \notin seasons}])
  BY DEF EnsureNhlLeague
<1> DEFINE years == {y \in 1..NhlYears : SeasonRow(l.id, y) \notin seasons}
           data == [club |-> work[e].club, roster |-> work[e].roster, hide |-> work[e].hide, league |-> l,
                    years |-> years]
<1>2. /\ stage[e] = "fetched" /\ UNCHANGED <<orgs, staffed, leagues, seasons, ruled>>
      /\ Proceed(e, "team", data)
  BY <1>1 DEF EnsureNhlLeague, setupTables
<1>3. data.league = l /\ data.years = years
  OBVIOUS
<1> HIDE DEF data
<1>4. stage'[e] = "team" /\ work'[e] = data /\ Others(e) /\ begun' = begun
  BY <1>0, <1>2, Proceeded DEF Others
<1>5. Grows
  BY <1>0, <1>2, <1>4 DEF Grows
<1>6. Unused(e, leagues)
  BY <1>2 DEF IdInv
<1>7. /\ l.kind = "nhl" /\ l.id[2] <= begun /\ (l \in leagues \/ l.id[1] = e)
      /\ \A y \in 1..NhlYears : y \in years \/ SeasonRow(l.id, y) \in ruled
  <2>1. CASE NhlLeagues = {}
    <3>1. l.kind = "nhl" /\ l.id[1] = e /\ l.id[2] = begun
      BY <1>1, <2>1 DEF League
    <3>2. \A y : SeasonRow(l.id, y) \notin seasons
      <4> SUFFICES ASSUME NEW y, SeasonRow(l.id, y) \in seasons PROVE FALSE
        OBVIOUS
      <4>1. SeasonRow(l.id, y).league = l.id
        BY DEF SeasonRow
      <4>2. PICK x \in leagues : x.id = l.id
        BY <4>1 DEF LeagueInv, IsThere
      <4> QED BY <1>0, <1>6, <3>1, <4>2 DEF Unused
    <3> QED BY <1>0, <3>1, <3>2
  <2>2. CASE NhlLeagues # {}
    <3>1. l \in leagues /\ l.kind = "nhl"
      BY <1>1, <2>2 DEF NhlLeagues
    <3>2. Whole(l) /\ l.id[2] <= begun
      BY <3>1 DEF LeagueInv, IdInv
    <3> QED BY <3>1, <3>2 DEF Whole, YearsOf
  <2> QED BY <2>1, <2>2
<1> HIDE DEF years
<1>8. MadeInv(e)'
  <2>1. work'[e].league = l /\ work'[e].years = years
    BY <1>3, <1>4
  <2> QED BY <1>2, <1>4, <1>7, <2>1 DEF MadeInv, Making, Transacting
<1> QED BY <1>2, <1>4, <1>5, <1>8, LeaguesKept

(* The other statements of an import leave leagues alone.                  *)
LEMMA ImportKeepsLeagues ==
  ASSUME TypedInv, LeagueInv, NEW e \in Requests,
         \/ \E club \in Clubs, hide \in BOOLEAN : FetchRoster(e, club, hide)
         \/ FindTeam(e) \/ WritePlayers(e) \/ AbortPlayers(e) \/ WriteRoster(e)
  PROVE  LeagueInv' /\ Grows
<1>0. /\ SetupTypeOK /\ begun \in Nat /\ begun + 1 >= begun /\ MadeInv(e)
  BY SetupAssumption DEF TypedInv, LeagueInv
<1>1. ASSUME NEW label \in {"players", "roster", "commit"}, NEW data, Proceed(e, label, data),
             data.league = work[e].league, data.years = work[e].years,
             Transacting(e), UNCHANGED setupTables
      PROVE  LeagueInv' /\ Grows
  <2>1. stage'[e] = label /\ work'[e] = data /\ Others(e) /\ begun' = begun
    BY <1>0, <1>1, Proceeded DEF Others
  <2>2. UNCHANGED <<orgs, staffed, leagues, seasons, ruled>>
    BY <1>1 DEF setupTables
  <2>3. Grows
    BY <1>0, <2>1, <2>2 DEF Grows
  <2>4. MadeInv(e)'
    BY <1>0, <1>1, <2>1, <2>2 DEF MadeInv, Making, Transacting
  <2> QED BY <2>1, <2>2, <2>3, <2>4, LeaguesKept
<1>2. ASSUME NEW club, NEW hide, FetchRoster(e, club, hide)
      PROVE  LeagueInv' /\ Grows
  <2>1. /\ Start(e, "fetched", [club |-> club, roster |-> {n \in NhlPlayers : nhl[n] = club}, hide |-> hide])
        /\ UNCHANGED <<orgs, staffed, leagues, seasons, ruled>>
    BY <1>2 DEF FetchRoster, setupTables
  <2>2. stage'[e] = "fetched" /\ Others(e) /\ begun' = begun + 1
    BY <1>0, <2>1, Started DEF Others
  <2>3. Grows
    BY <1>0, <2>1, <2>2 DEF Grows
  <2> QED BY <2>1, <2>2, <2>3, NothingMade, LeaguesKept
<1>3. CASE FindTeam(e)
  <2>1. PICK t : Proceed(e, "players", [club |-> work[e].club, roster |-> work[e].roster, league |-> work[e].league,
                                        years |-> work[e].years, team |-> t, show |-> ~t.active,
                                        hidden |-> Hidden(e, t)])
    BY <1>3 DEF FindTeam
  <2> DEFINE data == [club |-> work[e].club, roster |-> work[e].roster, league |-> work[e].league,
                      years |-> work[e].years, team |-> t, show |-> ~t.active, hidden |-> Hidden(e, t)]
  <2>2. data.league = work[e].league /\ data.years = work[e].years /\ Proceed(e, "players", data)
    BY <2>1
  <2>3. Transacting(e) /\ UNCHANGED setupTables
    BY <1>3 DEF FindTeam, Transacting
  <2> HIDE DEF data
  <2> QED BY <1>1, <2>2, <2>3
<1>4. CASE WritePlayers(e)
  <2>1. Transacting(e) /\ UNCHANGED setupTables /\ Proceed(e, "roster", work[e])
    BY <1>4 DEF WritePlayers, Transacting
  <2> QED BY <1>1, <2>1
<1>5. CASE WriteRoster(e)
  <2>1. Transacting(e) /\ UNCHANGED setupTables /\ Proceed(e, "commit", work[e])
    BY <1>5 DEF WriteRoster, Transacting
  <2> QED BY <1>1, <2>1
<1>6. CASE AbortPlayers(e)
  <2>1. Proceed(e, "idle", Nothing) /\ UNCHANGED <<orgs, staffed, leagues, seasons, ruled>>
    BY <1>6 DEF AbortPlayers, setupTables
  <2>2. stage'[e] = "idle" /\ Others(e) /\ begun' = begun
    BY <1>0, <2>1, Proceeded DEF Others
  <2>3. Grows
    BY <1>0, <2>1, <2>2 DEF Grows
  <2> QED BY <2>1, <2>2, <2>3, NothingMade, LeaguesKept
<1> QED BY <1>2, <1>3, <1>4, <1>5, <1>6

(* An import commits a whole league.                                       *)
LEMMA CommitKeepsLeagues ==
  ASSUME TypedInv, LeagueInv, NEW e \in Requests, CommitImport(e)
  PROVE  LeagueInv' /\ Grows
<1> DEFINE u == work[e]
<1>0. SetupTypeOK /\ begun \in Nat
  BY SetupAssumption DEF TypedInv
<1>1. /\ stage[e] = "commit" /\ Proceed(e, "idle", Nothing) /\ orgs' = orgs /\ staffed' = staffed
      /\ leagues' = leagues \cup {u.league}
      /\ seasons' = seasons \cup {SeasonRow(u.league.id, y) : y \in u.years}
      /\ ruled' = ruled \cup {SeasonRow(u.league.id, y) : y \in u.years}
  BY Committed
<1>2. /\ u.league.kind = "nhl"
      /\ \A y \in 1..NhlYears : y \in u.years \/ SeasonRow(u.league.id, y) \in ruled
  BY <1>1 DEF LeagueInv, MadeInv, Transacting
<1> HIDE DEF u
<1>3. stage'[e] = "idle" /\ Others(e) /\ begun' = begun
  BY <1>0, <1>1, Proceeded DEF Others
<1>4. Grows
  BY <1>0, <1>1, <1>3 DEF Grows
<1>5. \A s \in seasons' : s \in seasons \/ IsThere(s.league)'
  <2> TAKE s \in seasons'
  <2>1. CASE s \notin seasons
    <3>1. PICK y \in u.years : s = SeasonRow(u.league.id, y)
      BY <1>1, <2>1
    <3>2. s.league = u.league.id
      BY <3>1 DEF SeasonRow
    <3> QED BY <1>1, <3>2 DEF IsThere
  <2> QED BY <2>1
<1>6. \A l \in leagues' : l \in leagues \/ l.kind # "nhl" \/ Whole(l)'
  <2>1. \A y \in 1..NhlYears : SeasonRow(u.league.id, y) \in ruled'
    BY <1>1, <1>2
  <2> TAKE l \in leagues'
  <2>2. CASE l = u.league
    <3>1. \A y \in 1..NhlYears : SeasonRow(l.id, y) \in ruled'
      BY <2>1, <2>2
    <3> QED BY <1>2, <2>2, <3>1 DEF Whole, YearsOf
  <2> QED BY <1>1, <2>2
<1> QED BY <1>3, <1>4, <1>5, <1>6, NothingMade, LeaguesKept

(* Deaths, edits and trades leave leagues alone.                           *)
LEMMA OtherStepsKeepLeagues ==
  ASSUME TypedInv, LeagueInv,
         \/ \E e \in Requests : Dies(e)
         \/ \E o \in Orgs, n \in NhlPlayers : EditStatus(o, n, "injured_reserve")
         \/ \E n \in NhlPlayers, club \in Clubs \cup {Nothing} : Trade(n, club)
  PROVE  LeagueInv' /\ Grows
<1>0. SetupTypeOK /\ begun \in Nat
  BY SetupAssumption DEF TypedInv
<1>1. ASSUME NEW e \in Requests, Dies(e)
      PROVE  LeagueInv' /\ Grows
  <2>1. MoveTo(e, "idle", Nothing) /\ UNCHANGED <<orgs, staffed, leagues, seasons, ruled, begun>>
    BY <1>1 DEF Dies, setupTables
  <2>2. stage'[e] = "idle" /\ Others(e)
    BY <1>0, <2>1, Moved DEF Others
  <2>3. Grows
    BY <1>0, <2>1, <2>2 DEF Grows
  <2> QED BY <2>1, <2>2, <2>3, NothingMade, LeaguesKept
<1>2. ASSUME UNCHANGED <<orgs, staffed, leagues, seasons, ruled, begun, stage, work>>
      PROVE  LeagueInv' /\ Grows
  BY <1>0, <1>2 DEF LeagueInv, Grows, MadeInv, Making, Transacting, IsThere, Whole
<1>3. ASSUME NEW o, NEW n, EditStatus(o, n, "injured_reserve")
      PROVE  UNCHANGED <<orgs, staffed, leagues, seasons, ruled, begun, stage, work>>
  BY <1>3 DEF EditStatus
<1>4. ASSUME NEW n, NEW club, Trade(n, club)
      PROVE  UNCHANGED <<orgs, staffed, leagues, seasons, ruled, begun, stage, work>>
  BY <1>4 DEF Trade, setupTables
<1> QED BY <1>1, <1>2, <1>3, <1>4

-----------------------------------------------------------------------------
(* Transactions.                                                           *)

(* Steps of the request e.                                                 *)
OfRequest(e) ==
  \/ CreateOrganization(e) \/ InsertMember(e)
  \/ \E club \in Clubs \cup {Nothing} :
       CreateLeague(e, club) \/ \E l \in leagues : JoinLeague(e, l, club)
  \/ InsertSeason(e) \/ InsertRules(e) \/ InsertTeam(e)
  \/ \E club \in Clubs, hide \in BOOLEAN : FetchRoster(e, club, hide)
  \/ EnsureNhlLeague(e) \/ FindTeam(e) \/ WritePlayers(e) \/ AbortPlayers(e)
  \/ WriteRoster(e) \/ CommitImport(e) \/ Dies(e)

(* Every step is a request's, an edit or a trade.                          *)
LEMMA NextIsOfRequest ==
  ASSUME SetupNext
  PROVE  \/ \E e \in Requests : OfRequest(e)
         \/ \E o \in Orgs, n \in NhlPlayers : EditStatus(o, n, "injured_reserve")
         \/ \E n \in NhlPlayers, club \in Clubs \cup {Nothing} : Trade(n, club)
BY DEF SetupNext, OfRequest

(* What a request may do in a transaction.                                 *)
Steps(e) ==
  /\ Others(e)
  /\ \/ ~Transacting(e)'
     \/ EnsureNhlLeague(e) \/ FindTeam(e)
     \/ Placing(e) /\ Placing(e)' /\ work'[e] = work[e]

(* Of a transaction there are four steps.                                  *)
LEMMA StepOfRequest ==
  ASSUME TypedInv, NEW e \in Requests, OfRequest(e)
  PROVE  Steps(e)
<1>0. SetupTypeOK
  BY DEF TypedInv
<1>1. ASSUME NEW label, NEW data, Proceed(e, label, data) \/ Start(e, label, data),
             label \in {"idle", "member", "season", "rules", "insertTeam", "fetched"}
      PROVE  Steps(e)
  <2>1. stage'[e] = label /\ Others(e)
    BY <1>0, <1>1, Proceeded, Started DEF Others
  <2> QED BY <1>1, <2>1 DEF Steps, Transacting
<1>2. CASE CreateOrganization(e)
  BY <1>1, <1>2 DEF CreateOrganization
<1>3. CASE InsertMember(e)
  BY <1>1, <1>3 DEF InsertMember
<1>4. ASSUME NEW club, CreateLeague(e, club) PROVE Steps(e)
  BY <1>1, <1>4 DEF CreateLeague
<1>5. ASSUME NEW club, NEW l, JoinLeague(e, l, club) PROVE Steps(e)
  BY <1>1, <1>5 DEF JoinLeague
<1>6. CASE InsertSeason(e)
  BY <1>1, <1>6 DEF InsertSeason
<1>7. CASE InsertRules(e)
  BY <1>1, <1>7 DEF InsertRules
<1>8. CASE InsertTeam(e)
  BY <1>1, <1>8 DEF InsertTeam
<1>9. ASSUME NEW club, NEW hide, FetchRoster(e, club, hide) PROVE Steps(e)
  BY <1>1, <1>9 DEF FetchRoster
<1>10. CASE EnsureNhlLeague(e)
  <2>1. \E data : Proceed(e, "team", data)
    BY <1>10 DEF EnsureNhlLeague
  <2>2. Others(e)
    BY <1>0, <2>1, Proceeded DEF Others
  <2> QED BY <1>10, <2>2 DEF Steps
<1>11. CASE FindTeam(e)
  <2>1. \E data : Proceed(e, "players", data)
    BY <1>11 DEF FindTeam
  <2>2. Others(e)
    BY <1>0, <2>1, Proceeded DEF Others
  <2> QED BY <1>11, <2>2 DEF Steps
<1>12. CASE WritePlayers(e) \/ WriteRoster(e)
  <2>1. Placing(e) /\ (Proceed(e, "roster", work[e]) \/ Proceed(e, "commit", work[e]))
    BY <1>12 DEF WritePlayers, WriteRoster, Placing
  <2>2. Others(e) /\ work'[e] = work[e] /\ stage'[e] \in {"roster", "commit"}
    BY <1>0, <2>1, Proceeded DEF Others
  <2> QED BY <2>1, <2>2 DEF Steps, Placing
<1>13. CASE AbortPlayers(e)
  BY <1>1, <1>13 DEF AbortPlayers
<1>14. CASE CommitImport(e)
  BY <1>1, <1>14 DEF CommitImport
<1>15. CASE Dies(e)
  <2>1. stage'[e] = "idle" /\ Others(e)
    BY <1>0, <1>15, Moved DEF Dies, Others
  <2> QED BY <2>1 DEF Steps, Transacting
<1> QED BY <1>2, <1>3, <1>4, <1>5, <1>6, <1>7, <1>8, <1>9, <1>10, <1>11, <1>12, <1>13, <1>14, <1>15 DEF OfRequest

(* Who is in a transaction after a step was so before, or has begun it, or *)
(* has found its team.                                                     *)
LEMMA Transactions ==
  ASSUME TypedInv, SetupNext, NEW d \in Requests, Transacting(d)'
  PROVE  \/ Transacting(d) /\ work'[d] = work[d] /\ (Placing(d)' => Placing(d))
         \/ EnsureNhlLeague(d) \/ FindTeam(d)
<1>1. ASSUME UNCHANGED <<stage, work>>
      PROVE  Transacting(d) /\ work'[d] = work[d] /\ (Placing(d)' => Placing(d))
  BY <1>1 DEF Transacting, Placing
<1>2. ASSUME NEW e \in Requests, Steps(e)
      PROVE  \/ Transacting(d) /\ work'[d] = work[d] /\ (Placing(d)' => Placing(d))
             \/ EnsureNhlLeague(d) \/ FindTeam(d)
  <2>1. CASE d # e
    BY <1>2, <2>1 DEF Steps, Others, Transacting, Placing
  <2>2. CASE d = e
    BY <1>2, <2>2 DEF Steps, Transacting, Placing
  <2> QED BY <2>1, <2>2
<1>3. ASSUME NEW o, NEW n, EditStatus(o, n, "injured_reserve") PROVE UNCHANGED <<stage, work>>
  BY <1>3 DEF EditStatus
<1>4. ASSUME NEW n, NEW club, Trade(n, club) PROVE UNCHANGED <<stage, work>>
  BY <1>4 DEF Trade
<1> QED BY <1>1, <1>2, <1>3, <1>4, NextIsOfRequest, StepOfRequest

-----------------------------------------------------------------------------
(* The teams that imports write.                                           *)

(* No team goes, and none changes more than whether it is active.          *)
SameTeam(t, x) == x.id = t.id /\ x.org = t.org /\ x.club = t.club /\ x.league = t.league

TeamsStay == \A t \in teams : \E x \in teams' : SameTeam(t, x)

(* So it is with every step.                                               *)
LEMMA TeamsAreKept ==
  ASSUME TypedInv, SetupNext
  PROVE  TeamsStay
<1>1. CASE teams \subseteq teams'
  BY <1>1 DEF TeamsStay, SameTeam
<1>2. ASSUME Quiet PROVE teams \subseteq teams'
  BY <1>2, QuietStep DEF NoNewId
<1>3. ASSUME NEW e, NEW club, CreateLeague(e, club) PROVE teams \subseteq teams'
  BY <1>3 DEF CreateLeague
<1>4. ASSUME NEW e, InsertTeam(e) PROVE teams \subseteq teams'
  BY <1>4 DEF InsertTeam
<1>5. ASSUME NEW e \in Requests, CommitImport(e) PROVE TeamsStay
  <2> DEFINE u == work[e]
  <2>1. teams' = {Shown(u, t) : t \in teams \cup {Placed(u)}}
    BY <1>5, Committed
  <2> HIDE DEF u
  <2>2. \A t \in teams : SameTeam(t, Shown(u, t))
    BY ShownTeam DEF SameTeam, TypedInv, SetupTypeOK
  <2> QED BY <2>1, <2>2 DEF TeamsStay
<1> QED BY <1>1, <1>2, <1>3, <1>4, <1>5, NextIsQuiet

(* What an import has found stays so while it waits.                       *)
LEMMA PlaceStays ==
  ASSUME TypedInv, NEW d \in Requests, PlaceInv(d), TeamsStay, begun' \in Nat, begun' >= begun,
         Placing(d)' => Placing(d) /\ work'[d] = work[d]
  PROVE  PlaceInv(d)'
<1> SUFFICES ASSUME Placing(d)' PROVE PlaceInv(d)'
  BY DEF PlaceInv
<1>1. Placing(d) /\ work'[d] = work[d]
  OBVIOUS
<1>2. work[d].team.id[2] \in Nat /\ begun \in Nat
  BY <1>1, SetupAssumption DEF TypedInv, WorkInv, TeamWork, TeamRows, Ids
<1>3. HasId(work[d].team.id) => HasId(work[d].team.id)'
  BY <1>1 DEF HasId, TeamsStay, SameTeam
<1> QED BY <1>1, <1>2, <1>3 DEF PlaceInv, HasId

(* The team is another than those to be hidden.                            *)
LEMMA FindTeamPlaces ==
  ASSUME TypedInv, IdInv, NEW e \in Requests, FindTeam(e)
  PROVE  PlaceInv(e)'
<1>0. SetupTypeOK /\ begun \in Nat
  BY SetupAssumption DEF TypedInv
<1>1. PICK t \in IF ClubTeams(e) = {} THEN {Team(<<e, begun>>, OrgOf[e], work[e].league.id, work[e].club)}
                 ELSE ClubTeams(e) :
        Proceed(e, "players", [club |-> work[e].club, roster |-> work[e].roster, league |-> work[e].league,
                               years |-> work[e].years, team |-> t, show |-> ~t.active, hidden |-> Hidden(e, t)])
  BY DEF FindTeam
<1> DEFINE hidden == Hidden(e, t)
           data == [club |-> work[e].club, roster |-> work[e].roster, league |-> work[e].league,
                    years |-> work[e].years, team |-> t, show |-> ~t.active, hidden |-> hidden]
<1>2. data.team = t /\ data.hidden = hidden /\ data.club = work[e].club /\ Proceed(e, "players", data)
  BY <1>1
<1>3. teams' = teams
  BY DEF FindTeam, setupTables
<1> HIDE DEF data
<1>4. stage'[e] = "players" /\ work'[e] = data /\ begun' = begun
  BY <1>0, <1>2, Proceeded
<1>5. \A x \in teams : x.id[2] <= begun /\ x.org = OrgOf[x.id[1]]
  BY DEF IdInv
<1>6. /\ t.org = OrgOf[e] /\ OrgOf[t.id[1]] = OrgOf[e] /\ t.id[2] <= begun /\ t.club = work[e].club
      /\ HasId(t.id) \/ t.id[1] = e
  <2>1. CASE ClubTeams(e) = {}
    BY <1>0, <1>1, <2>1 DEF Team
  <2>2. CASE ClubTeams(e) # {}
    BY <1>1, <1>5, <2>2 DEF ClubTeams, HasId
  <2> QED BY <2>1, <2>2
<1>7. t.id \notin hidden /\ \A h \in hidden : OrgOf[h[1]] = OrgOf[e]
  BY <1>5 DEF Hidden
<1> HIDE DEF hidden
<1>8. HasId(t.id) => HasId(t.id)'
  BY <1>3 DEF HasId
<1>9. work'[e].team = t /\ work'[e].hidden = hidden /\ work'[e].club = work[e].club
  BY <1>2, <1>4
<1> QED BY <1>4, <1>6, <1>7, <1>8, <1>9, <1>3 DEF PlaceInv, HasId

(* So it stays with every step.                                            *)
LEMMA PlacesAreKept ==
  ASSUME TypedInv, IdInv, \A e \in Requests : PlaceInv(e), SetupNext, begun' \in Nat, begun' >= begun
  PROVE  \A e \in Requests : PlaceInv(e)'
<1> TAKE d \in Requests
<1>1. Placing(d)' => Transacting(d)'
  BY DEF Placing, Transacting
<1>2. CASE FindTeam(d)
  BY <1>2, FindTeamPlaces
<1>3. ASSUME EnsureNhlLeague(d) PROVE ~Placing(d)'
  <2>1. \E data : Proceed(d, "team", data)
    BY <1>3 DEF EnsureNhlLeague
  <2> QED BY <2>1, Proceeded DEF Placing, TypedInv
<1>4. CASE ~FindTeam(d)
  <2>1. Placing(d)' => Placing(d) /\ work'[d] = work[d]
    BY <1>1, <1>3, <1>4, Transactions
  <2> QED BY <2>1, PlaceStays, TeamsAreKept
<1> QED BY <1>2, <1>4

-----------------------------------------------------------------------------
(* One transaction at a time.                                              *)

(* What the transaction that runs has read does not change under it.       *)
LEMMA NothingBeside ==
  ASSUME TypedInv, SerialInv, serial, SetupNext, NEW d \in Requests, Transacting(d)'
  PROVE  leagues' = leagues /\ teams' = teams
<1>0. SetupTypeOK
  BY DEF TypedInv
<1>1. CASE Quiet
  BY <1>1, QuietStep DEF NoNewId
<1>2. ASSUME NEW e \in Requests, NEW label, NEW data, Proceed(e, label, data) \/ Start(e, label, data),
             label \in {"idle", "season"}, Unblocked(e)
      PROVE  FALSE
  <2>1. stage'[e] = label /\ \A x \in Requests \ {e} : stage'[x] = stage[x]
    BY <1>0, <1>2, Proceeded, Started
  <2>2. d # e /\ Transacting(d)
    BY <1>2, <2>1 DEF Transacting
  <2> QED BY <1>2, <2>2 DEF Unblocked
<1>3. ASSUME NEW e \in Requests, NEW club, CreateLeague(e, club) PROVE FALSE
  BY <1>2, <1>3 DEF CreateLeague
<1>4. ASSUME NEW e \in Requests, InsertTeam(e) PROVE FALSE
  BY <1>2, <1>4 DEF InsertTeam
<1>5. ASSUME NEW e \in Requests, CommitImport(e) PROVE FALSE
  <2>1. stage[e] = "commit" /\ Proceed(e, "idle", Nothing)
    BY <1>5 DEF CommitImport
  <2>2. stage'[e] = "idle" /\ \A x \in Requests \ {e} : stage'[x] = stage[x]
    BY <1>0, <2>1, Proceeded
  <2>3. d # e /\ Transacting(d) /\ Transacting(e)
    BY <2>1, <2>2 DEF Transacting
  <2> QED BY <2>3 DEF SerialInv
<1> QED BY <1>1, <1>3, <1>4, <1>5, NextIsQuiet

(* A transaction begins when none runs.                                    *)
LEMMA OneTransaction ==
  ASSUME TypedInv, SerialInv, serial, SetupNext
  PROVE  \A d, e \in Requests : Transacting(d)' /\ Transacting(e)' => d = e
<1>1. ASSUME NEW d \in Requests, NEW e \in Requests, EnsureNhlLeague(d), Transacting(e)', d # e
      PROVE  FALSE
  <2>1. \E data : Proceed(d, "team", data)
    BY <1>1 DEF EnsureNhlLeague
  <2>2. stage'[e] = stage[e]
    BY <1>1, <2>1, Proceeded DEF TypedInv
  <2> QED BY <1>1, <2>2 DEF EnsureNhlLeague, Unblocked, Transacting
<1>2. ASSUME NEW d \in Requests, Transacting(d)'
      PROVE  Transacting(d) \/ EnsureNhlLeague(d)
  BY <1>2, Transactions DEF FindTeam, Transacting
<1> QED BY <1>1, <1>2 DEF SerialInv

(* The NHL's league is made where there is none.                           *)
LEMMA OneLeague ==
  ASSUME TypedInv, SerialInv, serial, SetupNext
  PROVE  \A l, m \in NhlLeagues' : l = m
<1>1. ASSUME Quiet PROVE NhlLeagues' \subseteq NhlLeagues
  BY <1>1, QuietStep DEF NoNewId, NhlLeagues
<1>2. ASSUME NEW e, NEW club, CreateLeague(e, club) PROVE NhlLeagues' \subseteq NhlLeagues
  <2>1. leagues' = leagues \cup {League(<<e, begun + 1>>, "custom")}
    BY <1>2 DEF CreateLeague
  <2>2. League(<<e, begun + 1>>, "custom").kind # "nhl"
    BY DEF League
  <2> QED BY <2>1, <2>2 DEF NhlLeagues
<1>3. ASSUME NEW e, InsertTeam(e) PROVE NhlLeagues' \subseteq NhlLeagues
  BY <1>3 DEF InsertTeam, NhlLeagues
<1>4. ASSUME NEW e \in Requests, CommitImport(e)
      PROVE  \A l, m \in NhlLeagues' : l = m
  <2> DEFINE u == work[e]
  <2>1. leagues' = leagues \cup {u.league} /\ Transacting(e)
    BY <1>4, Committed DEF Transacting
  <2>2. NhlLeagues = {} \/ u.league \in NhlLeagues
    BY <2>1 DEF SerialInv, AloneInv
  <2> HIDE DEF u
  <2>3. NhlLeagues' \subseteq NhlLeagues \cup {u.league}
    BY <2>1 DEF NhlLeagues
  <2> QED BY <2>2, <2>3 DEF SerialInv
<1>5. ASSUME NhlLeagues' \subseteq NhlLeagues
      PROVE  \A l, m \in NhlLeagues' : l = m
  BY <1>5 DEF SerialInv
<1> QED BY <1>1, <1>2, <1>3, <1>4, <1>5, NextIsQuiet

(* An import begins with the league there is, if there is one,             *)
LEMMA EnsureIsAlone ==
  ASSUME TypedInv, NEW e \in Requests, EnsureNhlLeague(e), leagues' = leagues
  PROVE  AloneInv(e)'
<1>1. PICK l \in IF NhlLeagues = {} THEN {League(<<e, begun>>, "nhl")} ELSE NhlLeagues :
        Proceed(e, "team", [club |-> work[e].club, roster |-> work[e].roster, hide |-> work[e].hide, league |-> l,
                            years |-> {y \in 1..NhlYears : SeasonRow(l.id, y) \notin seasons}])
  BY DEF EnsureNhlLeague
<1> DEFINE data == [club |-> work[e].club, roster |-> work[e].roster, hide |-> work[e].hide, league |-> l,
                    years |-> {y \in 1..NhlYears : SeasonRow(l.id, y) \notin seasons}]
<1>2. data.league = l /\ Proceed(e, "team", data)
  BY <1>1
<1> HIDE DEF data
<1>3. stage'[e] = "team" /\ work'[e].league = l
  BY <1>2, Proceeded DEF TypedInv
<1>4. NhlLeagues' = {} \/ l \in NhlLeagues'
  BY <1>1 DEF NhlLeagues
<1> QED BY <1>3, <1>4 DEF AloneInv, Placing

(* and goes on with the club's team, if there is one.                      *)
LEMMA FindIsAlone ==
  ASSUME TypedInv, IdInv, NEW e \in Requests, AloneInv(e), FindTeam(e), leagues' = leagues, teams' = teams
  PROVE  AloneInv(e)'
<1>0. begun \in Nat
  BY SetupAssumption DEF TypedInv
<1>1. PICK t \in IF ClubTeams(e) = {} THEN {Team(<<e, begun>>, OrgOf[e], work[e].league.id, work[e].club)}
                 ELSE ClubTeams(e) :
        Proceed(e, "players", [club |-> work[e].club, roster |-> work[e].roster, league |-> work[e].league,
                               years |-> work[e].years, team |-> t, show |-> ~t.active, hidden |-> Hidden(e, t)])
  BY DEF FindTeam
<1> DEFINE data == [club |-> work[e].club, roster |-> work[e].roster, league |-> work[e].league,
                    years |-> work[e].years, team |-> t, show |-> ~t.active, hidden |-> Hidden(e, t)]
<1>2. /\ data.team = t /\ data.show = ~t.active /\ data.club = work[e].club /\ data.league = work[e].league
      /\ Proceed(e, "players", data) /\ stage[e] = "team"
  BY <1>1 DEF FindTeam
<1> HIDE DEF data
<1>3. stage'[e] = "players" /\ work'[e] = data
  BY <1>2, Proceeded DEF TypedInv
<1>4. NhlLeagues' = {} \/ work'[e].league \in NhlLeagues'
  BY <1>2, <1>3 DEF AloneInv, Transacting, NhlLeagues
<1>5. ClubTeams(e)' = ClubTeams(e)
  BY <1>2, <1>3 DEF ClubTeams
<1>6. t \in teams' \/ (t.active /\ ~HasId(t.id)' /\ ClubTeams(e)' = {})
  <2>1. CASE ClubTeams(e) = {}
    <3>1. t.id[1] = e /\ t.id[2] = begun /\ t.active
      BY <1>1, <2>1 DEF Team
    <3>2. Unused(e, teams)
      BY <1>2 DEF IdInv
    <3>3. ~HasId(t.id)'
      BY <1>0, <3>1, <3>2 DEF HasId, Unused
    <3> QED BY <1>5, <2>1, <3>1, <3>3
  <2>2. CASE ClubTeams(e) # {}
    BY <1>1, <2>2 DEF ClubTeams
  <2> QED BY <2>1, <2>2
<1>7. work'[e].team = t /\ work'[e].show = ~work'[e].team.active
  BY <1>2, <1>3
<1> QED BY <1>4, <1>6, <1>7 DEF AloneInv, HasId

(* So what a transaction has read holds until it ends.                     *)
LEMMA SerialIsKept ==
  ASSUME TypedInv, IdInv, SerialInv, SetupNext
  PROVE  SerialInv'
<1> SUFFICES ASSUME serial PROVE SerialInv'
  BY DEF SerialInv, SetupNext
<1>1. ASSUME NEW d \in Requests PROVE AloneInv(d)'
  <2>1. CASE ~Transacting(d)'
    BY <2>1 DEF AloneInv, Transacting, Placing
  <2>2. CASE Transacting(d)'
    <3>1. leagues' = leagues /\ teams' = teams /\ AloneInv(d)
      BY <2>2, NothingBeside DEF SerialInv
    <3>2. CASE EnsureNhlLeague(d)
      BY <3>1, <3>2, EnsureIsAlone
    <3>3. CASE FindTeam(d)
      BY <3>1, <3>3, FindIsAlone
    <3>4. CASE Transacting(d) /\ work'[d] = work[d] /\ (Placing(d)' => Placing(d))
      BY <3>1, <3>4 DEF AloneInv, NhlLeagues, HasId, ClubTeams
    <3> QED BY <2>2, <3>2, <3>3, <3>4, Transactions
  <2> QED BY <2>1, <2>2
<1>2. \A l, m \in NhlLeagues' : l = m
  BY OneLeague
<1>3. \A d, e \in Requests : Transacting(d)' /\ Transacting(e)' => d = e
  BY OneTransaction
<1> QED BY <1>1, <1>2, <1>3 DEF SerialInv

-----------------------------------------------------------------------------
(* Players.                                                                *)

(* Players are written by imports and by hand.                             *)
LEMMA PlayersOfStep ==
  ASSUME SetupNext
  PROVE  \/ players' = players /\ rosters' = rosters
         \/ \E e \in Requests : CommitImport(e)
         \/ \E o \in Orgs, n \in NhlPlayers : EditStatus(o, n, "injured_reserve")
<1>1. ASSUME NEW e, CreateOrganization(e) \/ InsertMember(e) \/ InsertSeason(e) \/ InsertRules(e) \/ InsertTeam(e)
      PROVE  players' = players /\ rosters' = rosters
  BY <1>1 DEF CreateOrganization, InsertMember, InsertSeason, InsertRules, InsertTeam
<1>2. ASSUME NEW e, NEW club, CreateLeague(e, club)
      PROVE  players' = players /\ rosters' = rosters
  BY <1>2 DEF CreateLeague
<1>3. ASSUME UNCHANGED setupTables PROVE players' = players /\ rosters' = rosters
  BY <1>3 DEF setupTables
<1>4. ASSUME NEW e, NEW club, NEW l, JoinLeague(e, l, club) PROVE UNCHANGED setupTables
  BY <1>4 DEF JoinLeague
<1>5. ASSUME NEW e, NEW club, NEW hide, FetchRoster(e, club, hide) PROVE UNCHANGED setupTables
  BY <1>5 DEF FetchRoster
<1>6. ASSUME NEW e, \/ EnsureNhlLeague(e) \/ FindTeam(e) \/ WritePlayers(e) \/ AbortPlayers(e)
                    \/ WriteRoster(e) \/ Dies(e)
      PROVE  UNCHANGED setupTables
  BY <1>6 DEF EnsureNhlLeague, FindTeam, WritePlayers, AbortPlayers, WriteRoster, Dies
<1>7. ASSUME NEW n, NEW club, Trade(n, club) PROVE UNCHANGED setupTables
  BY <1>7 DEF Trade
<1> QED BY <1>1, <1>2, <1>3, <1>4, <1>5, <1>6, <1>7 DEF SetupNext

(* An import leaves every record, and adds those of its roster.            *)
LEMMA CommitKeepsPlayers ==
  ASSUME TypedInv, NEW e \in Requests, CommitImport(e)
  PROVE  /\ \A o \in Orgs, n \in NhlPlayers :
              players[o][n] # Nothing => players'[o][n] # Nothing /\ players'[o][n].status = players[o][n].status
         /\ \A n \in work[e].roster : players'[OrgOf[e]][n] # Nothing
<1> DEFINE u == work[e]
           ours == [n \in NhlPlayers |-> IF n \in u.roster THEN Refreshed(players[OrgOf[e]][n], u.team.id)
                                         ELSE players[OrgOf[e]][n]]
<1>1. /\ stage[e] = "commit"
      /\ players' = [players EXCEPT ![OrgOf[e]] =
                       [n \in NhlPlayers |-> IF n \in u.roster THEN Refreshed(@[n], u.team.id) ELSE @[n]]]
  BY Committed
<1>2. players' = [players EXCEPT ![OrgOf[e]] = ours]
  BY <1>1
<1>3. u \in TeamWork
  BY <1>1 DEF TypedInv, WorkInv, Placing
<1> HIDE DEF u
<1>4. u.team.id \in Ids /\ u.roster \subseteq NhlPlayers
  BY <1>3 DEF TeamWork, TeamRows
<1>5. players \in [Orgs -> [NhlPlayers -> PlayerRows \cup {Nothing}]] /\ OrgOf[e] \in Orgs
  BY SetupAssumption DEF TypedInv, SetupTypeOK
<1>6. ASSUME NEW n \in NhlPlayers
      PROVE  /\ players[OrgOf[e]][n] # Nothing => /\ ours[n] # Nothing
                                                  /\ ours[n].status = players[OrgOf[e]][n].status
             /\ n \in u.roster => ours[n] # Nothing
  <2>1. players[OrgOf[e]][n] \in PlayerRows \cup {Nothing}
    BY <1>5
  <2>2. Refreshed(players[OrgOf[e]][n], u.team.id) # Nothing
    BY <1>4, <2>1, RefreshedRow, SetupAssumption
  <2>3. players[OrgOf[e]][n] # Nothing
          => Refreshed(players[OrgOf[e]][n], u.team.id).status = players[OrgOf[e]][n].status
    BY <1>4, <2>1, RefreshedRow
  <2> QED BY <2>2, <2>3
<1> HIDE DEF ours
<1>7. players'[OrgOf[e]] = ours /\ \A o \in Orgs \ {OrgOf[e]} : players'[o] = players[o]
  BY <1>2, <1>5
<1> QED BY <1>4, <1>6, <1>7 DEF u

(* What a status edited by hand leaves.                                    *)
LEMMA EditKeepsPlayers ==
  ASSUME TypedInv, NEW o \in Orgs, NEW n \in NhlPlayers, EditStatus(o, n, "injured_reserve")
  PROVE  /\ rosters' = rosters
         /\ \A p \in Orgs, m \in NhlPlayers : players[p][m] # Nothing => players'[p][m] # Nothing
<1> DEFINE row == [players[o][n] EXCEPT !.status = "injured_reserve"]
<1>1. /\ players' = [players EXCEPT ![o] = [@ EXCEPT ![n] = row]] /\ players[o][n] # Nothing /\ rosters' = rosters
  BY DEF EditStatus
<1>2. players \in [Orgs -> [NhlPlayers -> PlayerRows \cup {Nothing}]]
  BY DEF TypedInv, SetupTypeOK
<1>3. row \in PlayerRows
  <2>1. players[o][n] \in PlayerRows
    BY <1>1, <1>2
  <2> QED BY <2>1 DEF PlayerRows
<1>4. row # Nothing
  BY <1>3, SetupAssumption
<1> HIDE DEF row
<1> QED BY <1>1, <1>2, <1>4

(* So who is on a roster stays on record.                                  *)
LEMMA MembersAreKept ==
  ASSUME TypedInv, IdInv, \A e \in Requests : PlaceInv(e), MembersExist, SetupNext
  PROVE  MembersExist'
<1>1. /\ TeamsStay
      /\ \A m \in rosters : m.player \in NhlPlayers
      /\ \A t \in teams : t.org \in Orgs
  BY TeamsAreKept DEF TypedInv, SetupTypeOK, RosterRows, TeamRows
<1>2. ASSUME \A o \in Orgs, n \in NhlPlayers : players[o][n] # Nothing => players'[o][n] # Nothing,
             NEW m \in rosters
      PROVE  \E t \in teams' : t.id = m.team /\ players'[t.org][m.player] # Nothing
  <2>1. PICK t \in teams : t.id = m.team /\ players[t.org][m.player] # Nothing
    BY <1>2 DEF MembersExist
  <2>2. PICK x \in teams' : SameTeam(t, x)
    BY <1>1 DEF TeamsStay
  <2> QED BY <1>1, <1>2, <2>1, <2>2 DEF SameTeam
<1>3. CASE players' = players /\ rosters' = rosters
  BY <1>2, <1>3 DEF MembersExist
<1>4. ASSUME NEW o \in Orgs, NEW n \in NhlPlayers, EditStatus(o, n, "injured_reserve")
      PROVE  MembersExist'
  BY <1>2, <1>4, EditKeepsPlayers DEF MembersExist
<1>5. ASSUME NEW e \in Requests, CommitImport(e)
      PROVE  MembersExist'
  <2> DEFINE u == work[e]
  <2>1. /\ stage[e] = "commit" /\ teams' = {Shown(u, t) : t \in teams \cup {Placed(u)}}
        /\ rosters' = rosters \cup {[team |-> u.team.id, season |-> SeasonRow(u.league.id, 1), player |-> n] :
                                        n \in u.roster}
    BY <1>5, Committed
  <2>2. Placing(e)
    BY <2>1 DEF Placing
  <2>3. /\ Placed(u) \in TeamRows /\ Placed(u).id = u.team.id
        /\ HasId(u.team.id) => Placed(u) \in teams
        /\ ~HasId(u.team.id) => Placed(u) = u.team
    BY <2>2, PlacedTeam
  <2>4. u.team.org = OrgOf[e] /\ OrgOf[u.team.id[1]] = OrgOf[e]
    BY <2>2 DEF PlaceInv
  <2>5. /\ \A o \in Orgs, n \in NhlPlayers : players[o][n] # Nothing => players'[o][n] # Nothing
        /\ \A n \in u.roster : players'[OrgOf[e]][n] # Nothing
    BY <1>5, CommitKeepsPlayers
  <2> HIDE DEF u
  <2>6. Placed(u).org = OrgOf[e]
    BY <2>3, <2>4 DEF IdInv
  <2> DEFINE x == Shown(u, Placed(u))
  <2>7. x \in teams' /\ x.id = u.team.id /\ x.org = OrgOf[e]
    BY <2>1, <2>3, <2>6, ShownTeam
  <2> HIDE DEF x
  <2>8. \A m \in rosters' : m \in rosters \/ (m.team = u.team.id /\ m.player \in u.roster)
    BY <2>1
  <2>9. ASSUME NEW m \in rosters'
        PROVE  \E t \in teams' : t.id = m.team /\ players'[t.org][m.player] # Nothing
    <3>1. CASE m \in rosters
      BY <1>2, <2>5, <3>1
    <3>2. CASE m.team = u.team.id /\ m.player \in u.roster
      BY <2>5, <2>7, <3>2
    <3> QED BY <2>8, <3>1, <3>2
  <2> QED BY <2>9 DEF MembersExist
<1> QED BY <1>3, <1>4, <1>5, PlayersOfStep

-----------------------------------------------------------------------------
(* What is left half made.                                                 *)

(* A request goes on with what it makes until that is whole, or it dies.   *)
LEMMA Workers ==
  ASSUME TypedInv, SetupNext, NEW e \in Requests, ~Dies(e)
  PROVE  /\ Making(e) => \/ Making(e)' /\ work'[e].league = work[e].league
                         \/ InsertRules(e) /\ work[e].year = LeagueYears
         /\ stage[e] = "member" => stage'[e] = "member" \/ OrgOf[e] \in staffed'
<1>0. SetupTypeOK
  BY DEF TypedInv
<1>1. ASSUME stage'[e] = stage[e], work'[e] = work[e]
      PROVE  /\ Making(e) => Making(e)' /\ work'[e].league = work[e].league
             /\ stage[e] = "member" => stage'[e] = "member"
  BY <1>1 DEF Making
<1>2. ASSUME NEW o, NEW n, EditStatus(o, n, "injured_reserve")
      PROVE  stage' = stage /\ work' = work
  BY <1>2 DEF EditStatus
<1>3. ASSUME NEW n, NEW club, Trade(n, club)
      PROVE  stage' = stage /\ work' = work
  BY <1>3 DEF Trade
<1>4. ASSUME NEW d \in Requests, d # e, OfRequest(d)
      PROVE  stage'[e] = stage[e] /\ work'[e] = work[e]
  BY <1>4, StepOfRequest DEF Steps, Others
<1>5. CASE InsertSeason(e)
  <2>1. stage[e] = "season" /\ Proceed(e, "rules", work[e])
    BY <1>5 DEF InsertSeason
  <2> QED BY <1>0, <2>1, Proceeded DEF Making
<1>6. CASE InsertRules(e)
  <2>1. /\ stage[e] = "rules"
        /\ work[e].year # LeagueYears => Proceed(e, "season", [work[e] EXCEPT !.year = @ + 1])
    BY <1>6 DEF InsertRules
  <2>2. [work[e] EXCEPT !.year = @ + 1].league = work[e].league
    BY <2>1 DEF TypedInv, WorkInv, Making, MakingWork
  <2> DEFINE next == [work[e] EXCEPT !.year = @ + 1]
  <2> HIDE DEF next
  <2>3. work[e].year # LeagueYears => stage'[e] = "season" /\ work'[e] = next
    BY <1>0, <2>1, Proceeded DEF next
  <2> QED BY <1>6, <2>1, <2>2, <2>3 DEF Making, next
<1>7. CASE InsertMember(e)
  BY <1>7 DEF InsertMember, Making
<1>8. ASSUME OfRequest(e), ~InsertSeason(e), ~InsertRules(e), ~InsertMember(e)
      PROVE  ~Making(e) /\ stage[e] # "member"
  BY <1>8 DEF OfRequest, Making, CreateOrganization, CreateLeague, JoinLeague, InsertTeam, FetchRoster, Start,
              EnsureNhlLeague, FindTeam, WritePlayers, AbortPlayers, WriteRoster, CommitImport
<1>9. ASSUME OfRequest(e)
      PROVE  /\ Making(e) => \/ Making(e)' /\ work'[e].league = work[e].league
                             \/ InsertRules(e) /\ work[e].year = LeagueYears
             /\ stage[e] = "member" => stage'[e] = "member" \/ OrgOf[e] \in staffed'
  BY <1>5, <1>6, <1>7, <1>8, <1>9
<1>10. CASE stage'[e] = stage[e] /\ work'[e] = work[e]
  BY <1>1, <1>10
<1>11. OfRequest(e) \/ (stage'[e] = stage[e] /\ work'[e] = work[e])
  BY <1>2, <1>3, <1>4, NextIsOfRequest
<1> QED BY <1>9, <1>10, <1>11

(* Organizations and leagues come from the requests that make them.        *)
LEMMA SetUpRows ==
  ASSUME TypedInv, LeagueInv, SetupNext
  PROVE  /\ \A o \in orgs' : o \in orgs \/ \E e \in Requests : stage'[e] = "member" /\ OrgOf[e] = o
         /\ \A l \in leagues' : \/ l \in leagues \/ l.kind = "nhl"
                                \/ \E e \in Requests : Making(e)' /\ work'[e].league = l.id
         /\ IsFiniteSet(orgs) => IsFiniteSet(orgs')
         /\ IsFiniteSet(leagues) => IsFiniteSet(leagues')
<1>0. SetupTypeOK
  BY DEF TypedInv
<1>1. ASSUME NEW e \in Requests, CreateOrganization(e)
      PROVE  /\ \A o \in orgs' : o \in orgs \/ \E d \in Requests : stage'[d] = "member" /\ OrgOf[d] = o
             /\ IsFiniteSet(orgs) => IsFiniteSet(orgs')
             /\ leagues' = leagues
  <2>1. orgs' = orgs \cup {OrgOf[e]} /\ Start(e, "member", Nothing) /\ leagues' = leagues
    BY <1>1 DEF CreateOrganization
  <2>2. stage'[e] = "member"
    BY <1>0, <2>1, Started
  <2> QED BY <2>1, <2>2, FS_AddElement
<1>2. ASSUME NEW e \in Requests, NEW club, CreateLeague(e, club)
      PROVE  /\ \A l \in leagues' : l \in leagues \/ \E d \in Requests : Making(d)' /\ work'[d].league = l.id
             /\ IsFiniteSet(leagues) => IsFiniteSet(leagues')
             /\ orgs' = orgs
  <2> DEFINE id == <<e, begun + 1>>
             l == League(id, "custom")
             data == [league |-> id, year |-> 1, club |-> club]
  <2>1. Start(e, "season", data) /\ leagues' = leagues \cup {l} /\ orgs' = orgs
    BY <1>2 DEF CreateLeague
  <2>2. l.id = id /\ data.league = id
    BY DEF League
  <2> HIDE DEF id, l, data
  <2>3. stage'[e] = "season" /\ work'[e] = data
    BY <1>0, <2>1, Started
  <2> QED BY <2>1, <2>2, <2>3, FS_AddElement DEF Making
<1>3. ASSUME NEW e \in Requests, CommitImport(e)
      PROVE  /\ \A l \in leagues' : l \in leagues \/ l.kind = "nhl"
             /\ IsFiniteSet(leagues) => IsFiniteSet(leagues')
             /\ orgs' = orgs
  <2> DEFINE u == work[e]
  <2>1. leagues' = leagues \cup {u.league} /\ orgs' = orgs /\ stage[e] = "commit"
    BY <1>3, Committed
  <2>2. u.league.kind = "nhl"
    BY <2>1 DEF LeagueInv, MadeInv, Transacting
  <2> HIDE DEF u
  <2> QED BY <2>1, <2>2, FS_AddElement
<1>4. ASSUME NEW e, InsertTeam(e) PROVE orgs' = orgs /\ leagues' = leagues
  BY <1>4 DEF InsertTeam
<1>5. ASSUME Quiet, ~\E e \in Requests : CreateOrganization(e) PROVE orgs' = orgs /\ leagues' = leagues
  <2>1. ASSUME UNCHANGED setupTables PROVE orgs' = orgs
    BY <2>1 DEF setupTables
  <2>2. ASSUME NEW e, InsertMember(e) \/ InsertSeason(e) \/ InsertRules(e) PROVE orgs' = orgs
    BY <2>2 DEF InsertMember, InsertSeason, InsertRules
  <2>3. ASSUME NEW e, NEW club, NEW l, JoinLeague(e, l, club) PROVE orgs' = orgs
    BY <2>1, <2>3 DEF JoinLeague
  <2>4. ASSUME NEW e, NEW club, NEW hide, FetchRoster(e, club, hide) PROVE orgs' = orgs
    BY <2>1, <2>4 DEF FetchRoster
  <2>5. ASSUME NEW e, \/ EnsureNhlLeague(e) \/ FindTeam(e) \/ WritePlayers(e) \/ AbortPlayers(e)
                      \/ WriteRoster(e) \/ Dies(e)
        PROVE  orgs' = orgs
    BY <2>1, <2>5 DEF EnsureNhlLeague, FindTeam, WritePlayers, AbortPlayers, WriteRoster, Dies
  <2>6. ASSUME NEW o, NEW n, EditStatus(o, n, "injured_reserve") PROVE orgs' = orgs
    BY <2>6 DEF EditStatus
  <2>7. ASSUME NEW n, NEW club, Trade(n, club) PROVE orgs' = orgs
    BY <2>1, <2>7 DEF Trade
  <2>8. orgs' = orgs
    BY <1>5, <2>2, <2>3, <2>4, <2>5, <2>6, <2>7 DEF Quiet
  <2> QED BY <1>5, <2>8, QuietStep DEF NoNewId
<1>6. CASE orgs' = orgs /\ leagues' = leagues
  BY <1>6
<1> QED BY <1>1, <1>2, <1>3, <1>4, <1>5, <1>6, NextIsQuiet

(* Nothing is left half made but by a request that dies,                   *)
LEMMA OrphansStay ==
  ASSUME TypedInv, LeagueInv, LeagueInv', Grows, SetupNext, ~\E e \in Requests : Dies(e)
  PROVE  Orphans' \subseteq Orphans /\ OrphanOrgs' \subseteq OrphanOrgs
<1>1. Orphans' \subseteq Orphans
  <2> SUFFICES ASSUME NEW l \in Orphans' PROVE l \in Orphans
    OBVIOUS
  <2>1. l \in leagues' /\ ~Whole(l)' /\ \A e \in Requests : ~(Making(e)' /\ work'[e].league = l.id)
    BY DEF Orphans, Working
  <2>2. l.kind # "nhl"
    BY <2>1 DEF LeagueInv
  <2>3. l \in leagues
    BY <2>1, <2>2, SetUpRows
  <2>4. ~Whole(l)
    BY <2>1 DEF Whole, Grows
  <2>5. ASSUME NEW e \in Requests, Making(e), work[e].league = l.id PROVE FALSE
    <3>1. InsertRules(e) /\ work[e].year = LeagueYears
      BY <2>1, <2>5, Workers
    <3>2. ruled' = ruled \cup {SeasonRow(work[e].league, work[e].year)} /\ work[e] \in MakingWork
      BY <3>1 DEF InsertRules, TypedInv, WorkInv, Making
    <3>3. \A y \in 1..LeagueYears : y < work[e].year => SeasonRow(work[e].league, y) \in ruled
      BY <2>5 DEF LeagueInv, MadeInv
    <3>4. ASSUME NEW y \in 1..LeagueYears PROVE SeasonRow(l.id, y) \in ruled'
      <4>1. y < LeagueYears \/ y = LeagueYears
        BY SetupAssumption
      <4> QED BY <2>5, <3>1, <3>2, <3>3, <4>1
    <3> QED BY <2>1, <2>2, <3>4 DEF Whole, YearsOf
  <2> QED BY <2>3, <2>4, <2>5 DEF Orphans, Working
<1>2. OrphanOrgs' \subseteq OrphanOrgs
  <2> SUFFICES ASSUME NEW o \in OrphanOrgs' PROVE o \in OrphanOrgs
    OBVIOUS
  <2>1. o \in orgs' /\ o \notin staffed' /\ \A e \in Requests : stage'[e] = "member" => OrgOf[e] # o
    BY DEF OrphanOrgs
  <2>2. o \in orgs
    BY <2>1, SetUpRows
  <2>3. o \notin staffed
    BY <2>1 DEF Grows
  <2>4. \A e \in Requests : stage[e] = "member" => OrgOf[e] # o
    BY <2>1, Workers
  <2> QED BY <2>2, <2>3, <2>4 DEF OrphanOrgs
<1> QED BY <1>1, <1>2

(* A league that is not whole was made with a team.                        *)
LEMMA CustomLeague ==
  ASSUME TypedInv, LeagueInv, NEW l \in leagues, ~Whole(l)
  PROVE  l = League(l.id, "custom")
BY DEF TypedInv, SetupTypeOK, LeagueInv, LeagueRows, League

(* and by that one thing at most.                                          *)
LEMMA OneOrphanMore ==
  ASSUME TypedInv, LeagueInv, NEW e \in Requests, Dies(e)
  PROVE  \/ /\ \E l : Orphans' \subseteq Orphans \cup {l}
            /\ OrphanOrgs' \subseteq OrphanOrgs
         \/ /\ Orphans' \subseteq Orphans
            /\ \E o : OrphanOrgs' \subseteq OrphanOrgs \cup {o}
<1>1. /\ MoveTo(e, "idle", Nothing)
      /\ leagues' = leagues /\ ruled' = ruled /\ orgs' = orgs /\ staffed' = staffed
  BY DEF Dies, setupTables
<1>2. \A d \in Requests \ {e} : stage'[d] = stage[d] /\ work'[d] = work[d]
  BY <1>1, Moved DEF TypedInv
<1>3. ASSUME NEW l \in Orphans', l \notin Orphans
      PROVE  Making(e) /\ l = League(work[e].league, "custom")
  <2>1. l \in leagues /\ ~Whole(l) /\ \A d \in Requests : ~(Making(d)' /\ work'[d].league = l.id)
    BY <1>1 DEF Orphans, Working, Whole
  <2>2. PICK d \in Requests : Making(d) /\ work[d].league = l.id
    BY <1>3, <2>1 DEF Orphans, Working
  <2>3. d = e
    BY <1>2, <2>1, <2>2 DEF Making
  <2> QED BY <2>1, <2>2, <2>3, CustomLeague
<1>4. ASSUME NEW o \in OrphanOrgs', o \notin OrphanOrgs
      PROVE  stage[e] = "member" /\ o = OrgOf[e]
  BY <1>1, <1>2, <1>4 DEF OrphanOrgs
<1>5. CASE stage[e] = "member"
  <2>1. Orphans' \subseteq Orphans
    BY <1>3, <1>5 DEF Making
  <2>2. OrphanOrgs' \subseteq OrphanOrgs \cup {OrgOf[e]}
    BY <1>4
  <2> QED BY <2>1, <2>2
<1>6. CASE stage[e] # "member"
  <2>1. OrphanOrgs' \subseteq OrphanOrgs
    BY <1>4, <1>6
  <2> DEFINE l == League(work[e].league, "custom")
  <2>2. Orphans' \subseteq Orphans \cup {l}
    BY <1>3
  <2> HIDE DEF l
  <2> QED BY <2>1, <2>2
<1> QED BY <1>5, <1>6

(* A set that has grown by one at most.                                    *)
LEMMA OneMore ==
  ASSUME NEW S, IsFiniteSet(S), NEW T, NEW x, T \subseteq S \cup {x}
  PROVE  IsFiniteSet(T) /\ Cardinality(T) \in Nat /\ Cardinality(T) <= Cardinality(S) + 1
<1>1. IsFiniteSet(S \cup {x}) /\ Cardinality(S \cup {x}) \in Nat /\ Cardinality(S \cup {x}) <= Cardinality(S) + 1
  BY FS_AddElement, FS_CardinalityType
<1>2. IsFiniteSet(T) /\ Cardinality(T) <= Cardinality(S \cup {x})
  BY <1>1, FS_Subset
<1>3. Cardinality(T) \in Nat /\ Cardinality(S) \in Nat
  BY <1>2, FS_CardinalityType
<1> QED BY <1>1, <1>2, <1>3

(* So there are no more than requests that died.                           *)
LEMMA OrphansAreKept ==
  ASSUME TypedInv, LeagueInv, LeagueInv', Grows, OrphanInv, SetupNext, failures' \in Nat
  PROVE  OrphanInv'
<1>1. IsFiniteSet(leagues') /\ IsFiniteSet(orgs')
  BY SetUpRows DEF OrphanInv
<1>2. IsFiniteSet(Orphans) /\ IsFiniteSet(OrphanOrgs)
  <2>1. Orphans \subseteq leagues /\ OrphanOrgs \subseteq orgs
    BY DEF Orphans, OrphanOrgs
  <2> QED BY <2>1, FS_Subset DEF OrphanInv
<1>3. /\ Cardinality(Orphans) \in Nat /\ Cardinality(OrphanOrgs) \in Nat /\ failures \in Nat
      /\ Cardinality(Orphans) + Cardinality(OrphanOrgs) <= failures
  BY <1>2, FS_CardinalityType DEF OrphanInv, TypedInv
<1> DEFINE kept == Orphans' \subseteq Orphans
           orgsKept == OrphanOrgs' \subseteq OrphanOrgs
<1>4. /\ kept => Cardinality(Orphans') \in Nat /\ Cardinality(Orphans') <= Cardinality(Orphans)
      /\ orgsKept => Cardinality(OrphanOrgs') \in Nat /\ Cardinality(OrphanOrgs') <= Cardinality(OrphanOrgs)
  BY <1>2, FS_Subset, FS_CardinalityType
<1>5. CASE ~\E e \in Requests : Dies(e)
  <2>1. kept /\ orgsKept
    BY <1>5, OrphansStay
  <2>2. failures' = failures
    <3>1. ASSUME NEW e \in Requests, OfRequest(e) PROVE failures' = failures
      BY <1>5, <3>1 DEF OfRequest, CreateOrganization, InsertMember, CreateLeague, JoinLeague, InsertSeason,
                        InsertRules, InsertTeam, FetchRoster, EnsureNhlLeague, FindTeam, WritePlayers,
                        AbortPlayers, WriteRoster, CommitImport, Start, Proceed
    <3>2. ASSUME NEW o, NEW n, EditStatus(o, n, "injured_reserve") PROVE failures' = failures
      BY <3>2 DEF EditStatus
    <3>3. ASSUME NEW n, NEW club, Trade(n, club) PROVE failures' = failures
      BY <3>3 DEF Trade
    <3> QED BY <3>1, <3>2, <3>3, NextIsOfRequest
  <2> HIDE DEF kept, orgsKept
  <2>3. Cardinality(Orphans') + Cardinality(OrphanOrgs') <= failures'
    BY <1>3, <1>4, <2>1, <2>2
  <2> QED BY <1>1, <2>3 DEF OrphanInv
<1>6. ASSUME NEW e \in Requests, Dies(e)
      PROVE  OrphanInv'
  <2>1. failures' = failures + 1
    BY <1>6 DEF Dies
  <2>2. CASE (\E l : Orphans' \subseteq Orphans \cup {l}) /\ orgsKept
    <3>1. Cardinality(Orphans') \in Nat /\ Cardinality(Orphans') <= Cardinality(Orphans) + 1
      BY <1>2, <2>2, OneMore
    <3>2. Cardinality(Orphans') + Cardinality(OrphanOrgs') <= failures'
      BY <1>3, <1>4, <2>1, <2>2, <3>1
    <3> QED BY <1>1, <3>2 DEF OrphanInv
  <2>3. CASE kept /\ \E o : OrphanOrgs' \subseteq OrphanOrgs \cup {o}
    <3>1. Cardinality(OrphanOrgs') \in Nat /\ Cardinality(OrphanOrgs') <= Cardinality(OrphanOrgs) + 1
      BY <1>2, <2>3, OneMore
    <3>2. Cardinality(Orphans') + Cardinality(OrphanOrgs') <= failures'
      BY <1>3, <1>4, <2>1, <2>3, <3>1
    <3> QED BY <1>1, <3>2 DEF OrphanInv
  <2> QED BY <1>6, <2>2, <2>3, OneOrphanMore
<1> QED BY <1>5, <1>6

-----------------------------------------------------------------------------
(* The invariant.                                                          *)

(* The invariant holds to begin with.                                      *)
LEMMA SetupStarts ==
  ASSUME SetupInit
  PROVE  SetupInv
<1>1. \A e \in Requests : stage[e] = "idle"
  BY DEF SetupInit
<1>2. /\ serial \in BOOLEAN /\ orgs = {} /\ staffed = {} /\ leagues = {} /\ seasons = {} /\ ruled = {}
      /\ teams = {} /\ rosters = {} /\ begun = 0 /\ failures = 0
  BY SetupAssumption DEF SetupInit
<1>3. \A e \in Requests : ~Making(e) /\ ~Placing(e) /\ ~Transacting(e) /\ ~(stage[e] = "member")
  BY <1>1 DEF Making, Placing, Transacting
<1>4. TypedInv
  <2>1. players \in [Orgs -> [NhlPlayers -> PlayerRows \cup {Nothing}]]
    BY DEF SetupInit
  <2>2. SetupTypeOK
    BY <1>2, <2>1, SetupAssumption DEF SetupInit, SetupTypeOK
  <2>3. \A e \in Requests : WorkInv(e)
    BY <1>1, <1>3 DEF WorkInv
  <2> QED BY <1>2, <1>3, <2>2, <2>3, SetupAssumption DEF TypedInv
<1>5. IdInv
  BY <1>1, <1>2, <1>3 DEF IdInv
<1>6. LeagueInv
  BY <1>1, <1>2, <1>3 DEF LeagueInv, MadeInv
<1>7. SerialInv
  BY <1>2, <1>3 DEF SerialInv, AloneInv, NhlLeagues
<1>8. OrphanInv
  <2>1. Orphans = {} /\ OrphanOrgs = {}
    BY <1>2 DEF Orphans, OrphanOrgs
  <2> QED BY <1>2, <2>1, FS_EmptySet DEF OrphanInv
<1>9. MembersExist /\ \A e \in Requests : PlaceInv(e)
  BY <1>2, <1>3 DEF MembersExist, PlaceInv
<1> QED BY <1>4, <1>5, <1>6, <1>7, <1>8, <1>9 DEF SetupInv

(* Types are kept by every step,                                           *)
LEMMA TypesAreKept ==
  ASSUME TypedInv, LeagueInv, SetupNext
  PROVE  TypedInv'
<1>1. serial' = serial /\ \A e \in Requests : MadeInv(e)
  BY DEF SetupNext, LeagueInv
<1> QED BY <1>1, MakingKeepsTypes, ImportKeepsTypes, CommitKeepsTypes, OtherStepsKeepTypes DEF SetupNext

(* ids are,                                                                *)
LEMMA IdsAreKept ==
  ASSUME TypedInv, IdInv, LeagueInv, \A e \in Requests : PlaceInv(e), SetupNext
  PROVE  IdInv'
<1>1. \A e \in Requests : MadeInv(e)
  BY DEF LeagueInv
<1> QED BY <1>1, NextIsQuiet, QuietKeepsIds, CreateLeagueKeepsIds, InsertTeamKeepsIds, CommitKeepsIds

(* and leagues with their seasons and rules.                               *)
LEMMA LeaguesAreKept ==
  ASSUME TypedInv, IdInv, LeagueInv, SetupNext
  PROVE  LeagueInv' /\ Grows
BY MakingKeepsLeagues, EnsureKeepsLeagues, ImportKeepsLeagues, CommitKeepsLeagues, OtherStepsKeepLeagues
   DEF SetupNext

(* Every step keeps the invariant.                                         *)
LEMMA SetupStep ==
  ASSUME SetupInv, SetupNext
  PROVE  SetupInv'
<1>0. /\ TypedInv /\ IdInv /\ LeagueInv /\ SerialInv /\ OrphanInv /\ MembersExist
      /\ \A e \in Requests : PlaceInv(e)
  BY DEF SetupInv
<1>1. TypedInv'
  BY <1>0, TypesAreKept
<1>2. IdInv'
  BY <1>0, IdsAreKept
<1>3. LeagueInv' /\ Grows
  BY <1>0, LeaguesAreKept
<1>4. \A e \in Requests : PlaceInv(e)'
  <2>1. begun' \in Nat /\ begun' >= begun
    BY <1>3 DEF Grows
  <2> QED BY <1>0, <2>1, PlacesAreKept
<1>5. SerialInv'
  BY <1>0, SerialIsKept
<1>6. MembersExist'
  BY <1>0, MembersAreKept
<1>7. OrphanInv'
  <2>1. failures' \in Nat
    BY <1>1 DEF TypedInv
  <2> QED BY <1>0, <1>3, <2>1, OrphansAreKept
<1> QED BY <1>1, <1>2, <1>3, <1>4, <1>5, <1>6, <1>7 DEF SetupInv

(* So does one that changes nothing.                                       *)
LEMMA SetupStutters ==
  ASSUME SetupInv, UNCHANGED setupVars
  PROVE  SetupInv'
<1>1. UNCHANGED <<serial, orgs, staffed, leagues, seasons, ruled, teams, players, rosters, nhl, stage, work, begun,
                  failures>>
  BY DEF setupVars, setupTables
<1>2. TypedInv' /\ IdInv' /\ LeagueInv'
  BY <1>1 DEF SetupInv, TypedInv, SetupTypeOK, WorkInv, Making, Placing, IdInv, Unused, LeagueInv, IsThere, Whole,
              MadeInv, Transacting
<1>3. SerialInv'
  BY <1>1 DEF SetupInv, SerialInv, AloneInv, Transacting, Placing, NhlLeagues, HasId, ClubTeams
<1>4. OrphanInv'
  <2>1. Orphans' = Orphans /\ OrphanOrgs' = OrphanOrgs
    BY <1>1 DEF Orphans, OrphanOrgs, Working, Making, Whole
  <2> QED BY <1>1, <2>1 DEF SetupInv, OrphanInv
<1>5. MembersExist' /\ \A e \in Requests : PlaceInv(e)'
  BY <1>1 DEF SetupInv, MembersExist, PlaceInv, Placing, HasId
<1> QED BY <1>2, <1>3, <1>4, <1>5 DEF SetupInv

(* What requests have read and what the tables hold agree at every step of *)
(* any number of requests, on either database.                             *)
THEOREM SetupInvariant == SetupSpec => []SetupInv
<1>1. SetupInit => SetupInv
  BY SetupStarts
<1>2. SetupInv /\ [SetupNext]_setupVars => SetupInv'
  BY SetupStep, SetupStutters
<1> QED BY <1>1, <1>2, PTL DEF SetupSpec

-----------------------------------------------------------------------------
(* What it says.                                                           *)

(* The image of a finite set is finite and no larger.                      *)
LEMMA ImageIsSmaller ==
  ASSUME NEW S, IsFiniteSet(S), NEW T, NEW f \in [S -> T], \A t \in T : \E x \in S : f[x] = t
  PROVE  IsFiniteSet(T) /\ Cardinality(T) <= Cardinality(S)
<1>1. f \in Surjection(S, T)
  BY DEF Surjection
<1> QED BY <1>1, FS_Surjection

(* A set covered by two finite ones.                                       *)
LEMMA CoveredBy ==
  ASSUME NEW S, NEW A, NEW B, IsFiniteSet(A), IsFiniteSet(B), S \subseteq A \cup B
  PROVE  /\ IsFiniteSet(S) /\ Cardinality(S) \in Nat
         /\ Cardinality(S) <= Cardinality(A) + Cardinality(B)
<1>1. /\ IsFiniteSet(A \cup B)
      /\ Cardinality(A \cup B) = Cardinality(A) + Cardinality(B) - Cardinality(A \cap B)
  BY FS_Union
<1>2. IsFiniteSet(A \cap B)
  BY FS_Subset
<1>3. IsFiniteSet(S) /\ Cardinality(S) <= Cardinality(A \cup B)
  BY <1>1, FS_Subset
<1>4. /\ Cardinality(A) \in Nat /\ Cardinality(B) \in Nat /\ Cardinality(A \cap B) \in Nat
      /\ Cardinality(A \cup B) \in Nat /\ Cardinality(S) \in Nat
  BY <1>1, <1>2, <1>3, FS_CardinalityType
<1> QED BY <1>1, <1>3, <1>4

(* What is half made is worked on or orphaned.                             *)
LEMMA HalfMadeIsOrphaned ==
  ASSUME SetupInv
  PROVE  HalfMadePerFailure
<1> DEFINE half == {l \in leagues : ~Whole(l)}
           makers == {e \in Requests : Making(e)}
           joiners == {e \in Requests : stage[e] = "member"}
           made == [e \in makers |-> League(work[e].league, "custom")]
           named == [e \in joiners |-> OrgOf[e]]
<1>1. IsFiniteSet(makers) /\ IsFiniteSet(joiners)
  <2>1. makers \subseteq Requests /\ joiners \subseteq Requests /\ IsFiniteSet(Requests)
    BY SetupAssumption
  <2> HIDE DEF makers, joiners
  <2> QED BY <2>1, FS_Subset
<1>2. /\ IsFiniteSet({made[e] : e \in makers}) /\ Cardinality({made[e] : e \in makers}) <= Cardinality(makers)
      /\ IsFiniteSet({named[e] : e \in joiners})
      /\ Cardinality({named[e] : e \in joiners}) <= Cardinality(joiners)
  <2>1. made \in [makers -> {made[e] : e \in makers}] /\ named \in [joiners -> {named[e] : e \in joiners}]
    OBVIOUS
  <2> HIDE DEF makers, joiners, made, named
  <2>2. /\ \A t \in {made[e] : e \in makers} : \E x \in makers : made[x] = t
        /\ \A t \in {named[e] : e \in joiners} : \E x \in joiners : named[x] = t
    OBVIOUS
  <2> DEFINE M == {made[e] : e \in makers}
             J == {named[e] : e \in joiners}
  <2>3. /\ made \in [makers -> M] /\ \A t \in M : \E x \in makers : made[x] = t
        /\ named \in [joiners -> J] /\ \A t \in J : \E x \in joiners : named[x] = t
    BY <2>1, <2>2
  <2> HIDE DEF M, J
  <2>4. IsFiniteSet(M) /\ Cardinality(M) <= Cardinality(makers)
    BY <1>1, <2>3, ImageIsSmaller
  <2>5. IsFiniteSet(J) /\ Cardinality(J) <= Cardinality(joiners)
    BY <1>1, <2>3, ImageIsSmaller
  <2> QED BY <2>4, <2>5 DEF M, J
<1>3. half \subseteq Orphans \cup {made[e] : e \in makers}
  <2> SUFFICES ASSUME NEW l \in half, l \notin Orphans PROVE l \in {made[e] : e \in makers}
    OBVIOUS
  <2>1. PICK e \in Requests : Making(e) /\ work[e].league = l.id
    BY DEF Orphans, Working
  <2>2. l = League(l.id, "custom")
    BY CustomLeague DEF SetupInv
  <2> QED BY <2>1, <2>2
<1>4. orgs \ staffed \subseteq OrphanOrgs \cup {named[e] : e \in joiners}
  BY DEF OrphanOrgs
<1>5. IsFiniteSet(Orphans) /\ IsFiniteSet(OrphanOrgs)
  <2>1. Orphans \subseteq leagues /\ OrphanOrgs \subseteq orgs
    BY DEF Orphans, OrphanOrgs
  <2> QED BY <2>1, FS_Subset DEF SetupInv, OrphanInv
<1> DEFINE images == {made[e] : e \in makers}
           orgImages == {named[e] : e \in joiners}
<1>6. /\ Cardinality(half) \in Nat /\ Cardinality(half) <= Cardinality(Orphans) + Cardinality(images)
      /\ Cardinality(orgs \ staffed) \in Nat
      /\ Cardinality(orgs \ staffed) <= Cardinality(OrphanOrgs) + Cardinality(orgImages)
  <2> HIDE DEF half, images, orgImages
  <2> QED BY <1>2, <1>3, <1>4, <1>5, CoveredBy DEF images, orgImages
<1>7. Cardinality({e \in Requests : stage[e] \in {"member", "season", "rules"}})
        = Cardinality(makers) + Cardinality(joiners)
  <2>1. {e \in Requests : stage[e] \in {"member", "season", "rules"}} = makers \cup joiners
    BY DEF Making
  <2>2. makers \cap joiners = {}
    BY DEF Making
  <2> HIDE DEF makers, joiners
  <2>3. Cardinality(makers) \in Nat /\ Cardinality(joiners) \in Nat
    BY <1>1, FS_CardinalityType
  <2>4. Cardinality(makers \cup joiners) = Cardinality(makers) + Cardinality(joiners) - Cardinality({})
    BY <1>1, <2>2, FS_Union
  <2>5. Cardinality(makers \cup joiners) = Cardinality(makers) + Cardinality(joiners)
    BY <2>3, <2>4, FS_EmptySet
  <2> QED BY <2>1, <2>5, Zenon
<1>8. /\ Cardinality(Orphans) \in Nat /\ Cardinality(OrphanOrgs) \in Nat /\ failures \in Nat
      /\ Cardinality(images) \in Nat /\ Cardinality(orgImages) \in Nat
      /\ Cardinality(makers) \in Nat /\ Cardinality(joiners) \in Nat
      /\ Cardinality(Orphans) + Cardinality(OrphanOrgs) <= failures
  BY <1>1, <1>2, <1>5, FS_CardinalityType DEF SetupInv, OrphanInv, TypedInv
<1>9. Cardinality(images) <= Cardinality(makers) /\ Cardinality(orgImages) <= Cardinality(joiners)
  BY <1>2
<1> HIDE DEF half, makers, joiners, images, orgImages
<1>10. Cardinality(half) + Cardinality(orgs \ staffed) <= failures + (Cardinality(makers) + Cardinality(joiners))
  BY <1>6, <1>8, <1>9
<1> QED BY <1>7, <1>10 DEF HalfMadePerFailure, half

(* What requests leave behind, whatever they are and however they cross,   *)
(* fail and die: rows of their types, at most one half-made organization   *)
(* or league for each that died, on PGlite one NHL league, whole, and      *)
(* rosters of players on record.                                           *)
THEOREM SetUpWholeAlways == SetupSpec => []SetUpWhole
<1>1. SetupInv => SetUpWhole
  <2> SUFFICES ASSUME SetupInv PROVE SetUpWhole
    OBVIOUS
  <2>1. SetupTypeOK /\ MembersExist
    BY DEF SetupInv, TypedInv
  <2>2. OneNhlLeague
    BY DEF SetupInv, SerialInv, LeagueInv, OneNhlLeague, NhlLeagues
  <2> QED BY <2>1, <2>2, HalfMadeIsOrphaned DEF SetUpWhole
<1> QED BY <1>1, SetupInvariant, PTL

-----------------------------------------------------------------------------
(* What a step does to teams and players.                                  *)

(* Teams are written by InsertTeam and by imports.                         *)
LEMMA TeamsOfStep ==
  ASSUME TypedInv, SetupNext
  PROVE  \/ teams' = teams
         \/ \E e \in Requests : \/ InsertTeam(e) /\ teams \subseteq teams' /\ stage[e] = "insertTeam"
                                                 /\ Others(e)
                                \/ CommitImport(e)
<1>1. ASSUME NEW e \in Requests, InsertTeam(e)
      PROVE  teams \subseteq teams' /\ stage[e] = "insertTeam" /\ Others(e)
  BY <1>1, Proceeded DEF InsertTeam, Others, TypedInv
<1>2. ASSUME NEW e, NEW club, CreateLeague(e, club) PROVE teams' = teams
  BY <1>2 DEF CreateLeague
<1> QED BY <1>1, <1>2, NextIsQuiet, QuietStep DEF NoNewId

(* The team of an import is active when it commits.                        *)
LEMMA TeamIsLeft ==
  ASSUME SetupInv, serial, SetupNext, NEW o \in Orgs
  PROVE  TeamLeft(o)
<1> SUFFICES ASSUME NEW t \in teams, t.org = o, t.active
             PROVE  \E x \in teams' : x.org = o /\ x.active
  BY DEF TeamLeft
<1>1. ASSUME NEW e \in Requests, CommitImport(e)
      PROVE  \E x \in teams' : x.org = o /\ x.active
  <2> DEFINE u == work[e]
  <2>1. stage[e] = "commit" /\ teams' = {Shown(u, x) : x \in teams \cup {Placed(u)}}
    BY <1>1, Committed
  <2>2. Placing(e) /\ TypedInv /\ teams \subseteq TeamRows
    BY <2>1 DEF Placing, SetupInv, TypedInv, SetupTypeOK
  <2>3. /\ Placed(u) \in TeamRows /\ Placed(u).id = u.team.id
        /\ HasId(u.team.id) => Placed(u) \in teams
        /\ ~HasId(u.team.id) => Placed(u) = u.team
    BY <2>2, PlacedTeam
  <2>4. /\ u.team.org = OrgOf[e] /\ OrgOf[u.team.id[1]] = OrgOf[e]
        /\ u.team.id \notin u.hidden /\ \A h \in u.hidden : OrgOf[h[1]] = OrgOf[e]
    BY <2>2 DEF SetupInv, PlaceInv
  <2>5. /\ u.show = ~u.team.active
        /\ u.team \in teams \/ (u.team.active /\ ~HasId(u.team.id))
    BY <2>2 DEF SetupInv, SerialInv, AloneInv
  <2>6. /\ \A x \in teams : x.org = OrgOf[x.id[1]]
        /\ \A x, y \in teams : x.id = y.id => x = y
    BY DEF SetupInv, IdInv
  <2> HIDE DEF u
  <2>7. CASE o # OrgOf[e]
    <3>1. t.id \notin u.hidden
      BY <2>4, <2>6, <2>7
    <3>2. Shown(u, t).org = o /\ Shown(u, t).active
      BY <2>2, <3>1, ShownTeam
    <3>3. Shown(u, t) \in teams'
      BY <2>1
    <3> QED BY <3>2, <3>3
  <2>8. CASE o = OrgOf[e]
    <3>1. Placed(u).org = OrgOf[e]
      BY <2>3, <2>4, <2>6
    <3>2. u.show \/ Placed(u).active
      <4>1. CASE u.team \in teams
        BY <2>3, <2>5, <2>6, <4>1 DEF HasId
      <4>2. CASE u.team \notin teams
        BY <2>3, <2>5, <4>2
      <4> QED BY <4>1, <4>2
    <3>3. Shown(u, Placed(u)).org = o /\ Shown(u, Placed(u)).active
      <4>1. /\ Shown(u, Placed(u)).org = Placed(u).org
            /\ Shown(u, Placed(u)).active =
                 IF Placed(u).id \in u.hidden THEN FALSE
                 ELSE IF Placed(u).id = u.team.id /\ u.show THEN TRUE ELSE Placed(u).active
        BY <2>3, ShownTeam
      <4> QED BY <2>3, <2>4, <2>8, <3>1, <3>2, <4>1
    <3>4. Shown(u, Placed(u)) \in teams'
      BY <2>1
    <3> QED BY <3>3, <3>4
  <2> QED BY <2>7, <2>8
<1>2. CASE teams \subseteq teams'
  BY <1>2
<1> QED BY <1>1, <1>2, TeamsOfStep DEF SetupInv

(* Teams are finitely many, for so are the ids.                            *)
LEMMA FiniteTeams ==
  ASSUME TypedInv, IdInv
  PROVE  IsFiniteSet(teams)
<1> DEFINE f == [t \in teams |-> t.id]
<1>1. IsFiniteSet(Ids)
  <2>1. IsFiniteSet(1..MaxRequests) /\ IsFiniteSet(Requests)
    BY SetupAssumption, FS_Interval
  <2> QED BY <2>1, FS_Product DEF Ids
<1>2. f \in Injection(teams, Ids)
  <2>1. f \in [teams -> Ids]
    BY DEF TypedInv, SetupTypeOK, TeamRows
  <2>2. \A t, x \in teams : f[t] = f[x] => t = x
    BY DEF IdInv
  <2> HIDE DEF f
  <2> QED BY <2>1, <2>2 DEF Injection, IsInjective
<1> HIDE DEF f
<1> QED BY <1>1, <1>2, FS_Injection

(* Sets that correspond have as many elements.                             *)
LEMMA SameSize ==
  ASSUME NEW S, IsFiniteSet(S), NEW T, NEW f \in [S -> T],
         \A x, y \in S : f[x] = f[y] => x = y, \A t \in T : \E x \in S : f[x] = t
  PROVE  Cardinality(T) = Cardinality(S)
<1>1. f \in Bijection(S, T)
  BY DEF Bijection, Injection, Surjection, IsInjective
<1>2. ExistsBijection(S, T)
  BY <1>1 DEF ExistsBijection
<1> QED BY <1>2, FS_Bijection

(* Teams are shown and hidden one for one.                                 *)
LEMMA TeamIsOne ==
  ASSUME SetupInv, serial, SetupNext, NEW o \in Orgs, NEW c \in Clubs
  PROVE  OneTeamPerClub(o, c)
<1> DEFINE ofClub == {t \in teams : t.org = o /\ t.club = c}
           later == {t \in teams' : t.org = o /\ t.club = c}
<1> SUFFICES ASSUME ofClub # {}, NEW d \in Requests, stage[d] = "commit" /\ stage'[d] # "commit"
             PROVE  Cardinality(later) = Cardinality(ofClub)
  BY DEF OneTeamPerClub
<1>1. ASSUME teams' = teams PROVE Cardinality(later) = Cardinality(ofClub)
  <2>1. later = ofClub
    BY <1>1
  <2> HIDE DEF later, ofClub
  <2> QED BY <2>1
<1>2. ASSUME NEW e \in Requests, stage[e] = "insertTeam", Others(e) PROVE FALSE
  BY <1>2 DEF Others
<1>3. ASSUME NEW e \in Requests, CommitImport(e)
      PROVE  Cardinality(later) = Cardinality(ofClub)
  <2> DEFINE u == work[e]
             f == [t \in ofClub |-> Shown(u, t)]
  <2>1. stage[e] = "commit" /\ teams' = {Shown(u, x) : x \in teams \cup {Placed(u)}}
    BY <1>3, Committed
  <2>2. Placing(e) /\ TypedInv /\ teams \subseteq TeamRows
    BY <2>1 DEF Placing, SetupInv, TypedInv, SetupTypeOK
  <2>3. /\ Placed(u) \in TeamRows /\ Placed(u).id = u.team.id
        /\ HasId(u.team.id) => Placed(u) \in teams
        /\ ~HasId(u.team.id) => Placed(u) = u.team
    BY <2>2, PlacedTeam
  <2>4. u.team.org = OrgOf[e] /\ u.team.club = u.club
    BY <2>2 DEF SetupInv, PlaceInv
  <2>5. u.team \in teams \/ (~HasId(u.team.id) /\ {t \in teams : t.org = OrgOf[e] /\ t.club = u.club} = {})
    BY <2>2 DEF SetupInv, SerialInv, AloneInv, ClubTeams
  <2>6. \A x, y \in teams : x.id = y.id => x = y
    BY DEF SetupInv, IdInv
  <2> HIDE DEF u
  <2>7. Placed(u) \in teams \/ ~(Placed(u).org = o /\ Placed(u).club = c)
    BY <2>3, <2>4, <2>5 DEF HasId
  <2>8. \A t \in teams \cup {Placed(u)} :
          Shown(u, t).id = t.id /\ Shown(u, t).org = t.org /\ Shown(u, t).club = t.club
    <3>1. \A t \in teams \cup {Placed(u)} : t \in TeamRows
      BY <2>2, <2>3
    <3> QED BY <3>1, ShownTeam
  <2>9. f \in [ofClub -> later]
    <3>1. \A t \in ofClub : Shown(u, t) \in later
      BY <2>1, <2>8
    <3> HIDE DEF ofClub, later
    <3> QED BY <3>1
  <2>10. \A x, y \in ofClub : f[x] = f[y] => x = y
    BY <2>6, <2>8
  <2>11. \A t \in later : \E x \in ofClub : f[x] = t
    <3> TAKE t \in later
    <3>1. PICK x \in teams \cup {Placed(u)} : t = Shown(u, x)
      BY <2>1
    <3>2. x.org = o /\ x.club = c
      BY <2>8, <3>1
    <3>3. x \in ofClub
      BY <2>7, <3>2
    <3> QED BY <3>1, <3>3
  <2>12. IsFiniteSet(ofClub)
    <3>1. IsFiniteSet(teams) /\ ofClub \subseteq teams
      BY FiniteTeams DEF SetupInv
    <3> HIDE DEF ofClub
    <3> QED BY <3>1, FS_Subset
  <2> HIDE DEF f, ofClub, later
  <2> QED BY <2>9, <2>10, <2>11, <2>12, SameSize
<1> HIDE DEF ofClub, later
<1> QED BY <1>1, <1>2, <1>3, TeamsOfStep DEF SetupInv

(* A record refreshed keeps its status.                                    *)
LEMMA StatusIsKept ==
  ASSUME SetupInv, SetupNext, NEW o \in Orgs, NEW n \in NhlPlayers
  PROVE  StatusKept(o, n)
<1>1. CASE players' = players
  BY <1>1 DEF StatusKept
<1>2. ASSUME NEW e \in Requests, CommitImport(e) PROVE StatusKept(o, n)
  BY <1>2, CommitKeepsPlayers DEF StatusKept, SetupInv
<1>3. ASSUME NEW p, NEW m, EditStatus(p, m, "injured_reserve") PROVE StatusKept(o, n)
  BY <1>3 DEF EditStatus, StatusKept
<1> QED BY <1>1, <1>2, <1>3, PlayersOfStep

(* On PGlite no import makes a second team of a club or leaves an          *)
(* organization without one, and on either database no request changes a   *)
(* status on record, whatever crosses it.                                  *)
THEOREM SetupKeepsAll == SetupSpec => SetupKept
<1> DEFINE Kept == \A o \in Orgs :
                     /\ serial => TeamLeft(o) /\ \A c \in Clubs : OneTeamPerClub(o, c)
                     /\ \A n \in NhlPlayers : StatusKept(o, n)
<1>1. SetupInv /\ [SetupNext]_setupVars => [Kept]_setupVars
  BY TeamIsLeft, TeamIsOne, StatusIsKept
<1>2. SetupSpec => [][Kept]_setupVars
  BY <1>1, SetupInvariant, PTL DEF SetupSpec
<1> QED BY <1>2 DEF SetupKept
=============================================================================
