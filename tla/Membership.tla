----------------------------- MODULE Membership -----------------------------
(***************************************************************************)
(* The members of one organization: invited, joining, promoted, removed    *)
(* (inviteService.ts, inviteActions.ts, auth.ts, context.ts).              *)
(*                                                                         *)
(* A request is one server action; its statements interleave with those of *)
(* the others.  acceptInvite is the only one that runs a transaction: it   *)
(* reads the invite and the members, claims a use of the invite, which     *)
(* locks the invite's row, and inserts the member.  exclusive tells the    *)
(* embedded PGlite, where a transaction keeps every other statement out,   *)
(* from Postgres at READ COMMITTED.                                        *)
(***************************************************************************)
EXTENDS Billing, FiniteSets, Roles

CONSTANTS
  Users,        \* people, each with one email address
  Invites,      \* ids of invites
  AdminSlots,   \* admin requests at work at one time
  JoinSlots,    \* accept and register requests at work at one time
  Databases,    \* the values of exclusive to run with
  InviteOnly,   \* REGISTRATION_MODE=invite_only
  Offers,       \* the invites an admin may ask for
  NewRoles,     \* the roles an admin may ask to give a member
  FirstRoles,   \* FirstRoles[u]: u's role to begin with, None if not a member
  Accounts,     \* the users who have an account to begin with
  MaxRows       \* bound: member rows ever inserted

AllOffers == [role : OrgRoles, email : Users \cup {None}, maxUses : 1..25]
InviteRows == [offer : AllOffers, uses : Nat, revoked : BOOLEAN, expired : BOOLEAN]
MemberRows == [id : Nat, user : Users, role : OrgRoles]
Slots == AdminSlots \cup JoinSlots

ASSUME NoneAssumption == None \notin Users \cup Invites \cup OrgRoles \cup InviteRows
ASSUME SlotsAssumption == AdminSlots \cap JoinSlots = {}
ASSUME OffersAssumption == Offers \subseteq AllOffers
ASSUME UsersAssumption == IsFiniteSet(Users) /\ Accounts \subseteq Users
ASSUME DatabasesAssumption == Databases \subseteq BOOLEAN
ASSUME RolesAssumption == NewRoles \subseteq OrgRoles /\ FirstRoles \in [Users -> OrgRoles \cup {None}]

VARIABLES
  exclusive,  \* does a transaction exclude other statements?
  accounts,   \* the users with an account
  members,    \* the rows of organization_members
  born,       \* how many such rows were ever inserted
  invites,    \* the rows of organization_invites, None where there is none
  joined,     \* the "invite.accept" rows of the audit log
  pc,         \* where each request stands
  task        \* what each request has read and goes on with

memberVars == <<exclusive, accounts, members, born, invites, joined, pc, task>>
vars == <<billingVars, memberVars>>

FirstMembers ==
  {u \in Users : FirstRoles[u] # None}

Init ==
  /\ BillingInit
  /\ exclusive \in Databases
  /\ accounts = Accounts
  /\ born = Cardinality(FirstMembers)
  /\ \E number \in [FirstMembers -> 1..born] :
       /\ \A u, w \in FirstMembers : number[u] = number[w] => u = w
       /\ members = {[id |-> number[u], user |-> u, role |-> FirstRoles[u]] : u \in FirstMembers}
  /\ invites = [i \in Invites |-> None]
  /\ joined = {}
  /\ pc = [r \in Slots |-> "idle"]
  /\ task = [r \in Slots |-> None]

-----------------------------------------------------------------------------
(* The database.                                                           *)

InTransaction(r) == pc[r] \in {"reading", "claimed"}
MayRun(r) == exclusive => \A q \in Slots \ {r} : ~InTransaction(q)
MayRunAlone == exclusive => \A q \in Slots : ~InTransaction(q)
InviteLocked(i, r) == \E q \in Slots \ {r} : pc[q] = "claimed" /\ task[q].invite = i

Goto(r, label, data) ==
  /\ pc' = [pc EXCEPT ![r] = label]
  /\ task' = [task EXCEPT ![r] = data]

Finish(r) == Goto(r, "idle", None)

-----------------------------------------------------------------------------
(* Admins.                                                                 *)

(* Fault: only the tier is compared.                                       *)
CanGrant_TierOnly(actor, role) == RoleTier[role] <= RoleTier[actor]

CanGrant(actor, role) ==
  /\ role = "league_admin" => actor = "league_admin"
  /\ RoleTier[role] <= RoleTier[actor]

(* requireOrgAccess(organization, "admin"): the role is read here, once.   *)
Authorize(r, m) ==
  /\ pc[r] = "idle"
  /\ MayRun(r)
  /\ RoleTier[m.role] >= RoleTier["org_admin"]
  /\ Goto(r, "authorized", m.role)
  /\ UNCHANGED <<billingVars, exclusive, accounts, members, born, invites, joined>>

CreateInvite(r, i, offer) ==
  /\ pc[r] = "authorized"
  /\ MayRun(r)
  /\ invites[i] = None
  /\ CanGrant(task[r], offer.role)
  /\ invites' = [invites EXCEPT ![i] =
                   [offer |-> offer, uses |-> 0, revoked |-> FALSE, expired |-> FALSE]]
  /\ Finish(r)
  /\ UNCHANGED <<billingVars, exclusive, accounts, members, born, joined>>

RevokeInvite(r, i) ==
  /\ pc[r] = "authorized"
  /\ MayRun(r)
  /\ invites[i] # None
  /\ ~InviteLocked(i, r)
  /\ ~invites[i].revoked
  /\ invites' = [invites EXCEPT ![i].revoked = TRUE]
  /\ Finish(r)
  /\ UNCHANGED <<billingVars, exclusive, accounts, members, born, joined>>

Admins == {m \in members : m.role = "org_admin"}

(* Fault: off by one.                                                      *)
LastAdmin_OffByOne(m) == m.role = "org_admin" /\ Cardinality(Admins) < 1

LastAdmin(m) == m.role = "org_admin" /\ Cardinality(Admins) <= 1

(* changeMemberRole and removeMember: the checks ...                       *)
CheckRole(r, m, role) ==
  /\ pc[r] = "authorized"
  /\ MayRun(r)
  /\ CanGrant(task[r], role)
  /\ RoleTier[m.role] <= RoleTier[task[r]]
  /\ role # "org_admin" => ~LastAdmin(m)
  /\ Goto(r, "changing", [member |-> m.id, role |-> role])
  /\ UNCHANGED <<billingVars, exclusive, accounts, members, born, invites, joined>>

CheckRemoval(r, m) ==
  /\ pc[r] = "authorized"
  /\ MayRun(r)
  /\ RoleTier[m.role] <= RoleTier[task[r]]
  /\ ~LastAdmin(m)
  /\ Goto(r, "removing", [member |-> m.id])
  /\ UNCHANGED <<billingVars, exclusive, accounts, members, born, invites, joined>>

(* ... and then the write, by the row's id alone.                          *)
WriteRole(r) ==
  /\ pc[r] = "changing"
  /\ MayRun(r)
  /\ members' = {IF m.id = task[r].member THEN [m EXCEPT !.role = task[r].role] ELSE m : m \in members}
  /\ Finish(r)
  /\ UNCHANGED <<billingVars, exclusive, accounts, born, invites, joined>>

WriteRemoval(r) ==
  /\ pc[r] = "removing"
  /\ MayRun(r)
  /\ members' = {m \in members : m.id # task[r].member}
  /\ Finish(r)
  /\ UNCHANGED <<billingVars, exclusive, accounts, born, invites, joined>>

-----------------------------------------------------------------------------
(* People who join.                                                        *)

Works(i) == invites[i] # None /\ ~invites[i].revoked /\ ~invites[i].expired
IsFor(i, u) == invites[i].offer.email \in {None, u}

(* registerAction: lookupInvite, or canRegisterWithoutInvite without an    *)
(* invite link; no account has the address ...                             *)
Admit(r, u, i) ==
  /\ pc[r] = "idle"
  /\ MayRun(r)
  /\ IF i = None
     THEN InviteOnly => accounts = {}
     ELSE Works(i) /\ invites[i].uses < invites[i].offer.maxUses /\ IsFor(i, u)
  /\ u \notin accounts
  /\ Goto(r, "admitted", [user |-> u, invite |-> i])
  /\ UNCHANGED <<billingVars, exclusive, accounts, members, born, invites, joined>>

(* ... then the account is inserted, unless another has taken the address. *)
Register(r) ==
  /\ pc[r] = "admitted"
  /\ MayRun(r)
  /\ accounts' = accounts \cup {task[r].user}
  /\ IF task[r].invite = None \/ task[r].user \in accounts
     THEN Finish(r)
     ELSE Goto(r, "registered", task[r])
  /\ UNCHANGED <<billingVars, exclusive, members, born, invites, joined>>

IsMember(u) == \E m \in members : m.user = u

(* Fault: a subscription's seats count though it is no longer paid.        *)
HasSeat_Unpaid ==
  Cardinality(members) < IF subscription # None THEN subscription.seats ELSE FreeSeats

HasSeat == Cardinality(members) < SeatLimit

(* acceptInvite, the reads of its transaction; by someone signed in or by  *)
(* someone who has just registered with the link.                          *)
AcceptRead(r, u, i) ==
  /\ \/ pc[r] = "idle" /\ u \in accounts
     \/ pc[r] = "registered" /\ task[r] = [user |-> u, invite |-> i]
  /\ MayRun(r)
  /\ Works(i)
  /\ IsFor(i, u)
  /\ ~IsMember(u)
  /\ HasSeat
  /\ Goto(r, "reading", [user |-> u, invite |-> i])
  /\ UNCHANGED <<billingVars, exclusive, accounts, members, born, invites, joined>>

(* Fault: whether the invite was revoked is not asked again.               *)
Claim_Revoked(r) ==
  /\ pc[r] = "reading"
  /\ MayRun(r)
  /\ ~InviteLocked(task[r].invite, r)
  /\ invites[task[r].invite].uses < invites[task[r].invite].offer.maxUses
  /\ Goto(r, "claimed", task[r])
  /\ UNCHANGED <<billingVars, exclusive, accounts, members, born, invites, joined>>

(* Fault: the uses are counted when they are read, not when claimed.       *)
Claim_Uncounted(r) ==
  /\ pc[r] = "reading"
  /\ MayRun(r)
  /\ ~InviteLocked(task[r].invite, r)
  /\ ~invites[task[r].invite].revoked
  /\ Goto(r, "claimed", task[r])
  /\ UNCHANGED <<billingVars, exclusive, accounts, members, born, invites, joined>>

(* The conditional update; it waits for another claim of the invite, and   *)
(* the row it updates stays locked until the transaction ends.             *)
Claim(r) ==
  /\ pc[r] = "reading"
  /\ MayRun(r)
  /\ ~InviteLocked(task[r].invite, r)
  /\ invites[task[r].invite].uses < invites[task[r].invite].offer.maxUses
  /\ ~invites[task[r].invite].revoked
  /\ Goto(r, "claimed", task[r])
  /\ UNCHANGED <<billingVars, exclusive, accounts, members, born, invites, joined>>

(* Fault: no unique index on the organization and the user.                *)
MayInsert_Twice(u) == TRUE

(* The unique index org_member_unique.                                     *)
MayInsert(u) == ~IsMember(u)

(* The member and the audit row are inserted and the transaction commits,  *)
(* the claimed use with it.                                                *)
Join(r) ==
  LET i == task[r].invite
  IN  /\ pc[r] = "claimed"
      /\ MayRun(r)
      /\ MayInsert(task[r].user)
      /\ born < MaxRows
      /\ born' = born + 1
      /\ members' = members \cup
           {[id |-> born', user |-> task[r].user, role |-> invites[i].offer.role]}
      /\ invites' = [invites EXCEPT ![i].uses = @ + 1]
      /\ joined' = joined \cup {[row |-> born', user |-> task[r].user, invite |-> i]}
      /\ Finish(r)
      /\ UNCHANGED <<billingVars, exclusive, accounts>>

(* A refusal, an error or a crash: an open transaction is rolled back.     *)
Abort(r) ==
  /\ pc[r] # "idle"
  /\ Finish(r)
  /\ UNCHANGED <<billingVars, exclusive, accounts, members, born, invites, joined>>

Expire(i) ==
  /\ invites[i] # None
  /\ ~invites[i].expired
  /\ invites' = [invites EXCEPT ![i].expired = TRUE]
  /\ UNCHANGED <<billingVars, exclusive, accounts, members, born, joined, pc, task>>

-----------------------------------------------------------------------------
AdminStep(r) ==
  \/ \E m \in members : Authorize(r, m) \/ CheckRemoval(r, m)
  \/ \E m \in members, role \in NewRoles : CheckRole(r, m, role)
  \/ \E i \in Invites, offer \in Offers : CreateInvite(r, i, offer)
  \/ \E i \in Invites : RevokeInvite(r, i)
  \/ WriteRole(r) \/ WriteRemoval(r)

JoinStep(r) ==
  \/ \E u \in Users, i \in Invites \cup {None} : Admit(r, u, i)
  \/ \E u \in Users, i \in Invites : AcceptRead(r, u, i)
  \/ Register(r) \/ Claim(r) \/ Join(r)

BillingStep ==
  /\ MayRunAlone
  /\ \E h \in Handlers : Store(h) \/ \E e \in Events : Receive(h, e)
  /\ UNCHANGED memberVars

Next ==
  \/ \E r \in AdminSlots : AdminStep(r)
  \/ \E r \in JoinSlots : JoinStep(r)
  \/ \E r \in Slots : Abort(r)
  \/ \E i \in Invites : Expire(i)
  \/ BillingStep

Spec == Init /\ [][Next]_vars

-----------------------------------------------------------------------------
AdminLabels == {"authorized", "changing", "removing"}
JoinLabels == {"admitted", "registered", "reading", "claimed"}

(* What a request holds while it stands at a label.                        *)
TasksAt(label) ==
  CASE label = "authorized" -> OrgRoles
    [] label = "changing" -> [member : Nat, role : OrgRoles]
    [] label = "removing" -> [member : Nat]
    [] label = "admitted" -> [user : Users, invite : Invites \cup {None}]
    [] label \in {"registered", "reading", "claimed"} -> [user : Users, invite : Invites]

TypeOK ==
  /\ exclusive \in BOOLEAN
  /\ accounts \subseteq Users
  /\ members \subseteq MemberRows
  /\ born \in Nat
  /\ invites \in [Invites -> InviteRows \cup {None}]
  /\ joined \subseteq [row : Nat, user : Users, invite : Invites]
  /\ pc \in [Slots -> {"idle"} \cup AdminLabels \cup JoinLabels]
  /\ \A r \in Slots : pc[r] # "idle" => task[r] \in TasksAt(pc[r])
  /\ subscription \in Subscriptions \cup {None}
  /\ handling \in [Handlers -> Events \cup {None}]

(* Every use an invite shows is one person it let in, never more people    *)
(* than it was made for and never someone it was not for: a claim whose    *)
(* insert fails gives its use back, and the last use is not had twice.     *)
UsesAreJoins ==
  \A i \in Invites :
    LET through == {j \in joined : j.invite = i}
    IN  IF invites[i] = None
        THEN through = {}
        ELSE /\ Cardinality(through) = invites[i].uses
             /\ invites[i].uses <= invites[i].offer.maxUses
             /\ \A j \in through : IsFor(i, j.user)

(* Once an invite is revoked nobody joins with it, though they may have    *)
(* found it valid before.                                                  *)
RevokedAdmitsNobody ==
  [][\A j \in joined' \ joined : ~invites[j.invite].revoked]_vars

(* Nobody is a member twice, though two invites are accepted at a time.    *)
OneMembership == \A m, n \in members : m.user = n.user => m = n

(* Who is in came by an invite that counted it, and came once.             *)
JoinsCounted == UsesAreJoins /\ OneMembership

(* "An organization always keeps at least one org_admin", whatever admins  *)
(* do to the others and to themselves: so it is while one admin is at work *)
(* at a time, and two at a time can lose the last one.                     *)
KeepsAnAdmin == Admins # {}

(* "league_admin only by a league_admin": in an organization that has none *)
(* nobody becomes one, by an invite, a promotion or a role read earlier.   *)
NoLeagueAdmin ==
  "league_admin" \notin {FirstRoles[u] : u \in Users} =>
    /\ \A m \in members : m.role # "league_admin"
    /\ \A i \in Invites : invites[i] # None => invites[i].offer.role # "league_admin"

(* On the embedded database nobody joins an organization whose seats, as   *)
(* the last billing event left them, are all in use.                       *)
JoinWithinSeats ==
  [][exclusive /\ joined' # joined => Cardinality(members) < SeatLimit]_vars

(* "Events older than the stored state are skipped": with one event        *)
(* handled at a time the stored state never becomes an older one, however  *)
(* late and however often events are delivered.                            *)
NeverOlder ==
  [][subscription # None => subscription'.updatedAt >= subscription.updatedAt]_vars

(* So seats follow the billing: those that joins are held to are those of  *)
(* the newest event applied, though events come late or twice.             *)
SeatsFollowBilling == JoinWithinSeats /\ NeverOlder
=============================================================================
