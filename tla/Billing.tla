------------------------------ MODULE Billing ------------------------------
(***************************************************************************)
(* An organization's subscription, kept in step with Stripe by the webhook *)
(* (billingService.ts).  Stripe delivers the events of a subscription in   *)
(* any order and as often as it likes.  A handler reads the stored state,  *)
(* skips an event older than it, and stores the event otherwise: two       *)
(* statements, between which other handlers run.  Only what the seat limit *)
(* depends on is kept of a subscription.                                   *)
(***************************************************************************)
EXTENDS Integers

CONSTANTS
  None,
  Handlers,     \* webhook requests at work at one time
  Events,       \* the subscription events Stripe may deliver
  FreeSeats     \* the seats of the free plan

PaidStatuses == {"active", "trialing", "past_due"}
SubscriptionStatuses == PaidStatuses \cup {"canceled", "unpaid", "incomplete"}
EventTypes == {"created", "updated", "deleted"}
AllEvents == [type : EventTypes, status : SubscriptionStatuses, seats : Nat, created : Nat]

ASSUME FreeSeatsAssumption == FreeSeats \in Nat
ASSUME EventsAssumption == Events \subseteq AllEvents

VARIABLES
  subscription,   \* the stored state, None before the first event
  handling        \* handling[h]: the event h has found fresh and will store

billingVars == <<subscription, handling>>

Subscriptions == [status : SubscriptionStatuses, seats : Nat, updatedAt : Nat]

BillingInit ==
  /\ subscription = None
  /\ handling = [h \in Handlers |-> None]

(* Fault: the guard lets only the newer of two states be skipped.          *)
Stale_Inverted(e) == subscription # None /\ subscription.updatedAt < e.created

Stale(e) == subscription # None /\ subscription.updatedAt > e.created

(* applyStripeEvent up to its read of the stored state.                    *)
Receive(h, e) ==
  /\ handling[h] = None
  /\ ~Stale(e)
  /\ handling' = [handling EXCEPT ![h] = e]
  /\ UNCHANGED subscription

(* Fault: the event's type is taken for the status.                        *)
StateOf_Type(e) == [status |-> e.type, seats |-> e.seats, updatedAt |-> e.created]

StateOf(e) ==
  [status |-> IF e.type = "deleted" THEN "canceled" ELSE e.status,
   seats |-> e.seats, updatedAt |-> e.created]

(* ... and its upsert, which looks at nothing.                             *)
Store(h) ==
  /\ handling[h] # None
  /\ subscription' = StateOf(handling[h])
  /\ handling' = [handling EXCEPT ![h] = None]

Paid(sub) == sub # None /\ sub.status \in PaidStatuses

SeatLimit == IF Paid(subscription) THEN subscription.seats ELSE FreeSeats
=============================================================================
