------------------------------- MODULE Billing -------------------------------
(***************************************************************************)
(* Entitlements: billing.py and the webhook of api/billing.py.  A          *)
(* principal subscribes at Stripe as often as it likes; each change of a   *)
(* subscription makes an event that carries the state it has then; events  *)
(* are delivered until they are acknowledged, hence at least once and in   *)
(* any order; each delivery is applied to the row of its principal as if   *)
(* it were the latest.  The webhook handler is an async function without   *)
(* an await after its first line, so deliveries are applied one at a time. *)
(*                                                                         *)
(* Stripe itself is modelled from what apply_stripe_event reads.           *)
(***************************************************************************)
EXTENDS Naturals, FiniteSets

CONSTANTS
    Subscriptions,
    Principals,
    principalOf,  \* who buys each subscription
    MaxEvents,    \* bound: events ever made
    MaxRepeats    \* bound: deliveries whose acknowledgement is lost

ASSUME PrincipalsAssumption == principalOf \in [Subscriptions -> Principals]
ASSUME BillingBoundsAssumption == MaxEvents \in Nat /\ MaxRepeats \in Nat

VARIABLES
    subscription, \* at Stripe: the status of each
    mail,         \* events not acknowledged yet
    events,       \* how many events were made
    entitlement,  \* billing_entitlements: the row of each principal
    newest,       \* history: the number of the latest event about a principal
    reflected,    \* history: the number of the event its row was written from
    doubled,      \* history: principals with two subscriptions at once
    repeats       \* bound used so far

billingVars == <<subscription, mail, events, entitlement, newest, reflected, doubled, repeats>>

-----------------------------------------------------------------------------

Statuses == {"none", "incomplete", "trialing", "active", "past_due", "canceled"}

(* What Stripe counts as paid for.                                         *)
Paying == {"trialing", "active"}

Kinds == {"completed", "changed", "deleted"}

Events == [number : 1..MaxEvents, kind : Kinds, about : Subscriptions, status : Statuses]

EntitlementRows == [plan : {"community", "professional"}, status : Statuses]

(* What get() answers where there is no row.                               *)
NoEntitlement == [plan |-> "community", status |-> "active"]

BillingInit ==
    /\ subscription = [s \in Subscriptions |-> "none"]
    /\ mail = {}
    /\ events = 0
    /\ entitlement = [k \in Principals |-> NoEntitlement]
    /\ newest = [k \in Principals |-> 0]
    /\ reflected = [k \in Principals |-> 0]
    /\ doubled = {}
    /\ repeats = 0

-----------------------------------------------------------------------------
(* Stripe.                                                                 *)

SubscriptionsOf(k) == {s \in Subscriptions : principalOf[s] = k}

Underwritten(k) == {s \in SubscriptionsOf(k) : subscription[s] \notin {"none", "canceled"}}

Becomes(s, status, kinds) ==
    LET k == principalOf[s]
        last == events + Cardinality(kinds)
    IN  /\ last <= MaxEvents
        /\ subscription' = [subscription EXCEPT ![s] = status]
        /\ events' = last
        /\ newest' = [newest EXCEPT ![k] = last]
        /\ \E order \in [kinds -> events + 1..last] :
              /\ \A x, y \in kinds : x # y => order[x] # order[y]
              /\ mail' = mail \cup {[number |-> order[x], kind |-> x, about |-> s, status |-> status] :
                                        x \in kinds}
        /\ UNCHANGED <<entitlement, reflected, repeats>>

(* POST /checkout, which asks for no subscription that is there already.   *)
Subscribe(s) ==
    /\ subscription[s] = "none"
    /\ Becomes(s, "incomplete", {"changed"})
    /\ doubled' = IF Underwritten(principalOf[s]) = {} THEN doubled
                     ELSE doubled \cup {principalOf[s]}

(* The checkout session is completed.                                      *)
Complete(s) ==
    /\ subscription[s] = "incomplete"
    /\ \E status \in Paying : Becomes(s, status, {"changed", "completed"})
    /\ UNCHANGED doubled

Change(s) ==
    /\ \/ subscription[s] \in Paying /\ Becomes(s, "past_due", {"changed"})
       \/ subscription[s] \in {"trialing", "past_due"} /\ Becomes(s, "active", {"changed"})
    /\ UNCHANGED doubled

Cancel(s) ==
    /\ s \in Underwritten(principalOf[s])
    /\ Becomes(s, "canceled", {"deleted"})
    /\ UNCHANGED doubled

-----------------------------------------------------------------------------
(* apply_stripe_event, for an event with the principal in its metadata.    *)

(* Variant: a subscription that is not deleted is taken to be active.      *)
AppliedAsActive(event) ==
    IF event.kind = "deleted" THEN [plan |-> "community", status |-> "canceled"]
                              ELSE [plan |-> "professional", status |-> "active"]

Applied(event) ==
    CASE event.kind = "completed" -> [plan |-> "professional", status |-> "active"]
      [] event.kind = "changed"   -> [plan |-> "professional", status |-> event.status]
      [] event.kind = "deleted"   -> [plan |-> "community", status |-> "canceled"]

Deliver(event) ==
    LET k == principalOf[event.about]
    IN  /\ event \in mail
        /\ entitlement' = [entitlement EXCEPT ![k] = Applied(event)]
        /\ reflected' = [reflected EXCEPT ![k] = event.number]
        /\ \/ mail' = mail \ {event} /\ UNCHANGED repeats
           \/ repeats < MaxRepeats /\ repeats' = repeats + 1 /\ UNCHANGED mail
        /\ UNCHANGED <<subscription, events, newest, doubled>>

-----------------------------------------------------------------------------

BillingNext ==
    \/ \E s \in Subscriptions : Subscribe(s) \/ Complete(s) \/ Change(s) \/ Cancel(s)
    \/ \E event \in mail : Deliver(event)

BillingSpec == BillingInit /\ [][BillingNext]_billingVars

-----------------------------------------------------------------------------

(* Entitlement.active, for a plan that is bought; without it a principal   *)
(* is let in where billing is optional only.                               *)
Entitled(k) ==
    /\ entitlement[k].plan = "professional"
    /\ entitlement[k].status \in {"active", "trialing"}

Paid(k) == \E s \in SubscriptionsOf(k) : subscription[s] \in Paying

BillingTypeOK ==
    /\ subscription \in [Subscriptions -> Statuses]
    /\ mail \subseteq Events
    /\ events \in 0..MaxEvents
    /\ entitlement \in [Principals -> EntitlementRows]
    /\ newest \in [Principals -> 0..MaxEvents]
    /\ reflected \in [Principals -> 0..MaxEvents]
    /\ doubled \subseteq Principals
    /\ repeats \in 0..MaxRepeats

(* However the deliveries to the webhook (api/billing.py) were repeated,   *)
(* delayed and mixed up before, once the latest event about a principal is *)
(* the last that apply_stripe_event (billing.py) applied,                  *)
(* _paid_entitlement lets in who pays and nobody else, unless the          *)
(* principal held two subscriptions at once.                               *)
EntitledAsPaid ==
    \A k \in Principals \ doubled : reflected[k] = newest[k] => (Entitled(k) <=> Paid(k))
=============================================================================
