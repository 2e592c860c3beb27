------------------------------- MODULE Billing -------------------------------
(***************************************************************************)
(* The plan of a workspace: checkout, and the webhook that Stripe tells    *)
(* about subscriptions (backend/main.py).  The plan decides whether the    *)
(* paywall lets the workspace spend (backend/billing_gate.py).             *)
(*                                                                         *)
(* A delivery reads the workspace, writes the columns that it changes, and *)
(* commits when it is answered; nothing is locked.  Stripe sends an event  *)
(* again until it is answered, in any order, and again after that.         *)
(*                                                                         *)
(* Abstractions.  Signed events of one workspace that exists, with its id. *)
(* Stripe's side is external: a checkout that was opened may be completed  *)
(* whatever has happened since.  A customer is created with the first      *)
(* checkout.  A trial is an active subscription.                           *)
(*                                                                         *)
(* A definition marked "broken" is no part of the model: it is the one     *)
(* below it with a plausible bug, there to show that a property notices.   *)
(***************************************************************************)
EXTENDS Naturals, FiniteSets, Sequences, Tables

CONSTANTS
    Checkouts,      \* checkout sessions, each of which may become a subscription
    NoSub,
    MaxEvents,      \* bound on Stripe's events
    Hooks           \* deliveries that may be under way at once

ASSUME BillingAssumption == NoSub \notin Checkouts /\ MaxEvents \in Nat

VARIABLES
    plan,           \* plan_tier and stripe_subscription_id
    checkout,       \* checkout sessions that have been opened
    stripe,         \* Stripe's subscriptions, with their status
    events,         \* what Stripe has sent or will send, in order
    hook,           \* deliveries under way
    heard,          \* places of the events that were answered
    disorder,       \* history: an event was delivered beside or after a later one
    rivals          \* history: two subscriptions were live at once

billingVars == <<plan, checkout, stripe, events, hook, heard, disorder, rivals>>

Plan == [tier : {"free", "paid"}, sub : Checkouts \cup {NoSub}]

SubStatus == {"incomplete", "active", "past_due", "canceled"}

\* live is history: whether the workspace had an active subscription
Event == [kind : {"completed", "changed", "deleted", "payment_failed"},
          sub : Checkouts, status : SubStatus, live : BOOLEAN]

HookIdle == [at |-> 0, seen |-> [tier |-> "free", sub |-> NoSub]]

Max0(S) == IF S = {} THEN 0 ELSE CHOOSE n \in S : \A m \in S : m <= n

-----------------------------------------------------------------------------
(* The workspace and Stripe. *)

\* Refused while the plan is paid.
CheckoutOpens(c) ==
    /\ c \notin checkout /\ plan.tier = "free"
    /\ checkout' = checkout \cup {c}
    /\ UNCHANGED <<plan, stripe, events, hook, heard, disorder, rivals>>

StatusOf(c) == IF c \in DOMAIN stripe THEN stripe[c] ELSE "canceled"

Ended(c) == StatusOf(c) = "canceled"

\* A subscription changes and Stripe announces it, by the event's kind.
Announces(c, status, kind) ==
    LET now == Inserted(stripe, c, status)
    IN  /\ Len(events) < MaxEvents
        /\ stripe' = now
        /\ events' = Append(events, [kind |-> kind, sub |-> c, status |-> status,
                         live |-> \E x \in DOMAIN now : now[x] = "active"])
        /\ rivals' = (rivals \/ \E x, y \in DOMAIN now :
                                   x # y /\ {now[x], now[y]} \cap {"canceled"} = {})
        /\ UNCHANGED <<plan, checkout, hook, heard, disorder>>

Subscribes(c) ==
    /\ c \in checkout \ DOMAIN stripe
    /\ \E s \in {"incomplete", "active"} : Announces(c, s, "changed")

Pays(c) == StatusOf(c) \in {"incomplete", "past_due"} /\ Announces(c, "active", "changed")

CheckoutCompletes(c) ==
    StatusOf(c) = "active" /\ Announces(c, "active", "completed")

\* A payment fails; only the update that follows changes the status.
PaymentFails(c) ==
    /\ StatusOf(c) = "active"
    /\ \/ Announces(c, "active", "payment_failed")
       \/ Announces(c, "past_due", "changed")

Cancels(c) == ~Ended(c) /\ Announces(c, "canceled", "deleted")

-----------------------------------------------------------------------------
(* The webhook. *)

DeliveryRead(h, n) ==
    /\ hook[h] = HookIdle /\ n \in DOMAIN events
    /\ hook' = [hook EXCEPT ![h] = [at |-> n, seen |-> plan]]
    /\ disorder' = (disorder \/ n < Max0(heard) \/ n > Max0(heard) + 1
                             \/ \E k \in Hooks : hook[k] # HookIdle)
    /\ UNCHANGED <<plan, checkout, stripe, events, heard, rivals>>

\* broken: a payment that failed ends the plan, which nothing restores.
Told_Failed(e, seen) ==
    CASE e.kind = "completed" -> [tier |-> "paid", sub |-> e.sub]
      [] e.kind = "changed" ->
            [tier |-> IF e.status = "active" THEN "paid" ELSE "free", sub |-> e.sub]
      [] OTHER -> [tier |-> "free", sub |-> NoSub]

\* What the event makes of the plan that was read.
Told(e, seen) ==
    CASE e.kind = "completed" -> [tier |-> "paid", sub |-> e.sub]
      [] e.kind = "changed" ->
            [tier |-> IF e.status = "active" THEN "paid" ELSE "free", sub |-> e.sub]
      [] e.kind = "deleted" -> [tier |-> "free", sub |-> NoSub]
      [] OTHER -> seen

\* Columns that the delivery does not change are not written.
DeliveryCommit(h) ==
    LET seen == hook[h].seen
        now == Told(events[hook[h].at], seen)
    IN  /\ hook[h] # HookIdle
        /\ plan' = [tier |-> IF now.tier = seen.tier THEN plan.tier ELSE now.tier,
                    sub |-> IF now.sub = seen.sub THEN plan.sub ELSE now.sub]
        /\ heard' = heard \cup {hook[h].at}
        /\ hook' = [hook EXCEPT ![h] = HookIdle]
        /\ UNCHANGED <<checkout, stripe, events, disorder, rivals>>

\* The commit fails, or the process dies; Stripe will try again.
DeliveryFails(h) ==
    /\ hook[h] # HookIdle
    /\ hook' = [hook EXCEPT ![h] = HookIdle]
    /\ UNCHANGED <<plan, checkout, stripe, events, heard, disorder, rivals>>

-----------------------------------------------------------------------------
BillingInit ==
    /\ plan = [tier |-> "free", sub |-> NoSub]
    /\ checkout = {}
    /\ stripe = EmptyTable
    /\ events = <<>>
    /\ hook = [h \in Hooks |-> HookIdle]
    /\ heard = {}
    /\ disorder = FALSE
    /\ rivals = FALSE

BillingNext ==
    \/ \E c \in Checkouts : \/ CheckoutOpens(c) \/ Subscribes(c) \/ Pays(c)
                            \/ CheckoutCompletes(c) \/ PaymentFails(c) \/ Cancels(c)
    \/ \E h \in Hooks : \/ \E n \in DOMAIN events : DeliveryRead(h, n)
                        \/ DeliveryCommit(h) \/ DeliveryFails(h)

BillingSpec == BillingInit /\ [][BillingNext]_billingVars

-----------------------------------------------------------------------------
\* The plan, Stripe's side and the deliveries keep their types; a delivery is
\* of an event that was sent.
BillingTypeOK ==
    /\ plan \in Plan
    /\ checkout \subseteq Checkouts
    /\ IsTable(stripe, checkout, SubStatus)
    /\ events \in Seq(Event)
    /\ hook \in [Hooks -> [at : {0} \cup DOMAIN events, seen : Plan]]
    /\ heard \subseteq DOMAIN events
    /\ disorder \in BOOLEAN /\ rivals \in BOOLEAN

\* The plan is what Stripe said last: paid exactly if the workspace had an
\* active subscription when the latest event that was heard was sent, however
\* often that one is repeated and whatever failed, as long as events come one
\* by one and in order and there are no two subscriptions at once.
PlanFollows ==
    heard # {} /\ ~disorder /\ ~rivals =>
        (plan.tier = "paid" <=> events[Max0(heard)].live)

=============================================================================
