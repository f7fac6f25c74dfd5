--------------------------- MODULE StripeBilling ---------------------------
(***************************************************************************)
(* The Stripe side of billing for one user (api/v1/billing/service.py,     *)
(* stripe_service.py): a checkout makes a subscription at Stripe, and      *)
(* Stripe's events, sent in order and some of them twice, are copied to    *)
(* the user's one subscription row and to payment_history.                 *)
(***************************************************************************)
EXTENDS Naturals, Sequences

CONSTANTS
  StripeSubs,         \* ids Stripe gives
  PaidPlans, FreePlan,
  MaxInvoices,        \* per subscription
  MaxWire,            \* events under way
  Unborn, NoRow, NoSub, NoEvent

VARIABLES
  stripe,   \* Stripe's subscriptions
  wire,     \* events under way
  last,     \* the last event that arrived, if it may come again
  row,      \* user_subscriptions
  invoices, \* invoices of each subscription, paid or failed
  recorded, \* payment_history: rows of each subscription's invoices
  chosen    \* history: the user took the free plan after the last subscription

Statuses     == {"incomplete", "active", "past_due", "incomplete_expired", "canceled"}
Subscription == [plan : PaidPlans, status : Statuses, ending : BOOLEAN]
StripeEvent  == [kind : {"created", "updated", "deleted", "paid", "failed"}, sub : StripeSubs,
                 now : Subscription]
Row          == [sub : StripeSubs \union {NoSub}, plan : PaidPlans \union {FreePlan},
                 status : Statuses, ending : BOOLEAN]

stripeVars == <<stripe, wire, last, row, invoices, recorded, chosen>>

StripeInit ==
  /\ stripe = [s \in StripeSubs |-> Unborn]
  /\ wire = <<>> /\ last = NoEvent
  /\ row \in {NoRow, [sub |-> NoSub, plan |-> FreePlan, status |-> "active", ending |-> FALSE]}
  /\ invoices = [s \in StripeSubs |-> 0]
  /\ recorded = [s \in StripeSubs |-> 0]
  /\ chosen = FALSE

Event(kind, s) == [kind |-> kind, sub |-> s, now |-> stripe'[s]]
Sends(events) == Len(wire) + Len(events) <= MaxWire /\ wire' = wire \o events
-----------------------------------------------------------------------------
(* The user.                                                                *)

\* create_checkout with a price: create_payment_intent makes an incomplete
\* subscription.  Without one: _activate_plan, and no word to Stripe.
CreatePaymentIntent(s, p) ==
  /\ stripe[s] = Unborn
  /\ stripe' = [stripe EXCEPT ![s] = [plan |-> p, status |-> "incomplete", ending |-> FALSE]]
  /\ Sends(<<Event("created", s)>>)
Checkout(s, p) ==
  /\ CreatePaymentIntent(s, p)
  /\ UNCHANGED <<last, row, invoices, recorded, chosen>>
CheckoutFree ==
  /\ row' = [sub |-> IF row = NoRow THEN NoSub ELSE row.sub,
             plan |-> FreePlan, status |-> "active", ending |-> FALSE]
  /\ row' # row /\ chosen' = TRUE
  /\ UNCHANGED <<stripe, wire, last, invoices, recorded>>

Ongoing(s) == stripe[s] # Unborn /\ stripe[s].status \in {"active", "past_due"}

CancelAtStripe(s) ==
  /\ s \in StripeSubs /\ Ongoing(s)
  /\ stripe' = [stripe EXCEPT ![s].ending = TRUE]
  /\ Sends(<<Event("updated", s)>>)

\* cancel_subscription: the row says that it ends, whether or not the call of
\* Stripe has succeeded.
Cancel(reached) ==
  /\ row # NoRow /\ ~ row.ending
  /\ row' = [row EXCEPT !.ending = TRUE]
  /\ IF reached
     THEN CancelAtStripe(row.sub)
     ELSE UNCHANGED <<stripe, wire>>
  /\ UNCHANGED <<last, invoices, recorded, chosen>>
-----------------------------------------------------------------------------
(* Stripe.                                                                  *)

Become(s, status) == stripe' = [stripe EXCEPT ![s].status = status]
Invoices(s) == invoices[s] < MaxInvoices /\ invoices' = [invoices EXCEPT ![s] = @ + 1]
Collect(s) ==
  /\ stripe[s] # Unborn /\ stripe[s].status \in {"incomplete", "past_due"}
  /\ Become(s, "active") /\ Invoices(s)
  /\ Sends(<<Event("paid", s), Event("updated", s)>>)
  /\ UNCHANGED <<last, row, recorded, chosen>>
CollectFails(s) ==
  /\ stripe[s] # Unborn /\ stripe[s].status = "active"
  /\ Become(s, "past_due") /\ Invoices(s)
  /\ Sends(<<Event("failed", s), Event("updated", s)>>)
  /\ UNCHANGED <<last, row, recorded, chosen>>
Abandon(s) ==
  /\ stripe[s] # Unborn /\ stripe[s].status = "incomplete"
  /\ Become(s, "incomplete_expired") /\ Sends(<<Event("updated", s)>>)
  /\ UNCHANGED <<last, row, invoices, recorded, chosen>>
End(s) ==
  /\ Ongoing(s)
  /\ Become(s, "canceled") /\ Sends(<<Event("deleted", s)>>)
  /\ UNCHANGED <<last, row, invoices, recorded, chosen>>
-----------------------------------------------------------------------------
(* handle_webhook.                                                          *)

\* _handle_subscription_created: whatever the row held.
Created(e) ==
  [sub |-> e.sub, plan |-> e.now.plan, status |-> e.now.status,
   ending |-> row # NoRow /\ row.ending]
UpdatedAny(e) ==                         \* mutant: of the user, not of the id
  IF row = NoRow THEN row ELSE [row EXCEPT !.status = e.now.status, !.ending = e.now.ending]
\* _handle_subscription_updated, _handle_subscription_deleted: a row of that id.
Updated(e) ==
  IF row = NoRow \/ row.sub # e.sub THEN row
  ELSE [row EXCEPT !.status = e.now.status, !.ending = e.now.ending]
Deleted(e) ==
  IF row = NoRow \/ row.sub # e.sub THEN row
  ELSE [row EXCEPT !.plan = FreePlan, !.status = "canceled"]

Handle(e) ==
  /\ row' = CASE e.kind = "created" -> Created(e)
              [] e.kind = "updated" -> Updated(e)
              [] e.kind = "deleted" -> Deleted(e)
              [] OTHER -> row
  /\ recorded' = IF e.kind \in {"paid", "failed"} THEN [recorded EXCEPT ![e.sub] = @ + 1] ELSE recorded
  /\ chosen' = (chosen /\ e.kind # "created")
  /\ UNCHANGED <<stripe, invoices>>

Arrive ==
  /\ wire # <<>> /\ Handle(Head(wire))
  /\ last' = Head(wire) /\ wire' = Tail(wire)
ArriveAgain ==
  /\ last # NoEvent /\ Handle(last)
  /\ last' = NoEvent /\ UNCHANGED wire

StripeNext ==
  \/ \E s \in StripeSubs : \/ \E p \in PaidPlans : Checkout(s, p)
                           \/ Collect(s) \/ CollectFails(s) \/ Abandon(s) \/ End(s)
  \/ \E reached \in BOOLEAN : Cancel(reached)
  \/ CheckoutFree \/ Arrive \/ ArriveAgain
-----------------------------------------------------------------------------
\* When all events have arrived the row says of its subscription what Stripe
\* says, an old subscription's end or failure has not touched a new one's row,
\* and every invoice is in the payment history, although events come twice
\* (handle_webhook).  The free plan is taken without Stripe, and spoils it.
RowFollowsStripe ==
  wire = <<>> =>
    /\ row # NoRow /\ row.sub # NoSub /\ ~ chosen =>
         /\ row.status = stripe[row.sub].status
         /\ row.plan = IF row.status = "canceled" THEN FreePlan ELSE stripe[row.sub].plan
    /\ \A s \in StripeSubs : recorded[s] >= invoices[s]
=============================================================================
