--------------------------- MODULE RazorpayBilling ---------------------------
(***************************************************************************)
(* Trial and auto-pay subscriptions: BillingService (api/v1/billing/       *)
(* service.py), the Celery sweep (workers/billing_tasks.py) and the admin  *)
(* plan grant, together with the two parties they talk to over the         *)
(* network: the Control Hub (create, cancel, report) and Razorpay, whose   *)
(* lifecycle events the Hub relays as webhooks.                            *)
(*                                                                         *)
(* Every request runs in a session (one API thread or one Celery worker).  *)
(* A session loads the ORM row, may call the Hub, and commits; each of     *)
(* these is a step of its own, so any other session may run in between.    *)
(* A relayed webhook is delivered in any order, any number of times, or    *)
(* never: `sent' only grows, and a delivery leaves it unchanged.           *)
(***************************************************************************)
EXTENDS Naturals

CONSTANTS
  Users, Mandates,      \* accounts; Razorpay subscription ids
  Web,                  \* API threads serving the user: subscribe, cancel, grants
  Relay,                \* API threads serving the relayed webhooks
  Sweepers,             \* Celery workers and GET /billing/subscription: hub sync
  NoRow, NoMandate, NoUser, NoEvent,
  RazorpayKinds,        \* events Razorpay starts on its own account
  VerificationPay,      \* payment entity in `authenticated': "verification", "none"
  HubFaults,            \* "refuse": Hub errors; "lost": Hub acts, reply is lost
  Grants,               \* "admin", "checkout": plans set without a mandate
  MaxRows               \* payment rows per payment id are counted up to this

Sessions == Web \union Relay \union Sweepers

Plans    == {"Free", "Pro"}
Statuses == {"created", "trialing", "active", "past_due", "paused", "halted",
             "canceled"}
Row == [plan : Plans, status : Statuses, rzp : Mandates \union {NoMandate},
        cancelAtEnd : BOOLEAN, synced : BOOLEAN]

LifeStates == {"none", "created", "authenticated", "active", "pending",
               "halted", "paused", "cancelled"}
PayKinds   == {"none", "verification", "charge"}
Kinds      == {"authenticated", "activated", "charged", "pending", "halted",
               "cancelled", "paused", "resumed", "refunded"}
Event      == [kind : Kinds, m : Mandates, pay : PayKinds]
HubKeys    == (Mandates \union Users) \X {"verification", "charge", "resync"}

ASSUME BillingAssumption ==
  /\ NoRow \notin Row
  /\ NoMandate \notin Mandates /\ NoUser \notin Users /\ NoEvent \notin Event
  /\ Mandates \intersect Users = {}
  /\ RazorpayKinds \subseteq Kinds
  /\ VerificationPay \subseteq {"none", "verification"}
  /\ HubFaults \subseteq {"refuse", "lost"} /\ Grants \subseteq {"admin", "checkout"}
  /\ MaxRows \in Nat \ {0}

VARIABLES
  row,      \* user_subscriptions: at most one row per user (unique user_id)
  hist,     \* payment_history: number of rows per mandate and payment
  refunded, \* the payments whose row says "refunded"
  notes,    \* notification kinds posted to each user
  life,     \* Razorpay: state of each mandate
  owner,    \* Razorpay: the user a mandate was created for
  told,     \* mandates whose id reached the user's checkout
  sent,     \* webhooks Razorpay has raised
  hubTx,    \* Control Hub: the transactions reported to it, by payment id
  sess,     \* what each session is doing
  closed,   \* history: mandates for which a downgrade was committed
  comped    \* history: users given a plan without a mandate

dbVars  == <<row, hist, refunded, notes>>
rzpVars == <<life, owner, told, sent>>
vars    == <<dbVars, rzpVars, hubTx, sess, closed, comped>>

-----------------------------------------------------------------------------
(* Sessions and the ORM *)

Places == {"idle", "subscribe.cancelOld", "subscribe.create", "subscribe.commit",
           "cancel.hub", "cancel.commit", "grant.commit", "sync.load",
           "sync.report", "hook.commit", "hook.verify", "hook.insert",
           "hook.report", "hook.notify"}
Idle == [at |-> "idle", user |-> NoUser, snap |-> NoRow, ev |-> NoEvent,
         m |-> NoMandate, dup |-> FALSE]

Goto(p, place) == sess' = [sess EXCEPT ![p].at = place]
Finish(p)      == sess' = [sess EXCEPT ![p] = Idle]

\* SQLAlchemy writes only the attributes whose value differs from the one it
\* loaded: an attribute set to its loaded value keeps what the database holds.
Net(cur, loaded, new) == IF new = loaded THEN cur ELSE new
Flush(cur, loaded, new) ==
  [plan        |-> Net(cur.plan, loaded.plan, new.plan),
   status      |-> Net(cur.status, loaded.status, new.status),
   rzp         |-> Net(cur.rzp, loaded.rzp, new.rzp),
   cancelAtEnd |-> Net(cur.cancelAtEnd, loaded.cancelAtEnd, new.cancelAtEnd),
   synced      |-> Net(cur.synced, loaded.synced, new.synced)]
FlushRow(p, new) ==
  LET u == sess[p].user
  IN  row' = [row EXCEPT ![u] = Flush(row[u], sess[p].snap, new)]

\* plan_limits.get_user_plan: the plan counts only while trialing or active.
EffectivePlan(u) ==
  IF row[u] # NoRow /\ row[u].status \in {"active", "trialing"}
  THEN row[u].plan ELSE "Free"

-----------------------------------------------------------------------------
(* Razorpay, and the Control Hub calls that change it *)

Ongoing == {"authenticated", "active", "pending", "paused"}
Lifecycle ==
  {[from |-> "created",       to |-> "authenticated", kind |-> "authenticated"],
   [from |-> "authenticated", to |-> "active",        kind |-> "activated"],
   [from |-> "active",        to |-> "active",        kind |-> "charged"],
   [from |-> "active",        to |-> "pending",       kind |-> "pending"],
   [from |-> "pending",       to |-> "active",        kind |-> "charged"],
   [from |-> "pending",       to |-> "halted",        kind |-> "halted"],
   [from |-> "active",        to |-> "paused",        kind |-> "paused"],
   [from |-> "paused",        to |-> "active",        kind |-> "resumed"]}
  \union {[from |-> s, to |-> "cancelled", kind |-> "cancelled"] : s \in Ongoing}

PayOf(kind) == CASE kind = "authenticated" -> VerificationPay
                 [] kind = "charged"       -> {"charge"}
                 [] OTHER                  -> {"none"}

\* Razorpay moves a mandate and raises the webhook; only a user who holds the
\* mandate's id can authenticate it.
Transition(m, t, pay) ==
  /\ t.kind \in RazorpayKinds /\ life[m] = t.from
  /\ t.kind = "authenticated" => m \in told
  /\ life' = [life EXCEPT ![m] = t.to]
  /\ sent' = sent \union {[kind |-> t.kind, m |-> m, pay |-> pay]}
RazorpayMoves(m) ==
  /\ \E t \in Lifecycle : \E pay \in PayOf(t.kind) : Transition(m, t, pay)
  /\ UNCHANGED <<dbVars, owner, told, hubTx, sess, closed, comped>>

\* A payment that was taken is refunded (the verification charge always is).
RazorpayRefunds(m) ==
  /\ "refunded" \in RazorpayKinds
  /\ \E e \in sent : /\ e.m = m /\ e.pay # "none"
                     /\ sent' = sent \union {[kind |-> "refunded", m |-> m, pay |-> e.pay]}
  /\ UNCHANGED <<dbVars, life, owner, told, hubTx, sess, closed, comped>>

\* The Hub creates a mandate under a fresh id.
HubCreates(m, u) ==
  /\ life[m] = "none"
  /\ life' = [life EXCEPT ![m] = "created"]
  /\ owner' = [owner EXCEPT ![m] = u]

\* The Hub cancels a mandate now: it ends, and Razorpay raises `cancelled'.
HubCancels(m) ==
  /\ life[m] \notin {"none", "cancelled"}
  /\ life' = [life EXCEPT ![m] = "cancelled"]
  /\ sent' = sent \union {[kind |-> "cancelled", m |-> m, pay |-> "none"]}

\* The Hub answers with an error and nothing happens at Razorpay.
HubRefuses == "refuse" \in HubFaults /\ UNCHANGED <<life, sent>>

\* report_purchase upserts a transaction by payment id; True stamps the row.
ReportAccepted(p, key, status) ==
  /\ hubTx' = [hubTx EXCEPT ![key] = status]
  /\ row' = [row EXCEPT ![sess[p].user].synced = TRUE]
ReportFailedButStamps(p, key, status) ==   \* mutant: the answer is not looked at
  /\ UNCHANGED hubTx
  /\ row' = [row EXCEPT ![sess[p].user].synced = TRUE]
ReportFailed(p, key, status) ==
  /\ \/ "lost" \in HubFaults /\ hubTx' = [hubTx EXCEPT ![key] = status]
     \/ "refuse" \in HubFaults /\ UNCHANGED hubTx
  /\ UNCHANGED row

-----------------------------------------------------------------------------
(* POST /billing/subscribe: create_razorpay_subscription *)

SubscribeLoadKeepsOld(p, u) ==   \* mutant: the abandoned mandate is not cancelled
  /\ sess[p].at = "idle"
  /\ row[u] # NoRow => row[u].status \notin {"trialing", "active", "past_due"}
  /\ sess' = [sess EXCEPT ![p] =
       [Idle EXCEPT !.at = "subscribe.create", !.user = u, !.snap = row[u]]]
  /\ UNCHANGED <<dbVars, rzpVars, hubTx, closed, comped>>
SubscribeLoad(p, u) ==
  /\ sess[p].at = "idle"
  /\ row[u] # NoRow => row[u].status \notin {"trialing", "active", "past_due"}
  /\ LET stale == row[u] # NoRow /\ row[u].rzp # NoMandate
     IN sess' = [sess EXCEPT ![p] =
          [Idle EXCEPT !.at = IF stale THEN "subscribe.cancelOld" ELSE "subscribe.create",
                       !.user = u, !.snap = row[u]]]
  /\ UNCHANGED <<dbVars, rzpVars, hubTx, closed, comped>>

\* Best effort: a refusal (or a mandate that is already over) is logged.
SubscribeCancelOld(p) ==
  /\ sess[p].at = "subscribe.cancelOld"
  /\ LET m == sess[p].snap.rzp
     IN \/ HubCancels(m)
        \/ HubRefuses
        \/ life[m] = "cancelled" /\ UNCHANGED <<life, sent>>
  /\ Goto(p, "subscribe.create")
  /\ UNCHANGED <<dbVars, owner, told, hubTx, closed, comped>>

SubscribeCreate(p) ==
  /\ sess[p].at = "subscribe.create"
  /\ \E m \in Mandates :
       /\ HubCreates(m, sess[p].user)
       /\ \/ sess' = [sess EXCEPT ![p].at = "subscribe.commit", ![p].m = m]
          \/ "lost" \in HubFaults /\ Finish(p)
  /\ UNCHANGED <<dbVars, told, sent, hubTx, closed, comped>>

SubscribeRefused(p) ==
  /\ sess[p].at = "subscribe.create" /\ "refuse" \in HubFaults
  /\ Finish(p)
  /\ UNCHANGED <<dbVars, rzpVars, hubTx, closed, comped>>

SubscribedOnTrial(p) ==   \* mutant: the trial starts before the mandate is authenticated
  [plan |-> "Pro", status |-> "trialing", rzp |-> sess[p].m, cancelAtEnd |-> FALSE,
   synced |-> FALSE]
Subscribed(p) ==
  [plan |-> "Pro", status |-> "created", rzp |-> sess[p].m, cancelAtEnd |-> FALSE,
   synced |-> IF sess[p].snap = NoRow THEN FALSE ELSE sess[p].snap.synced]

\* The row that was loaded is updated; without one, a row is inserted unless
\* the unique constraint on user_id refuses it (IntegrityError, rolled back).
SubscribeCommit(p) ==
  /\ sess[p].at = "subscribe.commit"
  /\ LET u == sess[p].user
     IN \/ /\ sess[p].snap # NoRow
           /\ FlushRow(p, Subscribed(p))
           /\ told' = told \union {sess[p].m}
        \/ /\ sess[p].snap = NoRow /\ row[u] = NoRow
           /\ row' = [row EXCEPT ![u] = Subscribed(p)]
           /\ told' = told \union {sess[p].m}
        \/ /\ sess[p].snap = NoRow /\ row[u] # NoRow
           /\ UNCHANGED <<row, told>>
  /\ Finish(p)
  /\ UNCHANGED <<hist, refunded, notes, life, owner, sent, hubTx, closed, comped>>

-----------------------------------------------------------------------------
(* DELETE /billing/subscription: cancel_subscription *)

AtCycleEnd(snap) == snap.rzp = NoMandate \/ snap.status = "active"

CancelLoad(p, u) ==
  /\ sess[p].at = "idle" /\ row[u] # NoRow
  /\ sess' = [sess EXCEPT ![p] =
       [Idle EXCEPT !.at = IF row[u].rzp # NoMandate THEN "cancel.hub" ELSE "cancel.commit",
                    !.user = u, !.snap = row[u]]]
  /\ UNCHANGED <<dbVars, rzpVars, hubTx, closed, comped>>

\* Razorpay takes cancel_at_cycle_end only while a cycle runs; a mandate so
\* marked ends later, by RazorpayMoves.
HubTakesCancel(m, atEnd) ==
  IF atEnd THEN life[m] = "active" /\ UNCHANGED <<life, sent>> ELSE HubCancels(m)

CancelHub(p) ==
  /\ sess[p].at = "cancel.hub"
  /\ LET m == sess[p].snap.rzp
         atEnd == AtCycleEnd(sess[p].snap)
     IN \/ HubTakesCancel(m, atEnd) /\ Goto(p, "cancel.commit")
        \/ "lost" \in HubFaults /\ HubTakesCancel(m, atEnd) /\ Finish(p)
        \/ /\ \/ "refuse" \in HubFaults
              \/ life[m] = "cancelled"
              \/ atEnd /\ life[m] # "active"
           /\ UNCHANGED <<life, sent>>
           /\ Finish(p)
  /\ UNCHANGED <<dbVars, owner, told, hubTx, closed, comped>>

CancelCommitAtOnce(p) ==   \* mutant: "canceled" also when the cycle still runs
  /\ sess[p].at = "cancel.commit"
  /\ FlushRow(p, [sess[p].snap EXCEPT !.status = "canceled"])
  /\ Finish(p)
  /\ UNCHANGED <<hist, refunded, notes, rzpVars, hubTx, closed, comped>>
CancelCommit(p) ==
  /\ sess[p].at = "cancel.commit"
  /\ LET snap  == sess[p].snap
         atEnd == AtCycleEnd(snap)
     IN FlushRow(p, [snap EXCEPT !.cancelAtEnd = atEnd,
                                 !.status = IF atEnd THEN @ ELSE "canceled"])
  /\ Finish(p)
  /\ UNCHANGED <<hist, refunded, notes, rzpVars, hubTx, closed, comped>>

-----------------------------------------------------------------------------
(* A plan without a mandate: admin update_user_plan, checkout _activate_plan *)

GrantLoad(p, u) ==
  /\ sess[p].at = "idle" /\ Grants # {}
  /\ sess' = [sess EXCEPT ![p] =
       [Idle EXCEPT !.at = "grant.commit", !.user = u, !.snap = row[u]]]
  /\ UNCHANGED <<dbVars, rzpVars, hubTx, closed, comped>>

\* What is written; without a loaded row, an insert that loses the race against
\* another insert is rolled back.
GrantWrite(p, via, plan) ==
  LET u == sess[p].user
      snap == sess[p].snap
  IN \/ /\ snap # NoRow
        /\ FlushRow(p, [snap EXCEPT !.plan = plan, !.status = "active",
                          !.cancelAtEnd = IF via = "checkout" THEN FALSE ELSE @])
        /\ comped' = comped \union {u}
     \/ /\ snap = NoRow /\ row[u] = NoRow
        /\ row' = [row EXCEPT ![u] =
             [plan |-> plan, status |-> "active", rzp |-> NoMandate,
              cancelAtEnd |-> FALSE, synced |-> FALSE]]
        /\ comped' = comped \union {u}
     \/ /\ snap = NoRow /\ row[u] # NoRow
        /\ UNCHANGED <<row, comped>>

GrantCommit(p) ==
  /\ sess[p].at = "grant.commit"
  /\ \E via \in Grants, plan \in Plans : GrantWrite(p, via, plan)
  /\ Finish(p)
  /\ UNCHANGED <<hist, refunded, notes, rzpVars, hubTx, closed>>

-----------------------------------------------------------------------------
(* Hub sync: GET /billing/subscription and the Celery sweep *)

NeedsSync(u) == /\ row[u] # NoRow /\ row[u].status \in {"trialing", "active"}
                /\ ~row[u].synced

SyncSelect(p, u) ==
  /\ sess[p].at = "idle" /\ NeedsSync(u)
  /\ sess' = [sess EXCEPT ![p] =
       [Idle EXCEPT !.at = "sync.load", !.user = u, !.snap = row[u]]]
  /\ UNCHANGED <<dbVars, rzpVars, hubTx, closed, comped>>

\* _retry_hub_sync looks at hub_synced_at only: of the row as it is now, or, in
\* the sweep, of the object that its first query left in the session.
SyncLoad(p) ==
  /\ sess[p].at = "sync.load"
  /\ \E loaded \in {sess[p].snap, row[sess[p].user]} :
       IF loaded.synced THEN Finish(p)
       ELSE sess' = [sess EXCEPT ![p].at = "sync.report", ![p].snap = loaded]
  /\ UNCHANGED <<dbVars, rzpVars, hubTx, closed, comped>>

SyncKey(s)    == <<IF s.snap.rzp = NoMandate THEN s.user ELSE s.snap.rzp, "resync">>
SyncStatus(s) == IF s.snap.status = "trialing" THEN "trial" ELSE "success"

SyncAcceptedUnstamped(p) ==   \* mutant: the row is not stamped
  /\ sess[p].at = "sync.report"
  /\ hubTx' = [hubTx EXCEPT ![SyncKey(sess[p])] = SyncStatus(sess[p])]
  /\ Finish(p)
  /\ UNCHANGED <<dbVars, rzpVars, closed, comped>>
SyncAccepted(p) ==
  /\ sess[p].at = "sync.report"
  /\ ReportAccepted(p, SyncKey(sess[p]), SyncStatus(sess[p]))
  /\ Finish(p)
  /\ UNCHANGED <<hist, refunded, notes, rzpVars, closed, comped>>
SyncFailed(p) ==
  /\ sess[p].at = "sync.report"
  /\ ReportFailed(p, SyncKey(sess[p]), SyncStatus(sess[p]))
  /\ Finish(p)
  /\ UNCHANGED <<hist, refunded, notes, rzpVars, closed, comped>>

-----------------------------------------------------------------------------
(* POST /service/subscriptions/webhook-relay: handle_razorpay_webhook *)

PayRow(e)     == <<e.m, e.pay>>
StatusFor(kind) ==
  CASE kind = "authenticated" -> "trialing"
    [] kind \in {"activated", "charged", "resumed"} -> "active"
    [] kind = "pending" -> "past_due"
    [] kind = "paused"  -> "paused"
    [] kind = "halted"  -> "halted"
    [] OTHER            -> "canceled"

NeverRecorded(e)   == FALSE   \* mutant: no idempotency check
AlreadyRecorded(e) == hist[PayRow(e)] > 0

\* The handler finds the row by Razorpay id (an unknown id is dropped); for
\* `charged' it also looks for a payment row with this payment id.
HookReceive(p, e) ==
  /\ sess[p].at = "idle"
  /\ \E u \in Users :
       /\ IF e.kind = "refunded" THEN hist[PayRow(e)] > 0 /\ u = owner[e.m]
          ELSE row[u] # NoRow /\ row[u].rzp = e.m
       /\ sess' = [sess EXCEPT ![p] =
            [at |-> "hook.commit", user |-> u, snap |-> row[u], ev |-> e,
             m |-> NoMandate, dup |-> e.kind = "charged" /\ AlreadyRecorded(e)]]
  /\ UNCHANGED <<dbVars, rzpVars, hubTx, closed, comped>>

AddPaymentRow(e) ==
  hist' = [hist EXCEPT ![PayRow(e)] = IF @ < MaxRows THEN @ + 1 ELSE @]

\* _rzp_set_status
HookStatusSuspendsPlan(p) ==   \* mutant: a failed debit or a pause takes the plan away
  /\ sess[p].at = "hook.commit"
  /\ LET kind == sess[p].ev.kind
     IN /\ kind \in {"authenticated", "activated", "pending", "paused", "resumed"}
        /\ FlushRow(p, [sess[p].snap EXCEPT !.status = StatusFor(kind),
                          !.plan = IF kind \in {"pending", "paused"} THEN "Free" ELSE @])
        /\ IF kind = "authenticated" THEN Goto(p, "hook.verify") ELSE Finish(p)
  /\ UNCHANGED <<hist, refunded, notes, rzpVars, hubTx, closed, comped>>
HookStatus(p) ==
  /\ sess[p].at = "hook.commit"
  /\ LET kind == sess[p].ev.kind
     IN /\ kind \in {"authenticated", "activated", "pending", "paused", "resumed"}
        /\ FlushRow(p, [sess[p].snap EXCEPT !.status = StatusFor(kind)])
        /\ CASE kind = "authenticated" -> Goto(p, "hook.verify")
             [] kind = "paused"        -> Goto(p, "hook.notify")
             [] OTHER                  -> Finish(p)
  /\ UNCHANGED <<hist, refunded, notes, rzpVars, hubTx, closed, comped>>

\* _rzp_handle_charged
HookCharged(p) ==
  /\ sess[p].at = "hook.commit" /\ sess[p].ev.kind = "charged"
  /\ FlushRow(p, [sess[p].snap EXCEPT !.status = StatusFor("charged")])
  /\ IF sess[p].dup THEN Finish(p) /\ UNCHANGED hist
     ELSE Goto(p, "hook.report") /\ AddPaymentRow(sess[p].ev)
  /\ UNCHANGED <<refunded, notes, rzpVars, hubTx, closed, comped>>

\* _rzp_downgrade
HookDowngradeKeepsPlan(p) ==   \* mutant: the plan is not reset
  /\ sess[p].at = "hook.commit" /\ sess[p].ev.kind \in {"halted", "cancelled"}
  /\ FlushRow(p, [sess[p].snap EXCEPT !.status = StatusFor(sess[p].ev.kind)])
  /\ closed' = closed \union {sess[p].ev.m}
  /\ Goto(p, "hook.notify")
  /\ UNCHANGED <<hist, refunded, notes, rzpVars, hubTx, comped>>
HookDowngrade(p) ==
  /\ sess[p].at = "hook.commit" /\ sess[p].ev.kind \in {"halted", "cancelled"}
  /\ FlushRow(p, [sess[p].snap EXCEPT !.status = StatusFor(sess[p].ev.kind),
                                      !.plan = "Free"])
  /\ closed' = closed \union {sess[p].ev.m}
  /\ Goto(p, "hook.notify")
  /\ UNCHANGED <<hist, refunded, notes, rzpVars, hubTx, comped>>

\* _rzp_handle_refund
HookRefund(p) ==
  /\ sess[p].at = "hook.commit" /\ sess[p].ev.kind = "refunded"
  /\ refunded' = refunded \union {PayRow(sess[p].ev)}
  /\ Goto(p, "hook.report")
  /\ UNCHANGED <<row, hist, notes, rzpVars, hubTx, closed, comped>>

\* _rzp_record_trial_verification: find the row again, look for the payment,
\* (HookInsert) record it. Without a payment id there is nothing to look for.
HookVerify(p) ==
  /\ sess[p].at = "hook.verify"
  /\ LET e == sess[p].ev
     IN IF row[sess[p].user].rzp # e.m THEN Finish(p)
        ELSE IF e.pay # "none" /\ AlreadyRecorded(e) THEN Goto(p, "hook.report")
        ELSE Goto(p, "hook.insert")
  /\ UNCHANGED <<dbVars, rzpVars, hubTx, closed, comped>>

HookInsert(p) ==
  /\ sess[p].at = "hook.insert"
  /\ AddPaymentRow(sess[p].ev)
  /\ Goto(p, "hook.report")
  /\ UNCHANGED <<row, refunded, notes, rzpVars, hubTx, closed, comped>>

\* Without a payment id the trial is reported under "trial_<razorpay id>".
ReportKey(e) == <<e.m, IF e.pay = "none" THEN "verification" ELSE e.pay>>
ReportStatus(e) == CASE e.kind = "authenticated" -> "trial"
                     [] e.kind = "charged"       -> "success"
                     [] OTHER                    -> "refunded"

HookReport(p) ==
  /\ sess[p].at = "hook.report"
  /\ LET e == sess[p].ev
     IN /\ \/ ReportAccepted(p, ReportKey(e), ReportStatus(e))
           \/ ReportFailed(p, ReportKey(e), ReportStatus(e))
        /\ IF e.kind = "authenticated" THEN Goto(p, "hook.notify") ELSE Finish(p)
  /\ UNCHANGED <<hist, refunded, notes, rzpVars, closed, comped>>

\* _notify_trial_started, _notify_subscription_ended
NoteFor(kind) == CASE kind = "authenticated" -> "trial_started"
                   [] kind = "paused"        -> "subscription_paused"
                   [] OTHER                  -> "subscription_ended"
HookNotify(p) ==
  /\ sess[p].at = "hook.notify"
  /\ notes' = notes \union {<<sess[p].user, NoteFor(sess[p].ev.kind)>>}
  /\ Finish(p)
  /\ UNCHANGED <<row, hist, refunded, rzpVars, hubTx, closed, comped>>

\* The process dies, or the database refuses: the open transaction is gone.
Crash(p) ==
  /\ sess[p].at # "idle"
  /\ Finish(p)
  /\ UNCHANGED <<dbVars, rzpVars, hubTx, closed, comped>>

-----------------------------------------------------------------------------
Init ==
  /\ row = [u \in Users |-> NoRow]
  /\ hist = [k \in Mandates \X PayKinds |-> 0]
  /\ refunded = {} /\ notes = {}
  /\ life = [m \in Mandates |-> "none"]
  /\ owner = [m \in Mandates |-> NoUser]
  /\ told = {} /\ sent = {}
  /\ hubTx = [k \in HubKeys |-> "none"]
  /\ sess = [p \in Sessions |-> Idle]
  /\ closed = {} /\ comped = {}

Subscribe(p) ==
  \/ \E u \in Users : SubscribeLoad(p, u)
  \/ SubscribeCancelOld(p) \/ SubscribeCreate(p) \/ SubscribeRefused(p)
  \/ SubscribeCommit(p)
Cancel(p) ==
  \/ \E u \in Users : CancelLoad(p, u)
  \/ CancelHub(p) \/ CancelCommit(p)
Grant(p) == (\E u \in Users : GrantLoad(p, u)) \/ GrantCommit(p)
Sync(p) ==
  \/ \E u \in Users : SyncSelect(p, u)
  \/ SyncLoad(p) \/ SyncAccepted(p) \/ SyncFailed(p)
Hook(p) ==
  \/ \E e \in sent : HookReceive(p, e)
  \/ HookStatus(p) \/ HookCharged(p) \/ HookDowngrade(p) \/ HookRefund(p)
  \/ HookVerify(p) \/ HookInsert(p) \/ HookReport(p) \/ HookNotify(p)
Razorpay == \E m \in Mandates : RazorpayMoves(m) \/ RazorpayRefunds(m)

Next ==
  \/ \E p \in Web : Subscribe(p) \/ Cancel(p) \/ Grant(p)
  \/ \E p \in Relay : Hook(p)
  \/ \E p \in Sweepers : Sync(p)
  \/ \E p \in Sessions : Crash(p)
  \/ Razorpay

Spec == Init /\ [][Next]_vars

\* The beat schedule starts the sweep every 30 minutes whatever the users do and
\* each sweep goes through all the rows it selected, a worker that is not killed
\* goes on, and a Hub that is asked again and again answers in the end.
SweepFairness ==
  \A p \in Sweepers :
    /\ \A u \in Users : SF_vars(SyncSelect(p, u))
    /\ SF_vars(SyncLoad(p))
    /\ SF_vars(SyncAccepted(p))
FairSpec == Spec /\ SweepFairness

-----------------------------------------------------------------------------
(* Properties *)

SessionType == [at : Places, user : Users \union {NoUser},
                snap : Row \union {NoRow}, ev : Event \union {NoEvent},
                m : Mandates \union {NoMandate}, dup : BOOLEAN]

\* Types of all variables.
TypeOK ==
  /\ row \in [Users -> Row \union {NoRow}]
  /\ hist \in [Mandates \X PayKinds -> 0..MaxRows]
  /\ refunded \subseteq Mandates \X PayKinds
  /\ notes \subseteq Users \X {"trial_started", "subscription_paused", "subscription_ended"}
  /\ life \in [Mandates -> LifeStates]
  /\ owner \in [Mandates -> Users \union {NoUser}]
  /\ told \subseteq Mandates
  /\ sent \subseteq Event
  /\ hubTx \in [HubKeys -> {"none", "trial", "success", "refunded"}]
  /\ sess \in [Sessions -> SessionType]
  /\ closed \subseteq Mandates
  /\ comped \subseteq Users

\* Once the end of a mandate has been processed, no late or repeated webhook
\* about that mandate, and no request that was already running, gives the user
\* the paid plan back while the row still names that mandate.
NoResurrection ==
  \A u \in Users :
    row[u] # NoRow /\ row[u].rzp \in closed /\ u \notin comped
      => EffectivePlan(u) = "Free"

\* A mandate that has not ended keeps its user on the paid plan: nobody pays
\* for a row that says "Free", through retries, failures, pause and resume.
PaidPlanKept ==
  \A u \in Users :
    row[u] # NoRow /\ row[u].rzp \in Mandates \ closed /\ u \notin comped
      => row[u].plan = "Pro"

Authenticated(m) == \E e \in sent : e.kind = "authenticated" /\ e.m = m

\* Nobody who was not granted a plan is trialing or active unless one of his
\* own mandates was authenticated at Razorpay.
EntitlementBacked ==
  \A u \in Users :
    EffectivePlan(u) = "Pro" /\ u \notin comped
      => \E m \in Mandates : owner[m] = u /\ Authenticated(m)

HubKnowsUser(u) ==
  \E k \in HubKeys : /\ hubTx[k] # "none"
                     /\ k[1] = u \/ (k[1] \in Mandates /\ owner[k[1]] = u)

\* hub_synced_at is set only when the Hub holds a transaction of this user.
StampTruthful ==
  \A u \in Users : row[u] # NoRow /\ row[u].synced => HubKnowsUser(u)

\* A payment has one row in the billing history however often its webhook is
\* retried.
PaymentRecordedOnce ==
  \A m \in Mandates : \A k \in {"verification", "charge"} : hist[<<m, k>>] <= 1

\* No user has two mandates that Razorpay can debit.
OneOngoingMandate ==
  \A m, n \in Mandates :
    life[m] \in Ongoing /\ life[n] \in Ongoing /\ owner[m] = owner[n] => m = n

\* A row that says "canceled" names no mandate that can still be debited.
CanceledMeansEnded ==
  \A u \in Users :
    row[u] # NoRow /\ row[u].status = "canceled" /\ row[u].rzp # NoMandate
      => life[row[u].rzp] \notin Ongoing

\* A trialing or active subscription the Hub has not confirmed does not stay
\* so: the sweep gets it confirmed unless it stops being trialing or active.
UnsyncedIsResolved == \A u \in Users : NeedsSync(u) ~> ~NeedsSync(u)
=============================================================================
