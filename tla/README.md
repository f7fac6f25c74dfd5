# Rupexi API: TLA+ models and proofs

The repository is the backend of an expense tracker: a FastAPI application over
PostgreSQL (SQLAlchemy), Celery tasks over Redis, and a handful of external services, of
which the *Control Hub* (a relay in front of Razorpay) matters most. The modules below model
its logic; `MC*.tla` and the `.cfg` files give TLC small instances of them, and
`*_proofs.tla` hold the proofs.

| module | models | run by | proofs |
|---|---|---|---|
| `RazorpayBilling` | trial and auto-pay subscriptions, webhooks, the report of purchases to the Hub | `MCRazorpayBilling`, 3 runs | `RazorpayBilling_proofs` |
| `CategoryTree` | the category tree, its seeds, the main category a budget sits on | `MCCategoryTree`, `MCCategoryTreeHabits`, 1 run | `MCCategoryTreeHabits_proofs` |
| `ExpenseLedger` | idempotent saves, expenses, budgets, budget alerts | `MCExpenseLedger`, `MCExpenseLedgerOverlap`, 3 runs | `ExpenseLedger_proofs` |
| `FamilyGroups` | families, invitations, contributions, the family book | `MCFamilyGroups`, 1 run | `MCFamilyGroups_proofs` |
| `OtpStore`, `OneTimeCode` | one-time codes in two stores, and what codes promise | `MCLogin`, 1 run for the four | `MCLogin_proofs` |
| `PhoneAccounts` | accounts found by phone number, sessions, logout | `MCLogin` | `MCLogin_proofs` |
| `LoginLockout` | failure streaks and locks around a password login | `MCLogin` | `MCLogin_proofs` |
| `MonthCycle`, `SpendingFigures` | the financial month, and every page that sums expenses by it | `MCSpendingFigures`, 1 run | `SpendingFigures_proofs` |
| `Notices` | reminders, summaries, tracked subscriptions, the inbox | `MCServices`, 1 run for the five | `MCServices_proofs` |
| `ReceiptScan` | strips, the key pool, the merge of lines | `MCServices`, and 1 run of its own | `MCServices_proofs` |
| `SavingsPots` | savings goals | `MCServices` | `MCServices_proofs` |
| `StripeBilling` | the Stripe side of billing | `MCServices` | `MCServices_proofs` |
| `ItemCategorizer` | keywords, and which category a save is filed in | `MCServices` | `MCServices_proofs` |

`tlc -workers 2 -config <run>.cfg <MC module>` runs a check, `tlapm <module>_proofs.tla`
checks proofs. `Sums_proofs` has the lemmas on finite sums that the families and the
figures use. `PROJECT.json` lists the runs, which source lines every definition stands
for, and the hazards with the properties that watch them.

## 1. The system

### How it runs

* Endpoints are plain `def` functions, so FastAPI runs them in a thread pool: requests
  overlap, each in a database session of its own (`database.py`), at PostgreSQL's READ
  COMMITTED. Nothing takes a row lock or a serializable transaction.
* Sessions have `autoflush=False` (`database.py:17`). A commit writes, of every changed
  object, *only the attributes whose value differs from the loaded one*. What another
  request has committed to the others stays. `Net` and `Flush` in the modules are this
  rule; several of the results below come from it.
* Celery workers take tasks with `acks_late` (`celery_app.py:24`): a task whose worker
  dies is delivered again. `beat` starts budget alerts hourly, the Hub sync every 30
  minutes, reminders, summaries, reports, insights and health scores daily to monthly
  (`celery_app.py:29-66`). Tasks overlap requests and, at worst, themselves.
* A process can die between any two statements; the open transaction is rolled back,
  everything committed or done at an external service stays.

### Components

State is in tables unless said otherwise. *Modelled* and *partly* name the module.

| component | state | operations | talks to | what is hard, and what makes it correct |
|---|---|---|---|---|
| Razorpay billing (`billing/service.py`, `workers/billing_tasks.py`, `plan_limits.py`) — **partly, `RazorpayBilling`** | `user_subscriptions` (one row per user), `payment_history`, notices | subscribe, cancel, admin and checkout grants, nine webhook kinds, trial verification, sync sweep | Hub and Razorpay by HTTP; webhooks relayed back through `service/router.py` | rows loaded before a Hub call and written after it; webhooks late, twice, out of order; lost answers. No paid plan without a mandate, none after its end, one chargeable mandate per user, one row per payment, every purchase reported |
| Stripe billing (`billing/service.py`, `stripe_service.py`) — **partly, `StripeBilling`** | the same rows | checkout, cancel, webhook | Stripe | events repeated, a new subscription beside an old one. The row says what Stripe says |
| Categories (`categories/service.py`, `default_tree.py`) — **partly, `CategoryTree`, `ItemCategorizer`** | `categories` (parent, level), keywords | create, rename, move, delete, seed, list, tree, keywords | budgets and expenses refer to them | the level is stored apart from the parent; checks are made before other requests commit. Three levels, no cycle, spending reaches the main category |
| Expenses (`expenses/*`, `idempotency.py`) — **partly, `ExpenseLedger`, `SpendingFigures`, `ItemCategorizer`** | `expenses`, `idempotency_keys` | save, bulk save, update, recategorize, delete, list, summary | categorizer, budgets, notices | a save takes seconds and clients retry it. In the ledger once; truthful answers |
| Categorizer (`ai_categorizer.py`) — **partly, `ItemCategorizer`** | learned keywords | suggest, learn | language model | three tries with seconds between them. What was taught is kept to, and in its own book |
| Budgets (`budgets/service.py`) — **partly, `ExpenseLedger`, `CategoryTree`, `SpendingFigures`** | `budgets.spent`, month overrides | create, update, monthly amount, delete, recalculate, figures of a month | reads expenses and categories | a derived figure, summed and written in two steps. The figure is the ledger's |
| Budget alerts (`notification_tasks.py:18-70`, `expenses/router.py`) — **partly, `ExpenseLedger`** | `notifications` | inline alert, hourly task | WhatsApp, push | either can die. Overspending is alerted about, by the task once a day |
| Scheduled notices, tracked subscriptions, inbox (`notification_tasks.py`, `subscriptions/`, `notifications/`) — **partly, `Notices`** | `notifications`, `tracked_subscriptions` | reminders, summaries, track, edit, list, read, delete | push | one transaction over all users: one bad row stops everybody's; redelivered tasks. Reminded in time, and once |
| Family groups (`family/service.py`) — **partly, `FamilyGroups`** | groups, members, contributions | create or auto-create, invite, accept, cancel, contribute, the family page | users' phones | which family is looked up by number and then written. One family, no double, a page that adds up |
| One-time codes (`auth/service.py`) — **partly, `OtpStore`** | Redis, or `otp_codes` when Redis is away | send, verify | SMS, WhatsApp, e-mail | two stores of one code; check-then-act. A code is used once, in time, within its guesses |
| Accounts and sessions (`auth/*`, `token_blacklist.py`) — **partly, `PhoneAccounts`** | `users`, blacklist in Redis | register, log in, refresh, log out, change the number | Firebase | find-or-create by spellings of a number. One person, one account; a logout ends a session |
| Rate limits and lockout (`core/rate_limit.py`) — **partly, `LoginLockout`** | counters and locks in Redis | count, lock, clear | e-mail | atomic commands, but several per request. No more guesses than allowed |
| Monthly cycle (`utils/period.py`) — **modelled, `MonthCycle`** | `month_start_day` | windows of a start day | all figures | boundaries of months, February, the turn of the year. Cycles adjoin |
| Reports, analytics, dashboard, health score (`reports/`, `analytics/`, `dashboard/`, `ai/`) — **partly, `SpendingFigures`** | none of their own | figures | expenses, categories, cycle | eight services that each sum the same rows. They agree |
| Receipts (`ocr/service.py`) — **partly, `ReceiptScan`** | key rotation in the process | scan | Groq | overlapping strips, refused keys. Each line once; told why it failed |
| Savings goals (`savings_goals/`) — **modelled, `SavingsPots`** | `savings_goals` | create, contribute, edit, delete | – | read-modify-write. What was paid in is there |
| Wallets, content, support, Service API queries, delivery helpers, start-up — not modelled | – | – | – | CRUD, queries, sends (section 10) |

The `note` of every component in `PROJECT.json` says what is left out of those that are
partly modelled. The hazards there (40) are the list the properties work from, each at
its line and with the properties that watch it.

### How the modelled components interact

Billing shares nothing with the others but the user. `CategoryTree` and `ExpenseLedger`
meet in two places: a budget sits on a main category (`_resolve_root_category`), and
what it counts are the expenses in that category's descendants (`get_descendant_ids`).
`CategoryTree` proves the fact the ledger relies on, that the walk up and the walk down
agree (`RollsUp`); `ExpenseLedger` takes it as its constant `MainOf`. `SpendingFigures`
composes the same three (rows, a changing tree, budgets on it) with `MonthCycle`, for
what is *shown*: there a drag or a delete does happen under existing rows.
`ItemCategorizer` says which category a save gets and which keywords decide it;
`ExpenseLedger` takes the answer as any category or none. `FamilyGroups` decides whose
book a family expense is in; `SpendingFigures` takes the family as given.
`PhoneAccounts` and `FamilyGroups` both model `PUT /users/me`, each for its own look-up
by number. `OtpStore` tells `PhoneAccounts` that a number was verified; the latter
models every login that follows, without asking how the number was verified.

## 2. RazorpayBilling

**State.** `row` is `user_subscriptions`: plan, status, Razorpay id, cancel flag and
whether `hub_synced_at` is set. `hist` counts payment rows by payment, `refunded` and
`notes` follow. `life`, `owner`, `told`, `sent` are Razorpay: the state of each mandate,
whose it is, whether its id reached the checkout, and every webhook raised. `hubTx` is
what has been reported to the Hub. `sess` is what each thread holds: the loaded row
`snap`, the event, the new mandate. `closed` and `comped` are history variables for the
properties.

**Actions.** Each handler is a load step, a step per Hub call and a commit step.
`SubscribeLoad/CancelOld/Create/Commit` are `create_razorpay_subscription`
(`service.py:113-221`), with both refusals and the unique-constraint race;
`CancelLoad/Hub/Commit` are `cancel_subscription`; `GrantLoad/Commit` are the admin's
`update_user_plan` and the checkout's `_activate_plan`; `HookReceive`,
`HookStatus/Charged/Downgrade/Refund`, then `HookVerify/Insert`, `HookReport`,
`HookNotify` are `handle_razorpay_webhook`; `SyncSelect/Load/Accepted/Failed` are
`_retry_hub_sync` and the sweep, whose load may see the row again or the object its
first query left in the session. `RazorpayMoves` and `RazorpayRefunds` are the outside
world: a mandate's life cycle, where only somebody who was given the id can authenticate
it. Webhooks are delivered in any order, any number of times, or never, because `sent`
only grows. The Hub may *refuse* (no effect, error) or *lose* its answer (effect,
error).

**Abstractions.** Dates (`trial_end`, the current period) are left out, as no guard here
reads them. The Free plan exists (`main.py` seeds it) and there is one paid plan. A
mandate has at most one verification and one monthly payment id; a payment's rows are
counted up to `MaxRows`. `completed` behaves as `cancelled`. A thread that takes several
roles (`Web = Relay = {p1}`) runs them one after the other.

**Properties.** `NoResurrection`: after the end of a mandate is committed no late
webhook or running request gives its user the plan back. `EntitlementBacked`: nobody is
on the paid plan without a mandate of his own that was authenticated, or a grant.
`OneOngoingMandate`: a user has one mandate Razorpay can debit. `PaymentRecordedOnce`,
`CanceledMeansEnded`, `StampTruthful`, `PaidPlanKept`, and the liveness of the sweep,
`UnsyncedIsResolved`.

## 3. CategoryTree

**State.** `tree` holds a row per category id (user, family group, parent, name, level),
`Unborn` before and `Gone` after it; `budgetOn` is `budgets.category_id`; `sess` holds
what a request has loaded, added or resolved.

**Actions.** `CreateLoad`, `UpdateLoad` (rename and drag-drop), `DeleteLoad` check and
load; `InsertCommit`, `UpdateCommit`, `DeleteCommit` commit against foreign keys as they
are then. `SeedStart` and `SeedNode` are `seed_default_categories`, one find-or-create
at a time over one path of `DEFAULT_TREE`; `BudgetLoad` resolves a category to its root
(`get_root_id`, at most three hops) and `BudgetCommit` writes it. `DescendantIds` is
`get_descendant_ids`; `Cascade` is `ON DELETE CASCADE` as a least fixed point; `ListOf`
and `TreeOf` are the two listings. The constant `Moves` says which categories clients
drag: leaves, branches, neither.

**Abstractions.** Names and one default path stand for the strings and the whole default
tree. Deleting a category that has become its own ancestor is refused by the ORM's unit
of work, which is how `DeleteLoad` has it. Keywords are in `ItemCategorizer`; icons and
order are not modelled, nor that expenses lose their category.

**Properties.** `LevelIsDepth`, `RollsUp`, `BudgetOnMain`, `ListMatchesTree`,
`SiblingsDiffer` and `PrivateDeletes`, which fail for different reasons: the "habits" of
`MCCategoryTreeHabits` keep the reasons apart (`...Undragged`, `...Unshared`,
`...Shared`).

## 4. ExpenseLedger

**State.** `ledger` (expenses), `budgets`, `stored` (`idempotency_keys`), `alerts` (the
budget notices of the last 24 hours, the inline one and the worker's count apart),
`sess` and `calc` (a thread's request, and the budget it is writing or summing),
`picked` (a worker's query result). History: `origin` (the save and item an expense was
made for), `replies`, `broken` (saves that died after inserting) and `owed` (users whose
budgets a request died before summing).

**Actions.** A save is: look up the key (`SaveReplay` or `SaveStart`), the categorizer
answers after any time, `SaveInsert` commits one item, `RecalcList`, then
`RecalcLoad/Sum/Write` for every active budget, `SaveNotify` (the inline alert, which
looks for a budget on exactly the expense's category), and after the last item
`SaveStore`. A conflict on the key rolls the stored row back and answers the request's
own expenses. Edits, recategorization and deletes commit and then recalculate in the
same way. Budget requests: create, update, monthly amount, delete. The error paths are
actions too: the expense deleted before it is answered (`SaveLost`), an edit of a
deleted row (`EditFails`), a budget deleted between load and write (`RecalcFails`: the
UPDATE finds no row and the request fails although its expense is committed) or before
it is loaded (`RecalcGone`: skipped, or, when an earlier commit has expired the object,
the whole loop is silently given up: `expenses/service.py:404`). The worker selects,
then inserts in one commit; `AlertsAge` lets the 24 hours pass; `Crash` and `WorkerDies`
may hit anywhere.

**Abstractions.** One budget period, no dates; the alert threshold is folded into the
limit; large-expense and family notices, family expenses and month overrides are left
out; what a text is about is a topic; categories do not change.

**Properties.** `RepliesTruthful`: an answer, fresh or replayed, names one expense per
item of that very save. `OnceUnlessBroken`: a retried save is in the ledger once, unless
a request for it died halfway. `SpentExact`: when nothing runs, the column is the
ledger's sum unless a request died before summing. `OverspendAlerted` (liveness) is
stated over the ledger's sum, not the column, so it needs the recalculation, the inline
alert and the task together. `WorkerAlertsOnceADay`.

## 5. FamilyGroups

**State.** `rows` are the memberships (`Unborn`, then a record, then `Gone`), `groups`
the owner of each family, `phone` a number with the way it is written, `spent` and
`book` the personal and family spending of the cycle, `job` what a thread has looked up.

**Actions.** Every endpoint looks and then writes: `CreateStart/Commit` are
`create_group`; `InviteStart`, `AutoCommit` (the family an invitation founds),
`InviteCheck`, `InviteInsert` are `invite_member`; `AcceptStart/Commit`,
`CancelStart/Commit`, `ShareStart/Commit` the rest. `Seen` is `_get_user_group`: the
joined families by number, else those one founded; where a query has no order, any of its
rows. `SpendFamily` does not ask whether the spender is a member, as the code does not.
`Dies` ends a request between its look and its write.

**Abstractions.** One cycle; spending is counted up to `MaxSpent`; group names and
notices are left out.

**Properties.** `FoundsOne`, `NumberOnce`, `JoinedIsSeen`, `HouseholdWithinMeans` each fail
under some kind of traffic; `MCFamilyGroups` says of which kinds they hold:
`NoDoublesInTurn`, where requests come one at a time a user founds one family at most and
a number is in a family once; `JoinedIsSeenUnmoved`, a user who accepted an invitation is
shown that family, unless the number was changed; `MeansInTurn`, a household has no more
than its members earn. `BreakdownComplete` holds of
all: the lines of the family page are all members' and add up to its total, former and
foreign spenders included.

## 6. Login: OtpStore, OneTimeCode, PhoneAccounts, LoginLockout

**OtpStore.** `cache`, `attempts`, `cooldown`, `sends` are Redis; `table` is `otp_codes`;
`up` says whether calls to Redis succeed, and may turn between any two. A request makes
one store call per step: `SendStart`, `SendCount`, `StoreInRedis`, `StoreClear`,
`StoreInsert`, `Send`; `VerifyStart` (count the guess, or void the code), `VerifyRead`,
`VerifyMatch`, `VerifyFind`, `VerifyTake`. When a call fails the code goes on with
Postgres, or without the limit. `tried` and `accepted` are history.

**OneTimeCode** is the abstract specification: one live code per contact, the one issued
last; accepted at most once, in time, within `MaxTries` guesses; taken away by nothing
but time, a newer code, or too many guesses. `MCLogin!CodesKeepPromise` is
`Promise!Spec` under the refinement mapping `live <- Usable`, `tries <- Counted`: a step
of the store is a step of the promise or a stutter. It is claimed where requests come
one at a time and Redis stays there, or stays away: an outage leaves a code in each
store, and overlapping submissions are both accepted (read and delete are two calls,
`auth/service.py:176`). `GuessesCapped` says what is left of the promise under overlap: a code may be compared
`MaxTries` times for each thread, and once more, as each thread that has stored a code may
forget the guesses that others made meanwhile.
`AttemptsExpire` waits for the code, as the counter of a login code lives as long as it.

**PhoneAccounts.** `Register`/`RegisterInsert` look for a *spelling*,
`Login`/`LoginCreate`/`LoginAdopt` for a *number* and rewrite the spelling to E.164;
`users.phone` is unique by spelling. `Refresh`, `RefreshIssue`, `Logout`, `Expire` are
the session; `ChangePhone`, `Suspend` come from the user and admin services.
`OneAccountSteady`: with one spelling, one account, whatever overlaps. `LogoutEnds`:
a token logged out buys nothing more.

**LoginLockout.** `Arrive`, `Check`, `Clear`, `Fail`, `Lock` are the Redis commands of
`POST /auth/login`, address first, then account. `MissesBounded`: wrong passwords tried
on a key stay under its limit, plus those already past the check. `LocksLastInTurn`:
only time lifts a lock, if logins do not overlap.

## 7. MonthCycle and SpendingFigures

`MonthCycle` is `utils/period.py` as operators on dates (a record of year, month, day):
`PeriodWindow`, `ResolveAnchor`, `CurrentWindow`, `PreviousWindow`, `RecentWindows`.
`DayAfter` and `MonthDays` are the calendar.

`SpendingFigures` has the rows, the tree, the start days, incomes and today; its actions
save, correct and delete rows, drag and delete categories, change a start day or an
income, and pass midnight. Each page is one operator translated from its own service:
`Monthly`, `Trend`, `Categories`, `Breakdown`, `PaymentMethods`, `YearlyByMonth`
(analytics), `MonthlyReport`, `YearlyReport`, `CsvReport`, `TaxReport`, `Summary`,
`IncomeVsExpense`, `Dashboard`, `ExpenseSummary`, `ExpenseList`, `Profile`, `FamilyPage`,
`BudgetSpent`, `HealthScore`, `Forecast`. `Scope` and `ScopeStartDay` say whose rows and
whose month each takes; they differ from page to page as in the code.

**Properties.** `PersonalPagesAgree` and `FamilyPagesAgree` say which pages must show the
same number and by how much the two groups of personal pages differ (what the user spent
for the family). `CountedOnce`: no day in two cycles or in none, no row in two
categories or in none, also when a drag has made a cycle in the tree or hung a category
in the other book (the code asks for the owner only); a budget on a main category counts
what the breakdown shows for it, unless drags have made the tree deeper than the budget's
query looks, or hung below it what is of another book (`NoDeeper`, `OneBook`). `CycleTurnsOver`:
at the midnight that ends a user's month "this month" becomes "last month".
`SpendingNeverScores`: removing a row of this month never lowers the health score.

**Abstractions.** Amounts are whole numbers; percentages, colours, merchants and the PDF
are left out. `HealthScore` takes the number of budgets kept as an argument and the
property bounds it on both sides.

## 8. Services: Notices, ReceiptScan, SavingsPots, StripeBilling, ItemCategorizer

**Notices.** `Beat` begins a day and queues the tasks; `Select` reads what
`send_subscription_reminders` will remind of, with its 24-hour guard `Recent` (a note of
yesterday counts or not, by the hour); `Remind` inserts for all users in one commit, or
for none when a name holds a quotation mark; `WorkerDies` puts the message back
(`task_acks_late`); `Summarise` is the two summaries, which always fail.
`Track/Edit/Untrack` and `Open/SeedDummies/MarkRead/Delete` are the two services.
`NoticesOnce`: one reminder per subscription, name and day although tasks are run again.
`RemindedInTime`: who has a renewal today (`get_renewals`) was told in the three days
before, if one of the last two days' runs got through.

**ReceiptScan.** `SplitIntoStrips` is the arithmetic of the bands; `Begin`, `Read`,
`Refuse` (the next key, a wait, or giving up the strip), `Wake`, `Err`, `TimeOut` are one
scan; `quota` and `turn` are shared by all. `Answers` are what the model says: the lines,
twice, or stuck on the last. `EachLineOnce`: the strips leave no line cut, and what two
of them show is listed once. The constant `Alike` is the similarity test.

**SavingsPots.** `Contribute`, `Update` load, `Commit` writes the columns that differ.
`SavedIsGiven` with one thread that pays in, while another edits.

**StripeBilling.** Stripe is `Collect`, `CollectFails`, `Abandon`, `End`, which put
events on `wire`; `Arrive` and `ArriveAgain` are `handle_webhook`, in order and repeated.
`RowFollowsStripe`: once all is delivered the row is of its subscription's status and
plan, and an event of another one has not touched it, unless the user has taken the
Free plan since.

**ItemCategorizer.** `words` are the keywords, `kept` the categories. `Save` and
`SaveByName` begin a request, `Match` (the deepest, then longest, keyword of the book), `Reply`/`NoReply` (the
model, or General), `Build` (re-reads the category), `Insert` (foreign key). `Teach` is
`learn_keyword` and `add_keyword`. Strings are the relations `Within`, `Tokens`,
`Length`, `Named` between texts. `FiledAsTaught`: in the right book, and no higher than
the category the text was taught for, whatever is deleted meanwhile.

## 9. What is checked, found and proved

### The runs

Twelve runs; all bounds are in the `.cfg` files and in the `MC` modules.

| run | checks | instance, and why it is enough |
|---|---|---|
| `billing_interleaved` | `NoResurrection`, `EntitlementBacked`, `OneOngoingMandate` | one user, two mandates, one thread for the user and one for webhooks, lost Hub answers. Two mandates are what a re-subscription takes; one thread on each side gives every overlap of a webhook with subscribe and cancel. Webhook kinds are those that change a trial, plus `cancelled`, which the Hub's own cancel raises |
| `billing_in_turn` | `PaymentRecordedOnce`, `CanceledMeansEnded`, `StampTruthful`, `PaidPlanKept` | one mandate, one thread for every role: charges, refunds, pauses, grants, the sync, a Hub that refuses, crashes between any two steps. Interleaving is excluded, because two of these fail with it (below) |
| `billing_sweep` | `UnsyncedIsResolved` | liveness under `SweepFairness`, one mandate, a worker of its own |
| `tree_habits` | `LevelIsDepth`, `RollsUp`, `BudgetOnMainUndragged`, `SiblingsDifferShared`, `ListMatchesTreeUnshared`, `PrivateDeletes` | two threads, two users in one family, four categories: one more than a path has levels, so that a tree can try to become too deep. Habits: one user's requests overlap; leaves are dragged; a family tree is shared |
| `ledger_in_turn` | `OnceUnlessBroken`, `SpentExact`, `OverspendAlerted` | one thread and one worker, every request there is, crashes; two expenses of 1 against a limit of 2, so that the second save crosses it and a delete undoes it |
| `ledger_overlap` | `RepliesTruthful`, `WorkerAlertsOnceADay` | two threads and one worker. A variable `traffic` picks one of: retried saves of one key on both endpoints (a bulk save has two items, three ids in all, enough for a duplicate of the single one); a budget edited and expenses deleted while expenses are saved; budgets created and deleted while they are summed |
| `family` | `NoDoublesInTurn`, `JoinedIsSeenUnmoved`, `MeansInTurn`, `BreakdownComplete` | two families, four memberships, two threads, two users (three in one habit): enough for a user with a family of his own and a joined one. Habits: overlap; one at a time; spending; changing numbers |
| `login` | `CodesKeepPromise`, `GuessesCapped`, `OneAccountSteady`, `LogoutEnds`, `MissesBounded`, `LocksLastInTurn` | codes: one contact, three codes, two guesses, two sends, two threads, Redis there, away, or turning; accounts: two numbers in two spellings, three ids, so that a double of each can appear, two tokens; passwords: an address with limit 3, an account with limit 2, two logins |
| `figures` | `PersonalPagesAgree`, `FamilyPagesAgree`, `CountedOnce`, `CycleTurnsOver`, `SpendingNeverScores` | two members with start days 1 or 8, two rows on five dates around the turn of a year and a leap day, today from 28 February to 9 March 2024, which turns over both cycles; three categories, one of them the family's. Habits: time; the tree, where all months start on the 8th; amounts and incomes |
| `services` | `NoticesOnce`, `RemindedInTime`, `EachLineOnce`, `SavedIsGiven`, `RowFollowsStripe`, `FiledAsTaught` | five modules that share nothing, one per behaviour: reminders over five days (two subscriptions, one edit, one note deleted, the worker dies); an inbox; two scans of one or two strips on two keys with a quota of one; one goal; two Stripe subscriptions and plans, two invoices each, three events under way; an expense filed while two keywords and a category come and go |
| `ledger_retry_duplicates`, `scan_rate_limited` | one property each, **violated** | see the findings |

*Habits.* Where a property can fail for several independent reasons, or modules share
nothing, a variable chosen in the initial state picks a kind of behaviour, and the steps
are constrained by it (`habit`, `traffic`). A property that is said only of some kinds
names them. Further bounds on steps are constraints in the MC modules: ids are taken in
order, since which id is used makes no difference; the rest is said in a comment above
each. Symmetry is used on ids, threads and plans, in runs without liveness only.
Deadlock is checked for billing and the ledger. Elsewhere the instance may come to an
end (a tree uses up its ids, the last day passes), so those runs switch it off.

Each passing property is paired in `PROJECT.json` with a mutant of the code that breaks
it: the operators marked `\* mutant` in the modules (a dropped look-up, a missing reset,
a commit that forgets the recalculation). They show what the property would catch.

**Fairness.** *Billing:* strong fairness of the sweep's selecting, loading and
successful report. `beat` starts it every 30 minutes whatever users do, each sweep goes
through all rows it selected, and a Hub asked again and again answers in the end.
Strong, because users and webhooks disable the steps in between. Nothing is assumed of
users, webhooks or crashes. *Ledger:* weak fairness of a request that has begun (a
thread that is not killed goes on; a crash ends the request and is recorded in `broken`
or `owed`) and strong fairness of the worker's two steps: the task is started every
hour, and not killed halfway every single time. `MCExpenseLedger!InTurnSpec` states the
same fairness over the bounded steps. The other modules state safety only.

### Findings

* **A retry during a slow save duplicates it** (`ledger_retry_duplicates`). The key's
  row is written at the end, so a retry sent while the first request still runs (the
  case the table is documented to be for) finds nothing.
* **A scan refused by every key is told the photo is unreadable** (`scan_rate_limited`).
  Each strip's 429 is caught (`ocr/service.py:448`), so a photo of several strips never
  reaches the answer written for it.

### Edges

The passing runs mark where a property stops holding. Change the constants or the habit,
and TLC finds, or reading the code for the model shows:

* *Billing.* Two deliveries of one charge at the same time are both recorded
  (`service.py:478`: look-up, then insert, no unique column). Subscribe loads the row,
  calls the Hub twice and commits what differs, so a webhook that commits meanwhile
  leaves a new mandate on a canceled or Free row (comment at 117-119). Re-subscribing
  keeps `hub_synced_at`, so a failed report of the second trial is never repeated
  (`billing_tasks.py:18-22`). With two subscribing threads, or a Hub that refuses,
  `OneOngoingMandate` fails: the unique `user_id` protects the row, not the mandates.
* *Stripe.* A created event does not reset `cancel_at_period_end`, and one of a second,
  abandoned checkout replaces the paid row; a free checkout and a failed cancel leave
  Stripe charging; invoice events have no look-up and are recorded once per delivery
  (785, 804), which is why `RowFollowsStripe` says "at least".
* *Categories.* A dragged branch makes four levels or a cycle; a dragged leaf takes a
  budget off its main category; two seeds at once seed twice; a category created below a
  shared one has no `family_group_id` and is missing from a listing.
* *Ledger.* With two threads `SpentExact` fails (`budgets/service.py:332-334` sums and
  writes later), with two workers `WorkerAlertsOnceADay`. A moved category leaves `spent`
  as it was until the next expense (308), while the pages already show the new figure.
* *Families.* Overlap lets a user found two families, a number be invited twice, and an
  invitation be accepted while it is withdrawn, which ends a membership. A changed phone
  loses the family, and the contribution defaulted by `accept_invite` is not held
  against spending as `set_contribution` holds its own. Members of one name share a line
  of the breakdown (`MCFamilyGroups` gives each a name of his own).
* *Login.* Two spellings make two accounts (`register`, `send-otp` look for the exact
  one, against the docstring of `normalize_phone`). Overlapping submissions of a code
  both succeed; after an outage the older code in the other store is still good. A
  right password that was past the check lifts a lock another login has just set.
* *Figures.* Personal analytics leave family spending out, reports, dashboard and summary
  leave it in, and personal budgets count it. `get_monthly_report` says "calendar month"
  and uses the cycle, the monthly CSV the calendar. Before the start day the labels of
  this month and the last show the same window (`period.py:77`).
* *Categorizer.* A correction is passed over when a keyword of a deeper category
  matches; a one-word item with a hyphen never matches the keyword learned from it; the
  bulk save's "exact" name is `ilike '%name%'` over all of the user's categories,
  a family's too (`expenses/router.py:294-299`).
* *Notices.* A quotation mark in one name stops everybody's reminders, after the pushes
  have gone out (118); the summaries never store anything, as `is_read` has no default;
  `next_renewal` never advances; a deleted reminder may come again the same day; whoever
  empties an inbox gets the demonstration notes back.
* *Receipts.* A time-out drops the strips already read; a given-up strip is not mentioned
  in the answer; the cut of a stuck run drops its first, genuine line.
* *Goals.* Two contributions at once lose one (80), and `completed` never comes off.

### What is proved

A theorem holds for all values of the constants that the named assumptions allow. Those
(`BillingAssumption`, `TreeAssumption`, `LedgerAssumption`, `FamilyAssumption`,
`OtpAssumption`, `LoginAssumption`, `FiguresAssumption`, `NoticesAssumption`,
`ScanAssumption`, `PotsAssumption`, `StripeAssumption`, `GuessAssumption`) say that
null values are not ids, that functions have the domains they are used on, that limits are
positive, and that families, categories, words and threads are finite in number;
`OneAccountPerNumber` is what `OneAccountHolds` proves of the accounts. TLC evaluates each
on the instances. Where a theorem needs more, it says so as an `ASSUME` of its own, named
below; the runs use instances in which that holds, and *Edges* says what happens where it
does not. The habits of the MC modules are part of `HabitSpec`, `LoginSpec` and
`ServicesSpec`: there they bound what the *clients and the outside world* do, not how many
there are of them.

Of the 40 properties of the passing runs 38 are theorems; liveness is left to TLC.

**RazorpayBilling** — any number of users and mandates, any events. `TypeCorrect`,
`StampIsTruthful`, `EntitlementIsBacked` and `NoResurrectionHolds` need no more, under any
overlap and any Hub fault. None of the properties is inductive alone. What carries them is
`Links`: whatever a session has in hand still exists and belongs to the right user (the
row it loaded, the mandate it was given, the webhook it handles), rows name mandates of
their own user, payments belong to users with rows. On it stand `StampInv` (what is
reported is reported for this user), `EntitlementInv` (a mandate that is alive, an event
that was raised and a row that counts each have an authentication behind them, the row
perhaps a grant) and `ResurrectionInv` (the row of an ended mandate is on the Free plan;
a mandate about to be written down is named nowhere else yet; and a handler that loaded
the Free plan, and so will not write it, finds it still there when it commits). The last
is where the attribute-wise flush matters: `FlushRowFields` and the lemmas that follow
it split every commit by attribute.
`OneOngoingMandateHolds` assumes one thread for the users' requests and a Hub that does
what it is asked (its answers may be lost); webhooks overlap all the same. `MandateInv`:
a mandate whose id was told and that is not over is the one its owner's row names, and a
request that has come to making a new one holds the row's id, whose mandate is over.
`PaidPlanKeptHolds`, `CanceledMeansEndedHolds` and `PaymentRecordedOnceHolds` assume one
session at work. `HeldInv` is what it then knows: the row is as it was loaded, the event
is the one that was raised. The others add, each for its property, that what a webhook or
the Hub has said is done, and that a handler about to record a payment has found none.

**CategoryTree** — `TypeCorrect` for all moves; `LevelsAreDepths`, `SpendingRollsUp`,
`BudgetsStayOnMain` under `ASSUME Moves = {}`, because with drags of whole branches the
first two are false, with any drag the third. `DepthInv` adds to the property what
sessions hold: a row about to be inserted hangs one level below a parent that is there,
or below another row of the same insert, and a budget about to be committed is on a root
*if* that category still exists. `RootAndBack` is the lemma that three hops up and two
unfoldings down are inverse in a tree whose levels are depths. The habits are then proved
apart. `HabitInv` and, inside it, `KinInv` (what hangs below a category is of its owner,
what sessions are about to write or delete included) give `BudgetsUndragged` and
`DeletesStayPrivate` in all habits; `DragInv` (a request that drags holds the row as it
is, and hangs a leaf below what is still there) gives `LevelsKept` and
`ListMatchesUnshared`, under `Moves \subseteq {"leaf"}`; `NamesInv` (a family tree has one
owner, and whoever is at work has looked at the siblings of what it will write) gives
`SiblingsDifferInTurn`.

**ExpenseLedger** — `TypeCorrect` and `RepliesAreTruthful`, under every interleaving,
crash and retry. `Safe` says that what a session or a stored response lists was made for
the first items of that very save, and that those ids are taken for good; rows that exist
stay and keep their origin (`Grows`), so other sessions cannot disturb it. `RetriesSaveOnce`
has `ASSUME OneThread` and is what the idempotency key gives without overlap. `KeyInv` adds
that every expense of a keyed save is accounted for (the save has died, is being made,
or is stored) and that there is one stored row per key. `ledger_retry_duplicates` shows
why the assumption is needed. `WorkerAlertsOnce` has `ASSUME OneWorker`: what the worker
has picked it has not alerted about (`AlertInv`). `BudgetsAreExact` has `ASSUME OneThread`
and `SpentInv`: a budget whose figure is not the ledger's sum is still to be summed by the
request at work, or its owner is owed a sum that no later request has made; and what a
request has loaded of a budget, and has summed, is what the tables say.

**FamilyGroups** — `TypeCorrect` and `BreakdownHolds` under every overlap and crash, the
latter where names differ (`OwnNameEach`): the lines of the page are sums over a partition
of what was spent. `JoinedIsSeenHolds` by `UnmovedInv`: while nobody changes a number, a
membership carries its user's, and so does who is about to accept. `NoDoublesHolds` by
`TurnInv`: what a request found is still so when it writes. `MeansHold` adds `PaysInv`,
that each contribution, written or about to be, is within its user's salary; its
assumption `SharesWithinSalaries` is needed as `create_group` does not compare the two.

**Login** — `OneAccountHolds` by `AccountInv` (a look-up by number and the unique spelling
leave no room for a second account where all spell alike), `LogoutEndsHolds`,
`MissesBoundedHolds` by `MissInv` (every miss is counted or will be, and the count passes
the limit only with those who will lock), `LocksLastHolds`. `CodesKeepPromiseHolds` is the
refinement of `OneTimeCode` by `OtpStore`: initial states map to initial states, and every
step to a step or a stutter, from `ThereInv` while Redis answers (the live code was
compared no more often than the guesses counted) and from `AwayInv` while it does not (the
rows left are those not used). `GuessesCappedHolds` adds the bound under overlap by
`OverlapInv`: the comparisons of a code are paid for by the guesses counted, `MaxTries` for
each thread that has yet to forget them, and one under way.

**MonthCycle and SpendingFigures** — for every month, every start day (also those
`_clamp_day` has to move) and every date of a year other than 0, so that there is a month
before: `CyclesAdjoin` (the day after a cycle is the first of the next),
`CurrentHoldsToday`, `OneCycle` (no day is in two) and `CycleBecomesPrevious` (on the day
after a cycle it is the previous one). `Order` makes dates linear, 32 to the month, and
`Bounds` places a cycle with start day `s` between 32·n + s and 32 more, `n` counting
months; the rest is arithmetic and the turns of the month and year. The pages have no
state, so beside types and a finite number of saved rows (`TypeCorrect`) nothing has to be
inductive: `PersonalPagesHold`, `FamilyPagesHold`, `EachCountedOnce` and
`SpendingNeverScored` hold state by state, for any rows, trees, dates and families, and
`CyclesTurnOver` step by step. They use `Sums_proofs`: the fold behind `MapThenSumSet` is
defined on finite sets, does not depend on the order, and adds up over parts and groups.
The way from a category up to its main one is a recursive function, of which `CanClimb`
shows that it has one value also in a tree with loops.

**Services** — `SavedIsGivenHolds` (`PotsInv`: the goal that the one who pays in has
loaded still holds that amount), `RemindedInTimeHolds` (`TimeInv`: what a run has chosen
has a note of the day before, or is in its list, or was told), `NoticesOnceHolds` for one
worker (`OnceInv`: a chosen subscription has no note of that day yet; `PairInv`: an inbox
about to be given its demonstration notes is empty), `RowFollowsStripeHolds` (`CardInv`:
the last event on the wire says what Stripe says, and nothing follows the end of a
subscription; each invoice has a row or an event under way), `FiledAsTaughtHolds`
(`GuessInv`: what a request has found is in its book and, of the keywords that taught its
text and are still there, none is of a deeper category) and `EachLineOnceHolds` (`ScanInv`: a list grows from the top of the photo to its
bottom, so that a line shown before can only be its last, which the comparison with its
last lines always includes). `StripsCover` is the arithmetic of the strips, for photos of
any height. `EachLineOnceHolds` is about receipts whose strips show two lines each, the
second of them the next strip's first, or none (`LinesOf`), and exact similarity.

**Only model-checked.** The two liveness properties, `UnsyncedIsResolved` and
`OverspendAlerted`: liveness under fairness and `ENABLED` are out of the prover's reach.
The violated properties of the two findings are false. Theorems that induct over data take
an operator as a parameter, which no installed prover instantiates; the sums, the folds
over few lines and the way up a tree are proved by the smallest counterexample of a
well-founded order instead (`WFMin`), or by unfolding. No module uses a `RECURSIVE`
operator: the cascade is a least fixed point by quantification, the hops and unfoldings are
written out (the code bounds them by three levels too), and sums are folds.

## 10. Not modelled, and the plan

Left out for good: parsing of free text and bank messages and what the language model
says (`ItemCategorizer` lets it name any category it was shown, or none), image
preparation and Google Vision, delivery of messages (failures are caught and change no
state here), the PDF, static content, support, start-up, wallets (row-by-row CRUD and a
sum over a window of `MonthCycle`).

Next, in this order:

1. `TypeCorrect` for `Notices`, `ReceiptScan` and the login modules as theorems of their
   own (the invariants above contain what the other proofs need of it), and what
   is left of a code's promise when Redis turns away and back, of which nothing is stated.
2. The month overrides of budgets, whose code overwrites later months although its
   comment says otherwise (`budgets/service.py:166`, 175).
3. `ServiceSigning`: the timestamp window against the life of remembered nonces.
4. The reset of a password, whose code lives 3600 s and its counter of guesses 300 s;
   shared budgets, whose members' recalculation is never called.
5. Abstract specifications `Entitlement` (what a user may use, moved only by
   authentications, ends and grants), implemented by `RazorpayBilling`, and
   `RetrySafeSave` (a save happens once, or is broken), implemented by `ExpenseLedger`
   under one thread; each with its refinement run and step-simulation proof.
6. The composition of `CategoryTree` with the ledger: moves and deletes leave `spent`
   stale.
