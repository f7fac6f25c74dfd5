---------------------------- MODULE ExpenseLedger ----------------------------
(***************************************************************************)
(* Expenses, the retry-safe save, budgets and budget alerts: the expense   *)
(* router and service (api/v1/expenses), core/idempotency.py, the budget   *)
(* service (api/v1/budgets/service.py) and the hourly Celery task          *)
(* check_budget_alerts (workers/notification_tasks.py).                    *)
(*                                                                         *)
(* A save is looked up by its idempotency key, its items are inserted one  *)
(* commit each, every budget of the user is summed again after each, and   *)
(* the response is stored under the key last of all.  Each of these is a   *)
(* step: another thread, a crash or the worker may come in between.        *)
(***************************************************************************)
EXTENDS Naturals, Sequences, FiniteSets, FiniteSetsExt

CONSTANTS
  Users, Keys, NoKey,
  Saves,            \* what clients save: [user, endpoint, key]
  Items,            \* the purchases of each save, in order
  Ids,              \* expense ids; an id (a UUID) is never used twice
  Cats, NoCat,
  MainOf,           \* the main category each category is under
  Topics, NoTopic,  \* what a budget's name and an expense's text may be about
  Amounts,
  Limits,           \* the spending at which a budget alerts; 0: no amount set
  Budgets, BudgetOwner,
  Threads, Workers, \* API threads; Celery processes running the alert task
  MaxAlerts,        \* the worker's alerts on a budget are counted up to this
  NoUser, NoSave, NoBudget, Unborn, Gone

Endpoints == {"expenses.create", "expenses.bulk_create"}
Purchase  == [cat : Cats \union {NoCat}, topic : Topics \union {NoTopic}, amount : Amounts]
Expense   == [user : Users, cat : Cats \union {NoCat}, topic : Topics \union {NoTopic},
              amount : Amounts]
Budget    == [cat : Cats \union {NoCat}, topic : Topics \union {NoTopic},
              limit : Limits, active : BOOLEAN, spent : Nat]

ASSUME LedgerAssumption ==
  /\ Saves \subseteq [user : Users, endpoint : Endpoints, key : Keys \union {NoKey}]
  /\ Items \in [Saves -> Seq(Purchase)]
  /\ MainOf \in [Cats -> Cats]
  /\ Amounts \subseteq Nat /\ Limits \subseteq Nat /\ MaxAlerts \in Nat
  /\ BudgetOwner \in [Budgets -> Users]
  /\ NoKey \notin Keys /\ NoCat \notin Cats /\ NoTopic \notin Topics
  /\ NoUser \notin Users /\ NoSave \notin Saves /\ NoBudget \notin Budgets
  /\ Unborn \notin Expense \union Budget /\ Gone \notin Expense \union Budget
  /\ Unborn # Gone

VARIABLES
  ledger,   \* expenses: a row per id, Unborn before and Gone after it
  budgets,  \* budgets, in the same way
  stored,   \* idempotency_keys
  alerts,   \* budget_alert notifications of the last 24 hours: whether a save sent
            \* one, and how many the worker sent
  sess,     \* what each API thread is doing
  calc,     \* the budget each API thread is writing or summing
  picked,   \* what each worker's query has selected
  origin,   \* history: the save, and its item, each expense was made for
  replies,  \* history: the answers clients got to their saves
  broken,   \* history: saves that died after inserting something
  owed      \* history: users whose budgets a request died before summing
dbVars == <<ledger, budgets, stored, alerts>>
history == <<origin, replies, broken, owed>>
vars == <<dbVars, sess, calc, picked, history>>

-----------------------------------------------------------------------------
(* Budgets and the expenses they count *)

LiveBudgets == {b \in Budgets : budgets[b] \notin {Unborn, Gone}}
LiveIds     == {e \in Ids : ledger[e] \notin {Unborn, Gone}}
ActiveOf(u) == {b \in LiveBudgets : BudgetOwner[b] = u /\ budgets[b].active}

\* By category, descendants included; without one, by the words in its name.
Counts(row, e) ==
  IF row.cat # NoCat THEN e.cat # NoCat /\ MainOf[e.cat] = row.cat
  ELSE row.topic # NoTopic /\ e.topic = row.topic

\* A budget without a category or a word it knows keeps the figure it has.
Tracked(row) == row.cat # NoCat \/ row.topic # NoTopic

Total(u, row) ==
  MapThenSumSet(LAMBDA i : ledger[i].amount,
                {i \in LiveIds : ledger[i].user = u /\ Counts(row, ledger[i])})

ReachedPast(row) == row.limit > 0 /\ row.spent > row.limit     \* mutant
Reached(row) == row.limit > 0 /\ row.spent >= row.limit

-----------------------------------------------------------------------------
(* Sessions *)

NoRow  == [cat |-> NoCat, topic |-> NoTopic, limit |-> 0, active |-> FALSE, spent |-> 0]
Idle   == [at |-> "idle", user |-> NoUser, save |-> NoSave, made |-> <<>>, edits |-> {}]
NoCalc == [budget |-> NoBudget, snap |-> NoRow, new |-> NoRow, total |-> 0,
           queue |-> {}, every |-> FALSE, expired |-> FALSE]
Doing(place, u, edits) == [Idle EXCEPT !.at = place, !.user = u, !.edits = edits]
Begin(p, s)    == sess[p].at = "idle" /\ sess' = [sess EXCEPT ![p] = s]
Goto(p, place) == sess' = [sess EXCEPT ![p].at = place]
Finish(p)      == /\ sess' = [sess EXCEPT ![p] = Idle]
                  /\ calc' = [calc EXCEPT ![p] = NoCalc]

\* The request dies.  What it committed stays.
Unsummed(p) == sess[p].at = "recalc.list" \/ calc[p].queue # {}
Dies(p) ==
  /\ Finish(p)
  /\ broken' = broken \union (IF sess[p].made = <<>> THEN {} ELSE {sess[p].save})
  /\ owed' = owed \union (IF Unsummed(p) THEN {sess[p].user} ELSE {})
  /\ UNCHANGED <<origin, replies>>

\* UPDATE writes the attributes that differ from the loaded row.
Net(cur, loaded, new) == IF new = loaded THEN cur ELSE new

-----------------------------------------------------------------------------
(* POST /expenses and /expenses/bulk-create *)

SavedAnywhere(s) == {r \in stored : s.key # NoKey /\ r.key = s.key}      \* mutant
\* get_cached_response
Saved(s) == {r \in stored : /\ s.key # NoKey
                            /\ r.user = s.user /\ r.endpoint = s.endpoint /\ r.key = s.key}

SaveReplay(p, s) ==
  /\ sess[p].at = "idle"
  /\ \E r \in Saved(s) : replies' = replies \union {<<s, r.response>>}
  /\ UNCHANGED <<dbVars, sess, calc, picked, origin, broken, owed>>

\* The AI categorizer may now take many seconds.
SaveStart(p, s) ==
  /\ Saved(s) = {}
  /\ Begin(p, [at |-> IF Items[s] = <<>> THEN "save.store" ELSE "save.insert",
               user |-> s.user, save |-> s, made |-> <<>>, edits |-> {}])
  /\ UNCHANGED <<dbVars, calc, picked, history>>

\* A category the client did not give is the categorizer's choice, if any.
Resolved(item) == IF item.cat = NoCat THEN Cats \union {NoCat} ELSE {item.cat}

SaveInsert(p) ==
  LET s == sess[p].save
      n == Len(sess[p].made) + 1
      item == Items[s][n]
  IN  /\ sess[p].at = "save.insert"
      /\ \E i \in Ids, c \in Resolved(item) :
           /\ ledger[i] = Unborn
           /\ ledger' = [ledger EXCEPT ![i] = [user |-> s.user, cat |-> c,
                                   topic |-> item.topic, amount |-> item.amount]]
           /\ origin' = [origin EXCEPT ![i] = <<s, n>>]
           /\ sess' = [sess EXCEPT ![p].at = "recalc.list", ![p].made = Append(@, i)]
      /\ UNCHANGED <<budgets, stored, alerts, calc, picked, replies, broken, owed>>

\* _check_and_notify looks for a budget on the expense's own category, then the
\* response is built; both need the row to be there still.
OverOn(u, e) == {b \in ActiveOf(u) : ledger[e].cat # NoCat /\ budgets[b].cat = ledger[e].cat
                                     /\ Reached(budgets[b])}
SaveNotify(p) ==
  LET e == sess[p].made[Len(sess[p].made)]
  IN  /\ sess[p].at = "save.notify" /\ e \in LiveIds
      /\ \/ OverOn(sess[p].user, e) = {} /\ UNCHANGED alerts
         \/ \E b \in OverOn(sess[p].user, e) :
              alerts' = [alerts EXCEPT ![b].inline = 1]
      /\ Goto(p, IF Len(sess[p].made) < Len(Items[sess[p].save])
                 THEN "save.insert" ELSE "save.store")
      /\ UNCHANGED <<ledger, budgets, stored, calc, picked, history>>
SaveLost(p) ==
  /\ sess[p].at = "save.notify"
  /\ sess[p].made[Len(sess[p].made)] \notin LiveIds
  /\ Dies(p)
  /\ UNCHANGED <<dbVars, picked>>

\* store_response: a concurrent request with the same key may have stored its
\* own (IntegrityError, rolled back); this one answers what it made itself.
SaveStoreForgotten(p) ==   \* mutant: the response is not stored
  /\ sess[p].at = "save.store"
  /\ replies' = replies \union {<<sess[p].save, sess[p].made>>}
  /\ Finish(p)
  /\ UNCHANGED <<dbVars, picked, origin, broken, owed>>
SaveStore(p) ==
  LET s == sess[p].save
  IN  /\ sess[p].at = "save.store"
      /\ stored' = IF s.key = NoKey \/ Saved(s) # {} THEN stored
                   ELSE stored \union {[user |-> s.user, endpoint |-> s.endpoint,
                                        key |-> s.key, response |-> sess[p].made]}
      /\ replies' = replies \union {<<s, sess[p].made>>}
      /\ Finish(p)
      /\ UNCHANGED <<ledger, budgets, alerts, picked, origin, broken, owed>>

-----------------------------------------------------------------------------
(* Update, recategorize, delete *)

Edit == [id : Ids, loaded : Expense, new : Expense]
EditStart(p, u, edits) ==
  /\ Begin(p, Doing("edit.commit", u, edits))
  /\ UNCHANGED <<dbVars, calc, picked, history>>

UpdateLoad(p, u) ==
  \E i \in LiveIds, x \in Purchase :
    /\ ledger[i].user = u
    /\ EditStart(p, u, {[id |-> i, loaded |-> ledger[i],
         new |-> [user |-> u, cat |-> x.cat, topic |-> x.topic, amount |-> x.amount]]})

\* Every expense without a category may be given one.
RecategorizeLoad(p, u) ==
  LET todo == {i \in LiveIds : ledger[i].user = u /\ ledger[i].cat = NoCat}
  IN  \E choice \in [todo -> Cats \union {NoCat}] :
        EditStart(p, u, {[id |-> i, loaded |-> ledger[i],
                          new |-> [ledger[i] EXCEPT !.cat = choice[i]]] :
                         i \in {j \in todo : choice[j] # NoCat}})

Edited(row, edit) ==
  [row EXCEPT !.cat    = Net(@, edit.loaded.cat, edit.new.cat),
              !.topic  = Net(@, edit.loaded.topic, edit.new.topic),
              !.amount = Net(@, edit.loaded.amount, edit.new.amount)]
\* One row that has gone fails all of them.
EditCommitNoSum(p) ==    \* mutant: budgets are not summed after an edit
  /\ sess[p].at = "edit.commit"
  /\ \A d \in sess[p].edits : d.id \in LiveIds
  /\ ledger' = [i \in Ids |-> IF \E d \in sess[p].edits : d.id = i
       THEN Edited(ledger[i], CHOOSE d \in sess[p].edits : d.id = i) ELSE ledger[i]]
  /\ Finish(p)
  /\ UNCHANGED <<budgets, stored, alerts, picked, history>>
EditCommit(p) ==
  /\ sess[p].at = "edit.commit"
  /\ \A d \in sess[p].edits : d.id \in LiveIds
  /\ ledger' = [i \in Ids |-> IF \E d \in sess[p].edits : d.id = i
       THEN Edited(ledger[i], CHOOSE d \in sess[p].edits : d.id = i) ELSE ledger[i]]
  /\ Goto(p, "recalc.list")
  /\ UNCHANGED <<budgets, stored, alerts, calc, picked, history>>
EditFails(p) ==
  /\ sess[p].at = "edit.commit"
  /\ \E d \in sess[p].edits : d.id \notin LiveIds
  /\ Dies(p)
  /\ UNCHANGED <<dbVars, picked>>

DeleteLoad(p, u) ==
  \E i \in LiveIds :
    /\ ledger[i].user = u
    /\ Begin(p, Doing("delete.commit", u,
                      {[id |-> i, loaded |-> ledger[i], new |-> ledger[i]]}))
    /\ UNCHANGED <<dbVars, calc, picked, history>>
DeleteCommit(p) ==
  /\ sess[p].at = "delete.commit"
  /\ ledger' = [i \in Ids |-> IF \E d \in sess[p].edits : d.id = i THEN Gone ELSE ledger[i]]
  /\ Goto(p, "recalc.list")
  /\ UNCHANGED <<budgets, stored, alerts, calc, picked, history>>

-----------------------------------------------------------------------------
(* recalculate_all_for_user, and recalculate_spent of one budget *)

RecalcRequest(p, u) ==
  /\ Begin(p, Doing("recalc.list", u, {}))
  /\ UNCHANGED <<dbVars, calc, picked, history>>

RecalcList(p) ==
  /\ sess[p].at = "recalc.list"
  /\ calc' = [calc EXCEPT ![p] = [NoCalc EXCEPT !.queue = ActiveOf(sess[p].user),
                                               !.every = TRUE]]
  /\ Goto(p, "recalc")
  /\ UNCHANGED <<dbVars, picked, history>>

RecalcLoad(p) ==
  /\ sess[p].at = "recalc"
  /\ \E b \in calc[p].queue \intersect LiveBudgets :
       IF Tracked(budgets[b])
       THEN /\ calc' = [calc EXCEPT ![p].budget = b, ![p].snap = budgets[b]]
            /\ Goto(p, "recalc.sum")
       ELSE calc' = [calc EXCEPT ![p].queue = @ \ {b}] /\ UNCHANGED sess
  /\ UNCHANGED <<dbVars, picked, history>>

\* A budget that has gone is skipped, unless a commit has expired the object
\* that the list still holds: then the whole loop is given up, silently.
RecalcGone(p) ==
  /\ sess[p].at = "recalc"
  /\ \E b \in calc[p].queue \ LiveBudgets :
       IF calc[p].expired
       THEN /\ calc' = [calc EXCEPT ![p].queue = {}, ![p].every = FALSE]
            /\ owed' = owed \union {sess[p].user}
       ELSE calc' = [calc EXCEPT ![p].queue = @ \ {b}] /\ UNCHANGED owed
  /\ UNCHANGED <<dbVars, sess, picked, origin, replies, broken>>

RecalcSum(p) ==
  /\ sess[p].at = "recalc.sum"
  /\ calc' = [calc EXCEPT ![p].total = Total(BudgetOwner[calc[p].budget], calc[p].snap)]
  /\ Goto(p, "recalc.write")
  /\ UNCHANGED <<dbVars, picked, history>>

RecalcWrite(p) ==
  LET c == calc[p]
  IN  /\ sess[p].at = "recalc.write"
      /\ c.budget \in LiveBudgets \/ c.total = c.snap.spent
      /\ budgets' = IF c.budget \notin LiveBudgets THEN budgets
                    ELSE [budgets EXCEPT ![c.budget].spent = Net(@, c.snap.spent, c.total)]
      /\ calc' = [calc EXCEPT ![p].queue = @ \ {c.budget}, ![p].expired = TRUE]
      /\ Goto(p, "recalc")
      /\ UNCHANGED <<ledger, stored, alerts, picked, history>>
\* UPDATE finds no row: the flush fails, and with it the rest of the request.
RecalcFails(p) ==
  /\ sess[p].at = "recalc.write" /\ calc[p].budget \notin LiveBudgets
  /\ calc[p].total # calc[p].snap.spent
  /\ Dies(p)
  /\ UNCHANGED <<dbVars, picked>>

RecalcDone(p) ==
  /\ sess[p].at = "recalc" /\ calc[p].queue = {}
  /\ IF sess[p].save = NoSave THEN Finish(p)
     ELSE Goto(p, "save.notify") /\ UNCHANGED calc
  /\ owed' = IF calc[p].every THEN owed \ {sess[p].user} ELSE owed
  /\ UNCHANGED <<dbVars, picked, origin, replies, broken>>

-----------------------------------------------------------------------------
(* Budget requests *)

\* A category is moved up to its main category.
Settings == [cat : {MainOf[c] : c \in Cats} \union {NoCat}, topic : Topics \union {NoTopic},
             limit : Limits, active : BOOLEAN]
WithSpent(s, n) == [cat |-> s.cat, topic |-> s.topic, limit |-> s.limit, active |-> s.active,
                    spent |-> n]

BudgetCreate(p, b) ==
  /\ budgets[b] = Unborn
  /\ \E s \in Settings : s.active /\ budgets' = [budgets EXCEPT ![b] = WithSpent(s, 0)]
  /\ Begin(p, Doing("recalc", BudgetOwner[b], {}))
  /\ calc' = [calc EXCEPT ![p] = [NoCalc EXCEPT !.queue = {b}]]
  /\ UNCHANGED <<ledger, stored, alerts, picked, history>>

\* update, and set_monthly_amount, which changes the amount only.
BudgetLoad(p, b, place) ==
  /\ b \in LiveBudgets
  /\ Begin(p, Doing(place, BudgetOwner[b], {}))
  /\ \E s \in Settings :
       LET new == IF place = "budget.monthly" THEN [budgets[b] EXCEPT !.limit = s.limit]
                  ELSE WithSpent(s, budgets[b].spent)
       IN  calc' = [calc EXCEPT ![p] = [NoCalc EXCEPT !.budget = b, !.snap = budgets[b],
                                                      !.new = new]]
  /\ UNCHANGED <<dbVars, picked, history>>

BudgetWrite(p) ==
  LET old == calc[p].snap   new == calc[p].new   b == calc[p].budget
  IN  budgets' = [budgets EXCEPT ![b].cat    = Net(@, old.cat, new.cat),
                                 ![b].topic  = Net(@, old.topic, new.topic),
                                 ![b].limit  = Net(@, old.limit, new.limit),
                                 ![b].active = Net(@, old.active, new.active)]
BudgetCommit(p) ==
  /\ sess[p].at = "budget.commit" /\ calc[p].budget \in LiveBudgets
  /\ BudgetWrite(p)
  /\ calc' = [calc EXCEPT ![p] = [NoCalc EXCEPT !.queue = {calc[p].budget}]]
  /\ Goto(p, "recalc")
  /\ UNCHANGED <<ledger, stored, alerts, picked, history>>
MonthlyCommit(p) ==
  /\ sess[p].at = "budget.monthly" /\ calc[p].budget \in LiveBudgets
  /\ BudgetWrite(p)
  /\ Finish(p)
  /\ UNCHANGED <<ledger, stored, alerts, picked, history>>
BudgetFails(p) ==
  /\ sess[p].at \in {"budget.commit", "budget.monthly"}
  /\ calc[p].budget \notin LiveBudgets
  /\ Finish(p)
  /\ UNCHANGED <<dbVars, picked, history>>

BudgetDelete(p, b) ==
  /\ sess[p].at = "idle" /\ b \in LiveBudgets
  /\ budgets' = [budgets EXCEPT ![b] = Gone]
  /\ UNCHANGED <<ledger, stored, alerts, sess, calc, picked, history>>

-----------------------------------------------------------------------------
(* check_budget_alerts *)

AtRiskAnyway == {b \in LiveBudgets : budgets[b].active /\ Reached(budgets[b])}   \* mutant
AtRisk == {b \in LiveBudgets : /\ budgets[b].active /\ Reached(budgets[b])
                               /\ alerts[b] = [inline |-> 0, worker |-> 0]}

WorkerSelect(w) ==
  /\ picked[w] = {} /\ AtRisk # {}
  /\ picked' = [picked EXCEPT ![w] = AtRisk]
  /\ UNCHANGED <<dbVars, sess, calc, history>>
OneMore(n) == IF n < MaxAlerts THEN n + 1 ELSE n
WorkerCommit(w) ==
  /\ picked[w] # {}
  /\ alerts' = [b \in Budgets |-> IF b \in picked[w]
                  THEN [alerts[b] EXCEPT !.worker = OneMore(@)] ELSE alerts[b]]
  /\ picked' = [picked EXCEPT ![w] = {}]
  /\ UNCHANGED <<ledger, budgets, stored, sess, calc, history>>
WorkerDies(w) ==
  /\ picked[w] # {}
  /\ picked' = [picked EXCEPT ![w] = {}]
  /\ UNCHANGED <<dbVars, sess, calc, history>>

\* Alerts become more than 24 hours old.
AlertsAge(b, by) ==
  /\ by \in {"inline", "worker"} /\ alerts[b][by] > 0
  /\ alerts' = [alerts EXCEPT ![b][by] = 0]
  /\ UNCHANGED <<ledger, budgets, stored, sess, calc, picked, history>>

Crash(p) ==
  /\ sess[p].at # "idle"
  /\ Dies(p)
  /\ UNCHANGED <<dbVars, picked>>

-----------------------------------------------------------------------------
Init ==
  /\ ledger = [i \in Ids |-> Unborn]
  /\ budgets = [b \in Budgets |-> Unborn]
  /\ stored = {}
  /\ alerts = [b \in Budgets |-> [inline |-> 0, worker |-> 0]]
  /\ sess = [p \in Threads |-> Idle] /\ calc = [p \in Threads |-> NoCalc]
  /\ picked = [w \in Workers |-> {}]
  /\ origin = [i \in Ids |-> <<NoSave, 0>>]
  /\ replies = {} /\ broken = {} /\ owed = {}

Request(p) ==
  \/ \E s \in Saves : SaveReplay(p, s) \/ SaveStart(p, s)
  \/ \E u \in Users : \/ UpdateLoad(p, u) \/ RecategorizeLoad(p, u)
                      \/ DeleteLoad(p, u) \/ RecalcRequest(p, u)
  \/ \E b \in Budgets : \/ BudgetCreate(p, b) \/ BudgetDelete(p, b)
                        \/ BudgetLoad(p, b, "budget.commit") \/ BudgetLoad(p, b, "budget.monthly")
Continue(p) ==
  \/ SaveInsert(p) \/ SaveNotify(p) \/ SaveLost(p) \/ SaveStore(p)
  \/ EditCommit(p) \/ EditFails(p) \/ DeleteCommit(p)
  \/ RecalcList(p) \/ RecalcLoad(p) \/ RecalcGone(p) \/ RecalcSum(p)
  \/ RecalcWrite(p) \/ RecalcFails(p) \/ RecalcDone(p)
  \/ BudgetCommit(p) \/ MonthlyCommit(p) \/ BudgetFails(p)
Work(w) == WorkerSelect(w) \/ WorkerCommit(w) \/ WorkerDies(w)

Next ==
  \/ \E p \in Threads : Request(p) \/ Continue(p) \/ Crash(p)
  \/ \E w \in Workers : Work(w)
  \/ \E b \in Budgets, by \in {"inline", "worker"} : AlertsAge(b, by)

Spec == Init /\ [][Next]_vars

\* A thread that is not killed goes on; the alert task is started every hour,
\* and not killed in the middle every single time.
ThreadFairness(p) == WF_vars(Continue(p))
WorkerFairness(w) == SF_vars(WorkerSelect(w)) /\ SF_vars(WorkerCommit(w))
FairSpec == /\ Spec
            /\ \A p \in Threads : ThreadFairness(p)
            /\ \A w \in Workers : WorkerFairness(w)

-----------------------------------------------------------------------------
(* Properties *)

Places == {"idle", "save.insert", "save.notify", "save.store", "edit.commit",
           "delete.commit", "recalc.list", "recalc", "recalc.sum", "recalc.write",
           "budget.commit", "budget.monthly"}
SessionType == [at : Places, user : Users \union {NoUser}, save : Saves \union {NoSave},
                made : Seq(Ids), edits : SUBSET Edit]
CalcType    == [budget : Budgets \union {NoBudget}, snap : Budget \union {NoRow},
                new : Budget \union {NoRow}, total : Nat, queue : SUBSET Budgets,
                every : BOOLEAN, expired : BOOLEAN]
StoredRow   == [user : Users, endpoint : Endpoints, key : Keys, response : Seq(Ids)]

\* Types of all variables.
TypeOK ==
  /\ ledger \in [Ids -> Expense \union {Unborn, Gone}]
  /\ budgets \in [Budgets -> Budget \union {Unborn, Gone}]
  /\ stored \subseteq StoredRow
  /\ alerts \in [Budgets -> [inline : 0..1, worker : 0..MaxAlerts]]
  /\ sess \in [Threads -> SessionType]
  /\ calc \in [Threads -> CalcType]
  /\ picked \in [Workers -> SUBSET Budgets]
  /\ origin \in [Ids -> (Saves \union {NoSave}) \X Nat]
  /\ replies \subseteq Saves \X Seq(Ids)
  /\ broken \subseteq Saves /\ owed \subseteq Users

\* What a client is told was saved was saved, all of it, for this very save:
\* a replayed answer is not that of another user, endpoint or key.
RepliesTruthful ==
  \A r \in replies :
    /\ Len(r[2]) = Len(Items[r[1]])
    /\ \A n \in 1..Len(r[2]) : origin[r[2][n]] = <<r[1], n>>

Keyed(i) == origin[i][1] # NoSave /\ origin[i][1].key # NoKey

\* A save that the client retries under its key is in the ledger once.
OnceByKey == \A i, j \in Ids : Keyed(i) /\ origin[i] = origin[j] => i = j

\* So it is while requests do not overlap, unless one died halfway.
OnceUnlessBroken ==
  \A i, j \in Ids : Keyed(i) /\ origin[i] = origin[j] /\ i # j => origin[i][1] \in broken

\* When nothing is running, an active budget shows what has been spent on it,
\* unless a request died before it had summed.
SpentExact ==
  (\A p \in Threads : sess[p].at = "idle") =>
    \A b \in LiveBudgets :
      budgets[b].active /\ Tracked(budgets[b]) /\ BudgetOwner[b] \notin owed
        => budgets[b].spent = Total(BudgetOwner[b], budgets[b])

\* The hourly task alerts once a day about a budget.
WorkerAlertsOnceADay == \A b \in Budgets : alerts[b].worker <= 1

\* Spending over the limit: what the ledger holds, not what a column says.
Overspent(b) == /\ b \in LiveBudgets /\ budgets[b].active /\ Tracked(budgets[b])
                /\ budgets[b].limit > 0
                /\ Total(BudgetOwner[b], budgets[b]) >= budgets[b].limit
Alerted(b) == alerts[b] # [inline |-> 0, worker |-> 0]

\* A budget that stays overspent is alerted about.
OverspendAlerted ==
  \A b \in Budgets :
    Overspent(b) ~> (Alerted(b) \/ ~Overspent(b) \/ BudgetOwner[b] \in owed)
=============================================================================
