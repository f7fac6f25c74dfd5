------------------------------ MODULE Notices ------------------------------
(***************************************************************************)
(* Notices: the daily reminder of subscriptions about to renew and the     *)
(* summaries of the week and month (workers/notification_tasks.py), the    *)
(* subscriptions users track (api/v1/subscriptions/service.py) and the     *)
(* inbox (api/v1/notifications/service.py).                                *)
(*                                                                         *)
(* Beat sends a message for each task that is due; a message is            *)
(* acknowledged when its task is over, and comes again if the worker dies  *)
(* before.  A task reads in one statement and commits at its end.          *)
(***************************************************************************)
EXTENDS Naturals, FiniteSets

CONSTANTS
  Users, Names,
  Quoted,           \* names with a quotation mark in them
  Subs,             \* ids of tracked subscriptions, never used twice
  Notes,            \* ids of notifications
  LastDay, Mondays, Firsts, \* days; those that begin a week, or a month
  Workers, Readers, \* Celery workers, and threads that serve an inbox
  Unborn, Gone, NoUser

Days  == 0..LastDay
Tasks == {"reminders", "weekly", "monthly"}
Sub   == [user : Users, name : Names, due : Days, active : BOOLEAN]
Note  == [user : Users, sort : {"renewal", "demo"}, name : Names \union {Unborn},
          sub : Subs \union {Unborn}, day : Days, read : BOOLEAN]

ASSUME NoticesAssumption ==
  /\ LastDay \in Nat
  /\ Unborn \notin Sub \union Note /\ Gone \notin Sub \union Note /\ Unborn # Gone

VARIABLES
  day,
  subs,     \* tracked_subscriptions; Unborn before and Gone after
  notes,    \* notifications; Unborn before and Gone after
  queue,    \* messages of each task that wait for a worker
  work,     \* what each worker is doing
  page,     \* what each reader is doing
  reminded, \* history: reminders committed, as user, name and day
  runs,     \* history: the days of which a reminder run has committed
  seen      \* history: the day each subscription was last written

noticeVars == <<day, subs, notes, queue, work, page, reminded, runs, seen>>

Free == [at |-> "idle", day |-> 0, todo |-> {}]
Idle == [at |-> "idle", user |-> NoUser]

LiveSubs == {s \in Subs : subs[s] \in Sub}
Inbox(u) == {n \in Notes : notes[n] \in Note /\ notes[n].user = u}

\* get_renewals: the active ones of a user that are due from today to n days on.
Renewals(u, n) ==
  {s \in LiveSubs : subs[s].user = u /\ subs[s].active /\ subs[s].due \in day..(day + n)}

NoticesInit ==
  /\ day = 0
  /\ subs = [s \in Subs |-> Unborn] /\ notes = [n \in Notes |-> Unborn]
  /\ queue = [k \in Tasks |-> 0]
  /\ work = [w \in Workers |-> Free] /\ page = [r \in Readers |-> Idle]
  /\ reminded = {} /\ runs = {} /\ seen = [s \in Subs |-> 0]
-----------------------------------------------------------------------------
(* Subscriptions.                                                           *)

Track(s, u, n, d) ==
  /\ subs[s] = Unborn
  /\ subs' = [subs EXCEPT ![s] = [user |-> u, name |-> n, due |-> d, active |-> TRUE]]
  /\ seen' = [seen EXCEPT ![s] = day]
  /\ UNCHANGED <<day, notes, queue, work, page, reminded, runs>>

\* update: whichever fields the client sends.
Edit(s, n, d, active) ==
  /\ s \in LiveSubs
  /\ subs' = [subs EXCEPT ![s] = [@ EXCEPT !.name = n, !.due = d, !.active = active]]
  /\ subs' # subs /\ seen' = [seen EXCEPT ![s] = day]
  /\ UNCHANGED <<day, notes, queue, work, page, reminded, runs>>

Untrack(s) ==
  /\ s \in LiveSubs
  /\ subs' = [subs EXCEPT ![s] = Gone]
  /\ UNCHANGED <<day, notes, queue, work, page, reminded, runs, seen>>
-----------------------------------------------------------------------------
(* Tasks.                                                                   *)

\* What beat sends when the next day begins.
TasksOf(d) == {k \in Tasks : /\ k = "weekly" => d \in Mondays
                             /\ k = "monthly" => d \in Firsts}
Beat ==
  /\ day < LastDay
  /\ day' = day + 1
  /\ queue' = [k \in Tasks |-> IF k \in TasksOf(day') THEN queue[k] + 1 ELSE queue[k]]
  /\ UNCHANGED <<subs, notes, work, page, reminded, runs, seen>>

\* A date between now and three days from now: today's has begun before now.
DueSoon(s) == s \in LiveSubs /\ subs[s].active /\ subs[s].due \in (day + 1)..(day + 3)

RecentNever(s, late) == FALSE            \* mutant: no guard against a second run
RecentOfAny(s, late) ==                  \* mutant: a reminder of whatever name
  \E n \in Inbox(subs[s].user) :
    notes[n].sort = "renewal" /\ (notes[n].day = day \/ n \in late)

\* A reminder of the name in the last 24 hours: one of today, or one of
\* yesterday if it was made later in the day than it is now.
Recent(s, late) ==
  \E n \in Inbox(subs[s].user) :
    /\ notes[n].sort = "renewal" /\ notes[n].name = subs[s].name
    /\ notes[n].day = day \/ n \in late

YesterdaysNotes == {n \in Notes : notes[n] \in Note /\ notes[n].day + 1 = day}

\* send_subscription_reminders has read what it will remind of.
Select(w, late) ==
  /\ work[w].at = "idle" /\ queue["reminders"] > 0
  /\ queue' = [queue EXCEPT !["reminders"] = @ - 1]
  /\ work' = [work EXCEPT ![w] =
       [at |-> "remind", day |-> day,
        todo |-> {[user |-> subs[s].user, name |-> subs[s].name, sub |-> s] :
                    s \in {x \in Subs : DueSoon(x) /\ ~ Recent(x, late)}}]]
  /\ UNCHANGED <<day, subs, notes, page, reminded, runs, seen>>

\* The data of a reminder is written as JSON by hand: a quotation mark in one
\* name fails them all.  A note is of the time its transaction began.
Remind(w, ids) ==
  LET todo == work[w].todo
  IN  /\ work[w].at = "remind"
      /\ IF \E x \in todo : x.name \in Quoted
         THEN UNCHANGED <<notes, reminded, runs>>
         ELSE /\ ids \in [todo -> {n \in Notes : notes[n] = Unborn}]
              /\ \A x, y \in todo : ids[x] = ids[y] => x = y
              /\ notes' = [n \in Notes |->
                   IF \E x \in todo : ids[x] = n
                   THEN LET x == CHOOSE x \in todo : ids[x] = n
                        IN [user |-> x.user, sort |-> "renewal", name |-> x.name,
                            sub |-> x.sub, day |-> work[w].day, read |-> FALSE]
                   ELSE notes[n]]
              /\ reminded' = reminded \union
                   {[user |-> x.user, name |-> x.name, day |-> work[w].day] : x \in todo}
              /\ runs' = runs \union {work[w].day}
      /\ work' = [work EXCEPT ![w].at = "over", ![w].todo = {}]
      /\ UNCHANGED <<day, subs, queue, page, seen>>

\* send_weekly_summaries and send_monthly_reports insert no is_read, which has
\* no default: the first insert fails, and all is rolled back.
Summarise(w, k) ==
  /\ k # "reminders" /\ work[w].at = "idle" /\ queue[k] > 0
  /\ queue' = [queue EXCEPT ![k] = @ - 1]
  /\ UNCHANGED <<day, subs, notes, work, page, reminded, runs, seen>>

Ack(w) ==
  /\ work[w].at = "over"
  /\ work' = [work EXCEPT ![w] = Free]
  /\ UNCHANGED <<day, subs, notes, queue, page, reminded, runs, seen>>

\* task_acks_late: the message of a dead worker is there again.
WorkerDies(w) ==
  /\ work[w].at # "idle"
  /\ work' = [work EXCEPT ![w] = Free]
  /\ queue' = [queue EXCEPT !["reminders"] = @ + 1]
  /\ UNCHANGED <<day, subs, notes, page, reminded, runs, seen>>
-----------------------------------------------------------------------------
(* The inbox.                                                               *)

\* list: a user without notifications is about to be given two.
Open(r, u) ==
  /\ page[r] = Idle /\ Inbox(u) = {}
  /\ page' = [page EXCEPT ![r] = [at |-> "seed", user |-> u]]
  /\ UNCHANGED <<day, subs, notes, queue, work, reminded, runs, seen>>

SeedDummies(r, m, n) ==
  /\ page[r].at = "seed" /\ m # n /\ notes[m] = Unborn /\ notes[n] = Unborn
  /\ notes' = [x \in Notes |->
       IF x \in {m, n} THEN [user |-> page[r].user, sort |-> "demo", name |-> Unborn,
                             sub |-> Unborn, day |-> day, read |-> FALSE]
       ELSE notes[x]]
  /\ page' = [page EXCEPT ![r] = Idle]
  /\ UNCHANGED <<day, subs, queue, work, reminded, runs, seen>>

MarkRead(u, ns) ==
  /\ ns = Inbox(u) \/ \E n \in Inbox(u) : ns = {n}
  /\ \E n \in ns : ~ notes[n].read
  /\ notes' = [n \in Notes |-> IF n \in ns THEN [notes[n] EXCEPT !.read = TRUE] ELSE notes[n]]
  /\ UNCHANGED <<day, subs, queue, work, page, reminded, runs, seen>>

Delete(u, n) ==
  /\ n \in Inbox(u)
  /\ notes' = [notes EXCEPT ![n] = Gone]
  /\ UNCHANGED <<day, subs, queue, work, page, reminded, runs, seen>>
-----------------------------------------------------------------------------
NoticesNext ==
  \/ \E s \in Subs, u \in Users, n \in Names, d \in Days : Track(s, u, n, d)
  \/ \E s \in Subs, n \in Names, d \in Days, a \in BOOLEAN : Edit(s, n, d, a)
  \/ \E s \in Subs : Untrack(s)
  \/ Beat
  \/ \E w \in Workers :
       \/ \E late \in SUBSET YesterdaysNotes : Select(w, late)
       \/ \E ids \in [work[w].todo -> Notes] : Remind(w, ids)
       \/ \E k \in Tasks : Summarise(w, k)
       \/ Ack(w) \/ WorkerDies(w)
  \/ \E r \in Readers, u \in Users : Open(r, u)
  \/ \E r \in Readers, m, n \in Notes : SeedDummies(r, m, n)
  \/ \E u \in Users : \/ \E ns \in SUBSET Notes : MarkRead(u, ns)
                      \/ \E n \in Notes : Delete(u, n)
-----------------------------------------------------------------------------
SameReminder(m, n) ==
  /\ notes[m] \in Note /\ notes[n] \in Note
  /\ notes[m].sort = "renewal" /\ notes[n].sort = "renewal" /\ notes[m].sub = notes[n].sub
  /\ notes[m].name = notes[n].name /\ notes[m].day = notes[n].day

\* A subscription is reminded of once a day under one name, although a task
\* whose worker died after the commit is run again (the NOT EXISTS of
\* send_subscription_reminders), and the demonstration notes come in one pair.
NoticesOnce ==
  /\ \A m, n \in Notes : SameReminder(m, n) => m = n
  /\ \A u \in Users : Cardinality({n \in Inbox(u) : notes[n].sort = "demo"}) <= 2

\* Of a subscription that is listed as renewing today, the user was reminded in
\* the three days before, if a run of one of the two days before was
\* committed and the subscription was last written on an earlier day, although
\* a run passes over who was reminded in the last 24 hours.
RemindedInTime ==
  \A u \in Users : \A s \in Renewals(u, 0) :
    (\E d \in runs : d > seen[s] /\ d + 2 >= day /\ d < day)
    => \E x \in reminded : /\ x.user = subs[s].user /\ x.name = subs[s].name
                           /\ x.day + 3 >= day /\ x.day < day
=============================================================================
