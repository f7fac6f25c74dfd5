--------------------------- MODULE MCServices_proofs ---------------------------
(***************************************************************************)
(* What holds of the smaller services for every value of the constants:    *)
(* what a savings goal holds, what the Stripe row says once its events     *)
(* have arrived, that reminders come once and in time, where an expense is *)
(* filed whose description was taught, and that a scan lists every line of *)
(* a receipt once.                                                         *)
(***************************************************************************)
EXTENDS MCServices, FiniteSetTheorems, SequenceTheorems, WellFoundedInduction, TLAPS

Habits == {"remind", "inbox", "scan", "pots", "stripe", "guess"}
allVars == <<noticeVars, scanVars, potVars, stripeVars, guessVars, habit>>

\* A behaviour is of one kind throughout.
LEMMA HabitKept == ServicesSpec => [](habit \in Habits)
  <1>1. ServicesInit => habit \in Habits
    BY DEF ServicesInit, Habits
  <1>2. habit \in Habits /\ [ServicesNext]_allVars => (habit \in Habits)'
    BY DEF ServicesNext, allVars
  <1> QED
    BY <1>1, <1>2, PTL DEF ServicesSpec, allVars

\* The services share nothing: each step is one of theirs, or none.
LEMMA OneService ==
  ASSUME habit \in Habits, [ServicesNext]_allVars
  PROVE  /\ UNCHANGED scanVars \/ Scans!ScanNext
         /\ UNCHANGED potVars \/ Paying
         /\ UNCHANGED stripeVars \/ Card!StripeNext
         /\ UNCHANGED guessVars \/ Filing
         /\ \/ UNCHANGED noticeVars
            \/ habit = "remind" /\ Reminding
            \/ habit = "inbox" /\ Reading
  BY DEF ServicesNext, Habits, allVars

-----------------------------------------------------------------------------
(* Savings goals.                                                           *)

\* Only columns that changed are written.
LEMMA WrittenGoal ==
  ASSUME NEW now \in Pots!Goal, NEW old \in Pots!Goal, NEW new \in Pots!Goal
  PROVE  /\ Pots!Written(now, old, new) \in Pots!Goal
         /\ Pots!Written(now, old, new).saved = IF new.saved # old.saved THEN new.saved ELSE now.saved
  <1> DEFINE w == Pots!Written(now, old, new)
  <1>0. DOMAIN now = {"saved", "target", "done"}
    BY DEF Pots!Goal
  <1>1. w.saved = IF new.saved # old.saved THEN new.saved ELSE now.saved
    BY <1>0 DEF Pots!Written
  <1>2. w.target = IF new.target # old.target THEN new.target ELSE now.target
    BY <1>0 DEF Pots!Written
  <1>3. w.done = IF new.done # old.done THEN new.done ELSE now.done
    BY <1>0 DEF Pots!Written
  <1>4. w = [saved |-> w.saved, target |-> w.target, done |-> w.done]
    BY <1>0 DEF Pots!Written
  <1> HIDE DEF w
  <1>5. w.saved \in 0..MaxSaved /\ w.target \in Targets /\ w.done \in BOOLEAN
    BY <1>1, <1>2, <1>3 DEF Pots!Goal
  <1>6. [saved |-> w.saved, target |-> w.target, done |-> w.done] \in Pots!Goal
    BY <1>5 DEF Pots!Goal
  <1>7. w \in Pots!Goal
    BY <1>4, <1>6
  <1> QED
    BY <1>1, <1>7 DEF w

\* A thread that has loaded a goal: a change keeps the amount, and the one
\* thread that pays in has loaded what is still there.
Tills(p) ==
  \/ till[p] = Pots!Idle
  \/ /\ till[p].at \in {"contribute", "update"} /\ till[p].goal \in Goals
     /\ till[p].old \in Pots!Goal /\ till[p].new \in Pots!Goal
     /\ goals[till[p].goal] # Unborn
     /\ till[p].at = "update" => till[p].new.saved = till[p].old.saved
     /\ till[p].at = "contribute" =>
          /\ p = payer
          /\ till[p].goal \in Pots!Live => goals[till[p].goal].saved = till[p].old.saved

PotsInv ==
  /\ goals \in [Goals -> Pots!Goal \union {Unborn, Gone}]
  /\ given \in [Goals -> Nat]
  /\ till = [p \in Savers |-> till[p]]
  /\ \A p \in Savers : Tills(p)
  /\ SavedIsGiven

\* There are no goals at the start.
LEMMA PotsStart == Pots!PotsInit => PotsInv
  <1> SUFFICES ASSUME Pots!PotsInit PROVE PotsInv
    OBVIOUS
  <1>1. \A p \in Savers : Tills(p)
    BY DEF Pots!PotsInit, Tills
  <1>2. SavedIsGiven
    BY PotsAssumption DEF Pots!PotsInit, SavedIsGiven, Pots!SavedIsGiven, Pots!Live, PotsAssumption
  <1> QED
    BY <1>1, <1>2 DEF Pots!PotsInit, PotsInv

\* A thread takes a goal up as it is.
LEMMA PotsBusy ==
  ASSUME PotsInv, NEW p \in Savers, NEW g \in Goals, NEW at \in {"contribute", "update"},
         NEW new \in Pots!Goal, Pots!Busy(p, at, g, new),
         at = "update" => new.saved = goals[g].saved,
         at = "contribute" => p = payer
  PROVE  PotsInv'
  <1>1. /\ g \in Pots!Live /\ goals[g] \in Pots!Goal /\ UNCHANGED <<goals, given>>
        /\ till' = [till EXCEPT ![p] = [at |-> at, goal |-> g, old |-> goals[g], new |-> new]]
    BY DEF Pots!Busy, Pots!Live
  <1>2. ASSUME NEW q \in Savers PROVE Tills(q)'
    <2>1. CASE q = p
      <3>1. till'[q] = [at |-> at, goal |-> g, old |-> goals[g], new |-> new]
        BY <1>1, <2>1 DEF PotsInv
      <3>2. till'[q].at = at /\ till'[q].goal = g /\ till'[q].old = goals[g] /\ till'[q].new = new
        BY <3>1
      <3> QED
        BY <1>1, <2>1, <3>2, PotsAssumption DEF Tills, PotsAssumption
    <2>2. CASE q # p
      <3>1. till'[q] = till[q] /\ Tills(q)
        BY <1>1, <2>2 DEF PotsInv
      <3> QED
        BY <1>1, <3>1 DEF Tills, Pots!Live
    <2> QED
      BY <2>1, <2>2
  <1>3. till' = [q \in Savers |-> till'[q]]
    BY <1>1 DEF PotsInv
  <1> QED
    BY <1>1, <1>2, <1>3 DEF PotsInv, SavedIsGiven, Pots!SavedIsGiven, Pots!Live

\* A goal that is written keeps what was paid in.
LEMMA PotsCommit ==
  ASSUME PotsInv, NEW p \in Savers, Pots!Commit(p)
  PROVE  PotsInv'
  <1>1. /\ till[p].at # "idle" /\ till' = [till EXCEPT ![p] = Pots!Idle]
        /\ till = [q \in Savers |-> till[q]] /\ \A q \in Savers : Tills(q)
    BY DEF Pots!Commit, PotsInv
  <1>2. PICK g \in Goals : g = till[p].goal /\ goals[g] # Unborn
    BY <1>1 DEF Tills, Pots!Idle
  <1>3. PICK old \in Pots!Goal, new \in Pots!Goal : old = till[p].old /\ new = till[p].new
    BY <1>1 DEF Tills, Pots!Idle
  <1>4. /\ till[p].at = "update" => new.saved = old.saved
        /\ till[p].at = "contribute" => p = payer /\ (g \in Pots!Live => goals[g].saved = old.saved)
        /\ till[p].at \in {"contribute", "update"}
    BY <1>1, <1>2, <1>3 DEF Tills, Pots!Idle
  <1>5. till' = [q \in Savers |-> till'[q]] /\ till'[p] = Pots!Idle
        /\ \A q \in Savers \ {p} : till'[q] = till[q]
    BY <1>1
  <1>6. CASE g \notin Pots!Live
    <2>1. UNCHANGED <<goals, given>>
      BY <1>2, <1>6 DEF Pots!Commit
    <2>2. \A q \in Savers : Tills(q)'
      BY <1>1, <1>5, <2>1 DEF Tills, Pots!Live
    <2> QED
      BY <1>5, <2>1, <2>2 DEF PotsInv, SavedIsGiven, Pots!SavedIsGiven, Pots!Live
  <1>7. CASE g \in Pots!Live
    <2>1. goals[g] \in Pots!Goal
      BY <1>7 DEF Pots!Live
    <2>2. PICK w \in Pots!Goal :
            /\ w = Pots!Written(goals[g], old, new)
            /\ w.saved = IF new.saved # old.saved THEN new.saved ELSE goals[g].saved
      BY <2>1, WrittenGoal
    <2>3. /\ goals' = [goals EXCEPT ![g] = w]
          /\ given' = [given EXCEPT ![g] = @ + new.saved - old.saved]
      BY <1>2, <1>3, <1>7, <2>2 DEF Pots!Commit
    <2>4. /\ goals \in [Goals -> Pots!Goal \union {Unborn, Gone}] /\ given \in [Goals -> Nat]
          /\ goals[g].saved = given[g]
      BY <1>7 DEF PotsInv, SavedIsGiven, Pots!SavedIsGiven
    <2>5. old.saved \in Nat /\ new.saved \in Nat /\ goals[g].saved \in Nat
      BY <2>1, PotsAssumption DEF Pots!Goal, PotsAssumption
    <2>6. w.saved = given[g] + new.saved - old.saved /\ given[g] + new.saved - old.saved \in Nat
      <3>1. CASE till[p].at = "update"
        BY <1>4, <2>2, <2>4, <2>5, <3>1
      <3>2. CASE till[p].at = "contribute"
        BY <1>4, <1>7, <2>2, <2>4, <2>5, <3>2
      <3> QED
        BY <1>4, <3>1, <3>2
    <2>7. goals' \in [Goals -> Pots!Goal \union {Unborn, Gone}] /\ given' \in [Goals -> Nat]
      BY <2>3, <2>4, <2>6
    <2>8. ASSUME NEW h \in Goals, goals'[h] \in Pots!Goal PROVE goals'[h].saved = given'[h]
      <3>1. CASE h = g
        BY <2>3, <2>4, <2>6, <3>1
      <3>2. CASE h # g
        BY <2>3, <2>4, <2>8, <3>2 DEF PotsInv, SavedIsGiven, Pots!SavedIsGiven, Pots!Live
      <3> QED
        BY <3>1, <3>2
    <2>9. ASSUME NEW q \in Savers PROVE Tills(q)'
      <3>1. CASE q = p
        BY <1>5, <3>1 DEF Tills
      <3>2. CASE q # p /\ till[q] = Pots!Idle
        BY <1>5, <3>2 DEF Tills
      <3>3. CASE q # p /\ till[q] # Pots!Idle
        <4>1. Tills(q) /\ till'[q] = till[q]
          BY <1>1, <1>5, <3>3
        <4>2. goals'[till[q].goal] # Unborn
          BY <2>3, <2>4, <3>3, <4>1, PotsAssumption DEF Tills, PotsAssumption
        <4>3. ASSUME till[q].at = "contribute", goals'[till[q].goal] \in Pots!Goal
              PROVE  goals'[till[q].goal].saved = till[q].old.saved
          <5>1. q = payer /\ till[q].goal \in Goals
            BY <3>3, <4>1, <4>3 DEF Tills
          <5>2. till[p].at = "update"
            BY <1>4, <3>3, <5>1
          <5>3. CASE till[q].goal = g
            BY <1>4, <2>1, <2>2, <2>3, <2>4, <3>3, <4>1, <4>3, <5>2, <5>3 DEF Tills, Pots!Live
          <5>4. CASE till[q].goal # g
            BY <2>3, <2>4, <3>3, <4>1, <4>3, <5>1, <5>4 DEF Tills, Pots!Live
          <5> QED
            BY <5>3, <5>4
        <4> QED
          BY <3>3, <4>1, <4>2, <4>3 DEF Tills, Pots!Live
      <3> QED
        BY <3>1, <3>2, <3>3
    <2> QED
      BY <1>5, <2>7, <2>8, <2>9 DEF PotsInv, SavedIsGiven, Pots!SavedIsGiven, Pots!Live
  <1> QED
    BY <1>6, <1>7

\* No step loses what was paid in.
LEMMA PotsStep ==
  ASSUME PotsInv, Paying
  PROVE  PotsInv'
  <1>0. /\ goals \in [Goals -> Pots!Goal \union {Unborn, Gone}] /\ given \in [Goals -> Nat]
        /\ till = [q \in Savers |-> till[q]] /\ \A q \in Savers : Tills(q)
        /\ MaxSaved \in Nat \ {0} /\ Unborn \notin Pots!Goal /\ Gone \notin Pots!Goal /\ Unborn # Gone
    BY PotsAssumption DEF PotsInv, PotsAssumption
  <1>1. ASSUME NEW g \in Goals, NEW t \in Targets, NEW a \in 0..1, Pots!Create(g, t, a)
        PROVE  PotsInv'
    <2> DEFINE new == [saved |-> a, target |-> t, done |-> FALSE]
    <2>1. /\ goals[g] = Unborn /\ goals' = [goals EXCEPT ![g] = new]
          /\ given' = [given EXCEPT ![g] = a] /\ till' = till
      BY <1>1 DEF Pots!Create
    <2>2. new \in Pots!Goal /\ new.saved = a
      BY <1>0 DEF Pots!Goal
    <2> HIDE DEF new
    <2>3. goals' \in [Goals -> Pots!Goal \union {Unborn, Gone}] /\ given' \in [Goals -> Nat]
      BY <1>0, <2>1, <2>2
    <2>4. ASSUME NEW q \in Savers PROVE Tills(q)'
      <3>1. Tills(q) /\ till'[q] = till[q]
        BY <1>0, <2>1
      <3>2. till[q] # Pots!Idle => till[q].goal # g
        BY <2>1, <3>1 DEF Tills
      <3> QED
        BY <1>0, <2>1, <3>1, <3>2 DEF Tills, Pots!Live
    <2>5. ASSUME NEW h \in Goals, goals'[h] \in Pots!Goal PROVE goals'[h].saved = given'[h]
      BY <1>0, <2>1, <2>2, <2>5 DEF PotsInv, SavedIsGiven, Pots!SavedIsGiven, Pots!Live
    <2> QED
      BY <1>0, <2>1, <2>3, <2>4, <2>5 DEF PotsInv, SavedIsGiven, Pots!SavedIsGiven, Pots!Live
  <1>2. ASSUME NEW g \in Goals, Pots!Delete(g)
        PROVE  PotsInv'
    <2>1. goals' = [goals EXCEPT ![g] = Gone] /\ given' = given /\ till' = till
      BY <1>2 DEF Pots!Delete
    <2>2. ASSUME NEW q \in Savers PROVE Tills(q)'
      <3>1. Tills(q) /\ till'[q] = till[q]
        BY <1>0, <2>1
      <3> QED
        BY <1>0, <2>1, <3>1 DEF Tills, Pots!Live
    <2> QED
      BY <1>0, <2>1, <2>2 DEF PotsInv, SavedIsGiven, Pots!SavedIsGiven, Pots!Live
  <1>3. ASSUME NEW p \in Savers, NEW g \in Goals, NEW a \in 1..MaxSaved, Pots!Contribute(p, g, a)
        PROVE  PotsInv'
    <2> DEFINE saved == goals[g].saved + a
               new == [goals[g] EXCEPT !.saved = saved, !.done = @ \/ saved >= goals[g].target]
    <2>1. /\ g \in Pots!Live /\ goals[g] \in Pots!Goal /\ given[g] + a <= MaxSaved
          /\ Pots!Busy(p, "contribute", g, new)
      BY <1>3 DEF Pots!Contribute, Pots!Live
    <2>2. saved \in 0..MaxSaved
      BY <1>0, <2>1 DEF PotsInv, SavedIsGiven, Pots!SavedIsGiven
    <2>3. new \in Pots!Goal
      <3>1. (goals[g].done \/ saved >= goals[g].target) \in BOOLEAN
        OBVIOUS
      <3> QED
        BY <2>1, <2>2, <3>1 DEF Pots!Goal
    <2> HIDE DEF new
    <2>4. p = payer
      <3>1. till'[p] = [at |-> "contribute", goal |-> g, old |-> goals[g], new |-> new]
        BY <1>0, <2>1 DEF Pots!Busy
      <3>2. till'[p].at = "contribute"
        BY <3>1
      <3> QED
        BY <3>2 DEF Paying
    <2> QED
      BY <2>1, <2>3, <2>4, PotsBusy
  <1>4. ASSUME NEW p \in Savers, NEW g \in Goals, NEW t \in Targets, Pots!Update(p, g, t)
        PROVE  PotsInv'
    <2> DEFINE new == [goals[g] EXCEPT !.target = t]
    <2>1. goals[g] \in Pots!Goal /\ Pots!Busy(p, "update", g, new)
      BY <1>4 DEF Pots!Update, Pots!Live
    <2>2. new \in Pots!Goal /\ new.saved = goals[g].saved
      BY <2>1 DEF Pots!Goal
    <2> HIDE DEF new
    <2> QED
      BY <2>1, <2>2, PotsBusy
  <1> QED
    BY <1>1, <1>2, <1>3, <1>4, PotsCommit DEF Paying, Pots!PotsNext

\* Where one thread pays in, every goal holds what was paid into it, whoever
\* edits or deletes goals meanwhile: an edit writes back only the columns it
\* changed (add_contribution, update).
THEOREM SavedIsGivenHolds == ServicesSpec => []SavedIsGiven
  <1>1. ServicesInit => PotsInv
    BY PotsStart DEF ServicesInit
  <1>2. habit \in Habits /\ PotsInv /\ [ServicesNext]_allVars => PotsInv'
    <2>1. PotsInv /\ UNCHANGED potVars => PotsInv'
      BY DEF PotsInv, Tills, potVars, SavedIsGiven, Pots!SavedIsGiven, Pots!Live
    <2> QED
      BY <2>1, OneService, PotsStep
  <1>3. PotsInv => SavedIsGiven
    BY DEF PotsInv
  <1> QED
    BY <1>1, <1>2, <1>3, HabitKept, PTL DEF ServicesSpec, allVars

-----------------------------------------------------------------------------
(* Reminders in time.                                                       *)

Todo == [user : Users, name : Names, sub : Subs]
Job  == [at : {"idle", "remind", "over"}, day : Days, todo : SUBSET Todo]

Page == [at : {"idle", "seed"}, user : Users \union {NoUser}]

NoticeTypes ==
  /\ day \in Days
  /\ subs \in [Subs -> Sub \union {Unborn, Gone}]
  /\ notes \in [Notes -> Note \union {Unborn, Gone}]
  /\ work \in [Workers -> Job] /\ \A w \in Workers : work[w].day <= day
  /\ reminded \subseteq [user : Users, name : Names, day : Days]
  /\ runs \subseteq 0..day
  /\ seen \in [Subs -> Nat]
  /\ page \in [Readers -> Page] /\ \A r \in Readers : page[r].at = "seed" => page[r].user \in Users

\* A subscription that a run of day d should remind of, as it still is.
DueOn(s, d) ==
  s \in LiveSubs /\ subs[s].active /\ subs[s].due \in (d + 1)..(d + 3) /\ seen[s] < d

\* Its user was reminded on that day or the day before.
Told(s, d) ==
  \E x \in reminded : /\ x.user = subs[s].user /\ x.name = subs[s].name
                      /\ x.day + 1 >= d /\ x.day <= d

\* A reminder in an inbox was committed by a run.
Reminder(n) == notes[n] \in Note /\ notes[n].sort = "renewal"
NoteTold(n) ==
  Reminder(n) => [user |-> notes[n].user, name |-> notes[n].name, day |-> notes[n].day] \in reminded

\* A run has chosen what was due and nobody had been told of.
Chosen(w) ==
  work[w].at = "remind" =>
    \A s \in Subs : DueOn(s, work[w].day) =>
      Told(s, work[w].day) \/ \E x \in work[w].todo : x.user = subs[s].user /\ x.name = subs[s].name

TimeInv ==
  /\ NoticeTypes
  /\ \A n \in Notes : NoteTold(n)
  /\ \A w \in Workers : Chosen(w)
  /\ \A d \in runs : \A s \in Subs : DueOn(s, d) => Told(s, d)

\* Nothing is due at the start.
LEMMA TimeStart == NoticesInit => TimeInv
  <1> SUFFICES ASSUME NoticesInit PROVE TimeInv
    OBVIOUS
  <1>1. 0 \in Days /\ Unborn \notin Note /\ Unborn \notin Sub
    BY NoticesAssumption DEF NoticesAssumption, Days
  <1>2. Free \in Job /\ Free.at = "idle" /\ Free.day = 0
    BY <1>1 DEF Free, Job
  <1>3. Idle \in Page /\ Idle.at = "idle"
    BY DEF Idle, Page
  <1>4. NoticeTypes
    BY <1>1, <1>2, <1>3 DEF NoticesInit, NoticeTypes
  <1>5. /\ \A n \in Notes : NoteTold(n)
        /\ \A w \in Workers : Chosen(w)
        /\ \A d \in runs : \A s \in Subs : DueOn(s, d) => Told(s, d)
    BY <1>1, <1>2 DEF NoticesInit, NoteTold, Reminder, Chosen
  <1> QED
    BY <1>4, <1>5 DEF TimeInv

\* The inbox changes in what a reminder does not say, or loses notes, and gains
\* notes for demonstration.
NotesKeep(n) ==
  Reminder(n)' =>
    /\ Reminder(n)
    /\ notes'[n].user = notes[n].user /\ notes'[n].name = notes[n].name
    /\ notes'[n].sub = notes[n].sub /\ notes'[n].day = notes[n].day

\* What the inbox writes.
LEMMA InboxWrites ==
  ASSUME NoticeTypes, NEW n \in Notes,
         \/ \E r \in Readers, a, b \in Notes : SeedDummies(r, a, b)
         \/ \E u \in Users, ns \in SUBSET Notes : MarkRead(u, ns)
         \/ \E u \in Users, b \in Notes : Delete(u, b)
  PROVE  NotesKeep(n) /\ (notes[n] \in Note \union {Gone} => notes'[n] \in Note \union {Gone})
  <1>0. notes \in [Notes -> Note \union {Unborn, Gone}] /\ Unborn \notin Note /\ Gone \notin Note /\ Unborn # Gone
    BY NoticesAssumption DEF NoticeTypes, NoticesAssumption
  <1>1. ASSUME NEW r \in Readers, NEW a \in Notes, NEW b \in Notes, SeedDummies(r, a, b)
        PROVE  NotesKeep(n) /\ (notes[n] \in Note \union {Gone} => notes'[n] \in Note \union {Gone})
    <2>1. CASE n \in {a, b}
      <3>1. notes'[n] = [user |-> page[r].user, sort |-> "demo", name |-> Unborn,
                         sub |-> Unborn, day |-> day, read |-> FALSE]
        BY <1>1, <2>1 DEF SeedDummies
      <3>2. notes'[n].sort = "demo" /\ notes[n] = Unborn
        BY <1>1, <2>1, <3>1 DEF SeedDummies
      <3> QED
        BY <1>0, <3>2 DEF NotesKeep, Reminder
    <2>2. CASE n \notin {a, b}
      BY <1>1, <2>2 DEF SeedDummies, NotesKeep, Reminder
    <2> QED
      BY <2>1, <2>2
  <1>2. ASSUME NEW u \in Users, NEW ns \in SUBSET Notes, MarkRead(u, ns)
        PROVE  NotesKeep(n) /\ (notes[n] \in Note \union {Gone} => notes'[n] \in Note \union {Gone})
    <2>1. notes' = [x \in Notes |-> IF x \in ns THEN [notes[x] EXCEPT !.read = TRUE] ELSE notes[x]]
      BY <1>2 DEF MarkRead
    <2>2. n \in ns => notes[n] \in Note
      BY <1>2 DEF MarkRead, Inbox
    <2>3. CASE n \in ns
      <3>1. notes'[n] = [notes[n] EXCEPT !.read = TRUE]
        BY <2>1, <2>3
      <3>2. /\ notes'[n] \in Note /\ notes'[n].user = notes[n].user /\ notes'[n].name = notes[n].name
            /\ notes'[n].sub = notes[n].sub /\ notes'[n].day = notes[n].day
            /\ notes'[n].sort = notes[n].sort
        BY <2>2, <2>3, <3>1 DEF Note
      <3> QED
        BY <2>2, <2>3, <3>2 DEF NotesKeep, Reminder
    <2>4. CASE n \notin ns
      BY <2>1, <2>4 DEF NotesKeep, Reminder
    <2> QED
      BY <2>3, <2>4
  <1>3. ASSUME NEW u \in Users, NEW b \in Notes, Delete(u, b)
        PROVE  NotesKeep(n) /\ (notes[n] \in Note \union {Gone} => notes'[n] \in Note \union {Gone})
    BY <1>0, <1>3 DEF Delete, NotesKeep, Reminder
  <1> QED
    BY <1>1, <1>2, <1>3

\* A run writes each reminder it has chosen as a new note.
Placed(w, ids) ==
  /\ \A x, y \in work[w].todo : ids[x] = ids[y] => x = y
  /\ \A x \in work[w].todo : notes[ids[x]] = Unborn
  /\ \A n \in Notes :
       \/ (\A x \in work[w].todo : ids[x] # n) /\ notes'[n] = notes[n]
       \/ \E x \in work[w].todo :
            /\ ids[x] = n /\ notes'[n] \in Note /\ notes'[n].sort = "renewal"
            /\ notes'[n].user = x.user /\ notes'[n].name = x.name /\ notes'[n].sub = x.sub
            /\ notes'[n].day = work[w].day

\* What a run commits that has not failed.
Committed(w) ==
  /\ work[w].at = "remind"
  /\ \E ids \in [work[w].todo -> Notes] : Placed(w, ids)
  /\ reminded' = reminded \union
       {[user |-> x.user, name |-> x.name, day |-> work[w].day] : x \in work[w].todo}
  /\ runs' = runs \union {work[w].day}

\* A reminder run commits all of its notes or none.
LEMMA RemindWrites ==
  ASSUME NoticeTypes, NEW w \in Workers, NEW ids \in [work[w].todo -> Notes], Remind(w, ids)
  PROVE  Committed(w) \/ UNCHANGED <<notes, reminded, runs>>
  <1>0. work[w] \in Job /\ work[w].todo \subseteq Todo /\ work[w].day \in Days
    BY DEF NoticeTypes, Job
  <1> SUFFICES ASSUME ~ \E x \in work[w].todo : x.name \in Quoted
               PROVE  Committed(w)
    BY DEF Remind
  <1> DEFINE note(x) == [user |-> x.user, sort |-> "renewal", name |-> x.name,
                         sub |-> x.sub, day |-> work[w].day, read |-> FALSE]
  <1>1. /\ work[w].at = "remind"
        /\ ids \in [work[w].todo -> {n \in Notes : notes[n] = Unborn}]
        /\ \A x, y \in work[w].todo : ids[x] = ids[y] => x = y
        /\ notes' = [n \in Notes |->
             IF \E x \in work[w].todo : ids[x] = n
             THEN note(CHOOSE x \in work[w].todo : ids[x] = n)
             ELSE notes[n]]
        /\ reminded' = reminded \union
             {[user |-> x.user, name |-> x.name, day |-> work[w].day] : x \in work[w].todo}
        /\ runs' = runs \union {work[w].day}
    BY DEF Remind
  <1>2. ASSUME NEW x \in Todo
        PROVE  /\ note(x) \in Note /\ note(x).sort = "renewal"
               /\ note(x).user = x.user /\ note(x).name = x.name /\ note(x).sub = x.sub
               /\ note(x).day = work[w].day
    BY <1>0 DEF Todo, Note
  <1> HIDE DEF note
  <1>3. ASSUME NEW n \in Notes
        PROVE  \/ (\A x \in work[w].todo : ids[x] # n) /\ notes'[n] = notes[n]
               \/ \E x \in work[w].todo :
                    /\ ids[x] = n /\ notes'[n] \in Note /\ notes'[n].sort = "renewal"
                    /\ notes'[n].user = x.user /\ notes'[n].name = x.name /\ notes'[n].sub = x.sub
                    /\ notes'[n].day = work[w].day
    <2>1. CASE \E x \in work[w].todo : ids[x] = n
      <3>1. PICK x \in work[w].todo : x = CHOOSE y \in work[w].todo : ids[y] = n
        BY <2>1
      <3>2. ids[x] = n
        BY <2>1, <3>1
      <3>3. notes'[n] = note(x)
        BY <1>1, <2>1, <3>1
      <3> QED
        BY <1>0, <1>2, <3>2, <3>3
    <2>2. CASE ~ \E x \in work[w].todo : ids[x] = n
      BY <1>1, <2>2
    <2> QED
      BY <2>1, <2>2
  <1>4. \A x \in work[w].todo : notes[ids[x]] = Unborn
    BY <1>1
  <1>5. Placed(w, ids)
    BY <1>1, <1>3, <1>4 DEF Placed
  <1> QED
    BY <1>1, <1>5 DEF Committed

\* Types are kept, and so is the place of a note that has been.
LEMMA NoticeTypesStep ==
  ASSUME NoticeTypes, NoticesNext
  PROVE  NoticeTypes'
  <1>0. /\ day \in Days /\ subs \in [Subs -> Sub \union {Unborn, Gone}]
        /\ notes \in [Notes -> Note \union {Unborn, Gone}]
        /\ work \in [Workers -> Job] /\ (\A w \in Workers : work[w].day <= day)
        /\ reminded \subseteq [user : Users, name : Names, day : Days]
        /\ page \in [Readers -> Page] /\ (\A r \in Readers : page[r].at = "seed" => page[r].user \in Users)
        /\ runs \subseteq 0..day /\ seen \in [Subs -> Nat] /\ LastDay \in Nat /\ Days = 0..LastDay
    BY NoticesAssumption DEF NoticeTypes, NoticesAssumption, Days
  <1>1. CASE \E s \in Subs, u \in Users, n \in Names, d \in Days : Track(s, u, n, d)
    <2>1. PICK s \in Subs, u \in Users, n \in Names, d \in Days : Track(s, u, n, d)
      BY <1>1
    <2>2. [user |-> u, name |-> n, due |-> d, active |-> TRUE] \in Sub
      BY DEF Sub
    <2> QED
      BY <1>0, <2>1, <2>2 DEF Track, NoticeTypes
  <1>2. CASE \E s \in Subs, n \in Names, d \in Days, a \in BOOLEAN : Edit(s, n, d, a)
    <2>1. PICK s \in Subs, n \in Names, d \in Days, a \in BOOLEAN : Edit(s, n, d, a)
      BY <1>2
    <2>2. subs[s] \in Sub /\ [subs[s] EXCEPT !.name = n, !.due = d, !.active = a] \in Sub
      BY <2>1 DEF Edit, LiveSubs, Sub
    <2> QED
      BY <1>0, <2>1, <2>2 DEF Edit, NoticeTypes
  <1>3. CASE \E s \in Subs : Untrack(s)
    BY <1>0, <1>3 DEF Untrack, NoticeTypes
  <1>4. CASE Beat
    <2>1. day' \in Days /\ day' = day + 1 /\ UNCHANGED <<subs, notes, work, reminded, runs, seen, page>>
      BY <1>0, <1>4 DEF Beat
    <2>2. ASSUME NEW w \in Workers PROVE work[w].day <= day'
      <3>1. work[w].day \in Days
        BY <1>0 DEF Job
      <3> QED
        BY <1>0, <2>1, <3>1
    <2>3. runs \subseteq 0..day'
      BY <1>0, <2>1
    <2> QED
      BY <1>0, <2>1, <2>2, <2>3 DEF NoticeTypes
  <1>5. CASE \E w \in Workers : \E late \in SUBSET YesterdaysNotes : Select(w, late)
    <2>1. PICK w \in Workers, late \in SUBSET YesterdaysNotes : Select(w, late)
      BY <1>5
    <2> DEFINE todo == {[user |-> subs[s].user, name |-> subs[s].name, sub |-> s] :
                          s \in {x \in Subs : DueSoon(x) /\ ~ Recent(x, late)}}
               new == [at |-> "remind", day |-> day, todo |-> todo]
    <2>2. todo \in SUBSET Todo
      BY DEF DueSoon, LiveSubs, Sub, Todo
    <2>3. work' = [work EXCEPT ![w] = new]
      BY <2>1 DEF Select
    <2> HIDE DEF todo
    <2>4. new \in Job /\ new.day = day
      BY <1>0, <2>2 DEF Job
    <2> HIDE DEF new
    <2>5. work' \in [Workers -> Job] /\ \A v \in Workers : work'[v].day <= day
      BY <1>0, <2>3, <2>4
    <2> QED
      BY <1>0, <2>1, <2>5 DEF Select, NoticeTypes
  <1>6. CASE \E w \in Workers : Ack(w) \/ WorkerDies(w)
    <2>1. PICK w \in Workers : work' = [work EXCEPT ![w] = Free]
      BY <1>6 DEF Ack, WorkerDies
    <2>2. Free \in Job /\ Free.day = 0
      BY <1>0 DEF Free, Job
    <2>3. work' \in [Workers -> Job] /\ \A v \in Workers : work'[v].day <= day
      BY <1>0, <2>1, <2>2
    <2> QED
      BY <1>0, <1>6, <2>3 DEF Ack, WorkerDies, NoticeTypes
  <1>7. CASE \E w \in Workers : \E ids \in [work[w].todo -> Notes] : Remind(w, ids)
    <2>0. PICK w \in Workers : \E ids \in [work[w].todo -> Notes] : Remind(w, ids)
      BY <1>7
    <2>1. PICK ids \in [work[w].todo -> Notes] : Remind(w, ids)
      BY <2>0
    <2>2. /\ work' = [work EXCEPT ![w].at = "over", ![w].todo = {}]
          /\ UNCHANGED <<day, subs, seen, page>>
      BY <2>1 DEF Remind
    <2>3. [work[w] EXCEPT !.at = "over", !.todo = {}] \in Job
          /\ [work[w] EXCEPT !.at = "over", !.todo = {}].day = work[w].day
      BY <1>0 DEF Job
    <2>4. work' \in [Workers -> Job] /\ \A v \in Workers : work'[v].day <= day
      BY <1>0, <2>2, <2>3
    <2>5. work[w].day \in 0..day /\ work[w].day \in Days /\ work[w].todo \subseteq Todo
      BY <1>0 DEF Job
    <2>6. CASE Committed(w)
      <3>1. reminded' \subseteq [user : Users, name : Names, day : Days]
        BY <1>0, <2>5, <2>6 DEF Committed, Todo
      <3>2. runs' \subseteq 0..day
        BY <1>0, <2>5, <2>6 DEF Committed
      <3>3. \A n \in Notes : notes'[n] \in Note \union {Unborn, Gone}
        BY <1>0, <2>6 DEF Committed, Placed
      <3>4. notes' = [n \in Notes |-> notes'[n]]
        BY <1>0, <2>1 DEF Remind
      <3> QED
        BY <1>0, <2>2, <2>4, <3>1, <3>2, <3>3, <3>4 DEF NoticeTypes
    <2>7. CASE UNCHANGED <<notes, reminded, runs>>
      BY <1>0, <2>2, <2>4, <2>7 DEF NoticeTypes
    <2> QED
      BY <2>1, <2>6, <2>7, RemindWrites
  <1>8. CASE \/ \E w \in Workers, k \in Tasks : Summarise(w, k)
             \/ \E r \in Readers, u \in Users : Open(r, u)
    <2>1. UNCHANGED <<day, subs, notes, work, reminded, runs, seen>>
      BY <1>8 DEF Summarise, Open
    <2>2. CASE \E r \in Readers, u \in Users : Open(r, u)
      <3>1. PICK r \in Readers, u \in Users : Open(r, u)
        BY <2>2
      <3>2. PICK new \in Page : new.user = u /\ page' = [page EXCEPT ![r] = new]
        BY <3>1 DEF Open, Page
      <3> QED
        BY <1>0, <2>1, <3>2 DEF NoticeTypes
    <2> QED
      BY <1>0, <1>8, <2>1, <2>2 DEF Summarise, NoticeTypes
  <1>9. CASE \/ \E u \in Users, ns \in SUBSET Notes : MarkRead(u, ns)
             \/ \E u \in Users, n \in Notes : Delete(u, n)
    <2>1. UNCHANGED <<day, subs, work, reminded, runs, seen, page>>
      BY <1>9 DEF MarkRead, Delete
    <2>2. ASSUME NEW n \in Notes PROVE notes'[n] \in Note \union {Unborn, Gone}
      <3>1. notes[n] = Unborn => notes'[n] \in Note \union {Unborn, Gone}
        BY <1>0, <1>9, NoticesAssumption DEF MarkRead, Delete, Inbox, NoticesAssumption
      <3> QED
        BY <1>0, <1>9, <3>1, InboxWrites
    <2>3. notes' = [n \in Notes |-> notes'[n]]
      BY <1>0, <1>9 DEF MarkRead, Delete
    <2> QED
      BY <1>0, <2>1, <2>2, <2>3 DEF NoticeTypes
  <1>10. CASE \E r \in Readers, m, n \in Notes : SeedDummies(r, m, n)
    <2>1. PICK r \in Readers, a, b \in Notes : SeedDummies(r, a, b)
      BY <1>10
    <2>2. UNCHANGED <<day, subs, work, reminded, runs, seen>>
      BY <2>1 DEF SeedDummies
    <2>3. [user |-> page[r].user, sort |-> "demo", name |-> Unborn,
           sub |-> Unborn, day |-> day, read |-> FALSE] \in Note
      BY <1>0, <2>1 DEF SeedDummies, Note
    <2>4. page' = [page EXCEPT ![r] = Idle] /\ Idle \in Page /\ Idle.at = "idle"
      BY <2>1 DEF SeedDummies, Idle, Page
    <2>5. page' \in [Readers -> Page] /\ \A q \in Readers : page'[q].at = "seed" => page'[q].user \in Users
      BY <1>0, <2>4
    <2> QED
      BY <1>0, <2>1, <2>2, <2>3, <2>5 DEF SeedDummies, NoticeTypes
  <1> QED
    BY <1>1, <1>2, <1>3, <1>4, <1>5, <1>6, <1>7, <1>8, <1>9, <1>10 DEF NoticesNext

\* What is due of a day past is a subscription not written since, and what was
\* told stays told.
LEMMA DueStays ==
  ASSUME NoticeTypes, NoticesNext, NEW s \in Subs, NEW d \in 0..day, DueOn(s, d)'
  PROVE  DueOn(s, d) /\ (Told(s, d) => Told(s, d)') /\ subs'[s] = subs[s]
  <1>0. /\ day \in Nat /\ subs \in [Subs -> Sub \union {Unborn, Gone}] /\ seen \in [Subs -> Nat]
        /\ Unborn \notin Sub /\ Gone \notin Sub
    BY NoticesAssumption DEF NoticeTypes, NoticesAssumption, Days
  <1>1. reminded \subseteq reminded'
    BY DEF NoticesNext, Track, Edit, Untrack, Beat, Select, Remind, Summarise, Ack, WorkerDies,
       Open, SeedDummies, MarkRead, Delete
  <1>2. subs'[s] = subs[s] /\ seen'[s] = seen[s]
    <2>1. ASSUME seen'[s] = day PROVE FALSE
      BY <1>0, <2>1 DEF DueOn
    <2>2. ASSUME subs'[s] = Gone PROVE FALSE
      BY <1>0, <2>2 DEF DueOn, LiveSubs
    <2>3. ASSUME NEW r \in Subs, NEW u \in Users, NEW n \in Names, NEW e \in Days, Track(r, u, n, e)
          PROVE  r # s
      BY <1>0, <2>1, <2>3 DEF Track
    <2>4. ASSUME NEW r \in Subs, NEW n \in Names, NEW e \in Days, NEW a \in BOOLEAN, Edit(r, n, e, a)
          PROVE  r # s
      BY <1>0, <2>1, <2>4 DEF Edit
    <2>5. ASSUME NEW r \in Subs, Untrack(r)
          PROVE  r # s
      BY <1>0, <2>2, <2>5 DEF Untrack
    <2>6. \/ \E r \in Subs : r # s /\ \E u \in Users, n \in Names, e \in Days : Track(r, u, n, e)
          \/ \E r \in Subs : r # s /\ \E n \in Names, e \in Days, a \in BOOLEAN : Edit(r, n, e, a)
          \/ \E r \in Subs : r # s /\ Untrack(r)
          \/ UNCHANGED <<subs, seen>>
      BY <2>3, <2>4, <2>5 DEF NoticesNext, Beat, Select, Remind, Summarise, Ack, WorkerDies,
         Open, SeedDummies, MarkRead, Delete
    <2> QED
      BY <1>0, <2>6 DEF Track, Edit, Untrack
  <1> QED
    BY <1>1, <1>2 DEF DueOn, Told, LiveSubs

\* Nothing but a commit adds to the reminders or to the runs.
LEMMA RunStep ==
  ASSUME NoticeTypes, NoticesNext
  PROVE  \/ reminded' = reminded /\ runs' = runs /\ \A n \in Notes : NotesKeep(n)
         \/ \E w \in Workers : Committed(w) /\ work'[w].at = "over" /\ subs' = subs /\ page' = page
  <1>1. ASSUME NEW w \in Workers, NEW ids \in [work[w].todo -> Notes], Remind(w, ids)
        PROVE  \/ reminded' = reminded /\ runs' = runs /\ \A n \in Notes : NotesKeep(n)
               \/ Committed(w) /\ work'[w].at = "over" /\ subs' = subs /\ page' = page
    <2>1. work'[w].at = "over" /\ subs' = subs /\ page' = page
      BY <1>1 DEF Remind, NoticeTypes, Job
    <2> QED
      BY <1>1, <2>1, RemindWrites DEF NotesKeep, Reminder
  <1>2. ASSUME \/ \E r \in Readers, a, b \in Notes : SeedDummies(r, a, b)
               \/ \E u \in Users, ns \in SUBSET Notes : MarkRead(u, ns)
               \/ \E u \in Users, b \in Notes : Delete(u, b)
        PROVE  reminded' = reminded /\ runs' = runs /\ \A n \in Notes : NotesKeep(n)
    BY <1>2, InboxWrites DEF SeedDummies, MarkRead, Delete
  <1>3. \/ UNCHANGED <<notes, reminded, runs>>
        \/ \E w \in Workers : \E ids \in [work[w].todo -> Notes] : Remind(w, ids)
        \/ \E r \in Readers, a, b \in Notes : SeedDummies(r, a, b)
        \/ \E u \in Users, ns \in SUBSET Notes : MarkRead(u, ns)
        \/ \E u \in Users, b \in Notes : Delete(u, b)
    BY DEF NoticesNext, Track, Edit, Untrack, Beat, Select, Summarise, Ack, WorkerDies, Open
  <1> QED
    BY <1>1, <1>2, <1>3 DEF NotesKeep, Reminder

\* How a worker's job changes: it is done, or a run chooses what is due and has
\* not been told of in the last day.
LEMMA WorkStep ==
  ASSUME NoticeTypes, NoticesNext, NEW w \in Workers, work'[w].at = "remind"
  PROVE  \/ work'[w] = work[w]
         \/ /\ work[w].at = "idle" /\ work'[w].day = day
            /\ UNCHANGED <<day, subs, notes, reminded, runs, seen>>
            /\ \E late \in SUBSET YesterdaysNotes :
                 work'[w].todo = {[user |-> subs[s].user, name |-> subs[s].name, sub |-> s] :
                                    s \in {x \in Subs : DueSoon(x) /\ ~ Recent(x, late)}}
  <1>0. work \in [Workers -> Job] /\ Free.at = "idle"
    BY DEF NoticeTypes, Free
  <1>1. ASSUME NEW v \in Workers, NEW late \in SUBSET YesterdaysNotes, Select(v, late), v = w
        PROVE  /\ work[w].at = "idle" /\ work'[w].day = day
               /\ UNCHANGED <<day, subs, notes, reminded, runs, seen>>
               /\ work'[w].todo = {[user |-> subs[s].user, name |-> subs[s].name, sub |-> s] :
                                    s \in {x \in Subs : DueSoon(x) /\ ~ Recent(x, late)}}
    <2> DEFINE todo == {[user |-> subs[s].user, name |-> subs[s].name, sub |-> s] :
                          s \in {x \in Subs : DueSoon(x) /\ ~ Recent(x, late)}}
    <2>1. work' = [work EXCEPT ![w] = [at |-> "remind", day |-> day, todo |-> todo]]
      BY <1>1 DEF Select
    <2> HIDE DEF todo
    <2>2. work'[w] = [at |-> "remind", day |-> day, todo |-> todo]
      BY <1>0, <2>1
    <2>3. work'[w].day = day /\ work'[w].todo = todo
      BY <2>2
    <2> QED
      BY <1>1, <2>3 DEF Select, todo
  <1>2. ASSUME NEW v \in Workers, NEW late \in SUBSET YesterdaysNotes, Select(v, late), v # w
        PROVE  work'[w] = work[w]
    BY <1>0, <1>2 DEF Select
  <1>3. ASSUME NEW v \in Workers,
               (\E ids \in [work[v].todo -> Notes] : Remind(v, ids)) \/ Ack(v) \/ WorkerDies(v)
        PROVE  work'[w] = work[w]
    <2>1. CASE v = w
      <3>1. (\E ids \in [work[v].todo -> Notes] : Remind(v, ids)) => work'[w].at = "over"
        BY <1>0, <2>1 DEF Remind, Job
      <3> QED
        BY <1>0, <1>3, <2>1, <3>1 DEF Ack, WorkerDies
    <2>2. CASE v # w
      BY <1>0, <1>3, <2>2 DEF Remind, Ack, WorkerDies
    <2> QED
      BY <2>1, <2>2
  <1>4. \/ work' = work
        \/ \E v \in Workers : \/ \E late \in SUBSET YesterdaysNotes : Select(v, late)
                              \/ \E ids \in [work[v].todo -> Notes] : Remind(v, ids)
                              \/ Ack(v) \/ WorkerDies(v)
    BY DEF NoticesNext, Track, Edit, Untrack, Beat, Summarise, Open, SeedDummies, MarkRead, Delete
  <1> QED
    BY <1>1, <1>2, <1>3, <1>4

\* No step forgets a reminder that is due.
LEMMA TimeStep ==
  ASSUME TimeInv, NoticesNext
  PROVE  TimeInv'
  <1>0. /\ NoticeTypes /\ NoticeTypes' /\ day \in Nat
        /\ \A n \in Notes : NoteTold(n)
        /\ \A w \in Workers : Chosen(w) /\ work[w].day \in 0..day
        /\ runs \subseteq 0..day
    BY NoticeTypesStep, NoticesAssumption DEF TimeInv, NoticeTypes, Job, Days, NoticesAssumption
  <1>1. ASSUME NEW n \in Notes PROVE NoteTold(n)'
    <2>1. CASE reminded' = reminded /\ NotesKeep(n)
      BY <1>0, <2>1 DEF NoteTold, NotesKeep, Reminder
    <2>2. ASSUME NEW w \in Workers, Committed(w) PROVE NoteTold(n)'
      <3>1. PICK ids \in [work[w].todo -> Notes] : Placed(w, ids)
        BY <2>2 DEF Committed
      <3>2. CASE (\A x \in work[w].todo : ids[x] # n) /\ notes'[n] = notes[n]
        BY <1>0, <2>2, <3>2 DEF NoteTold, Reminder, Committed
      <3>3. ASSUME NEW x \in work[w].todo, notes'[n].user = x.user, notes'[n].name = x.name,
                   notes'[n].day = work[w].day
            PROVE  NoteTold(n)'
        BY <2>2, <3>3 DEF NoteTold, Committed
      <3> QED
        BY <3>1, <3>2, <3>3 DEF Placed
    <2> QED
      BY <1>0, <2>1, <2>2, RunStep
  <1>2. ASSUME NEW w \in Workers, NEW s \in Subs, NEW d, work'[w].at = "remind", work'[w].day = d,
               DueOn(s, d)'
        PROVE  \/ Told(s, d)'
               \/ \E x \in work'[w].todo : x.user = subs'[s].user /\ x.name = subs'[s].name
    <2>1. CASE work'[w] = work[w]
      BY <1>0, <1>2, <2>1, DueStays DEF Chosen
    <2>2. ASSUME work'[w].day = day, UNCHANGED <<day, subs, notes, reminded, runs, seen>>,
                 NEW late \in SUBSET YesterdaysNotes,
                 work'[w].todo = {[user |-> subs[r].user, name |-> subs[r].name, sub |-> r] :
                                    r \in {x \in Subs : DueSoon(x) /\ ~ Recent(x, late)}}
          PROVE  \/ Told(s, d)'
                 \/ \E x \in work'[w].todo : x.user = subs'[s].user /\ x.name = subs'[s].name
      <3>1. DueSoon(s)
        BY <1>2, <2>2 DEF DueOn, DueSoon, LiveSubs
      <3>2. CASE Recent(s, late)
        <4>1. PICK n \in Inbox(subs[s].user) :
                /\ notes[n].sort = "renewal" /\ notes[n].name = subs[s].name
                /\ notes[n].day = day \/ n \in late
          BY <3>2 DEF Recent
        <4>2. n \in Notes /\ notes[n] \in Note /\ notes[n].user = subs[s].user
          BY <4>1 DEF Inbox
        <4>3. [user |-> notes[n].user, name |-> notes[n].name, day |-> notes[n].day] \in reminded
          BY <1>0, <4>1, <4>2 DEF NoteTold, Reminder
        <4>4. notes[n].day + 1 >= day /\ notes[n].day <= day
          <5>1. notes[n].day \in Nat
            BY <4>2, NoticesAssumption DEF Note, Days, NoticesAssumption
          <5>2. notes[n].day = day \/ notes[n].day + 1 = day
            BY <4>1 DEF YesterdaysNotes
          <5> QED
            BY <1>0, <5>1, <5>2
        <4>5. PICK x \in reminded : x = [user |-> notes[n].user, name |-> notes[n].name, day |-> notes[n].day]
          BY <4>3
        <4>6. x.user = subs[s].user /\ x.name = subs[s].name /\ x.day = notes[n].day
          BY <4>1, <4>2, <4>5
        <4>7. Told(s, day)
          BY <4>4, <4>6 DEF Told
        <4> QED
          BY <1>2, <2>2, <4>7 DEF Told
      <3>3. CASE ~ Recent(s, late)
        <4>1. PICK x \in work'[w].todo : x = [user |-> subs[s].user, name |-> subs[s].name, sub |-> s]
          BY <2>2, <3>1, <3>3
        <4>2. x.user = subs[s].user /\ x.name = subs[s].name
          BY <4>1
        <4> QED
          BY <2>2, <4>2
      <3> QED
        BY <3>2, <3>3
    <2> QED
      BY <1>0, <1>2, <2>1, <2>2, WorkStep
  <1>3. ASSUME NEW d \in runs', NEW s \in Subs, DueOn(s, d)' PROVE Told(s, d)'
    <2>1. CASE d \in runs
      BY <1>0, <1>3, <2>1, DueStays DEF TimeInv
    <2>2. CASE d \notin runs
      <3>1. PICK w \in Workers : Committed(w)
        BY <1>0, <1>3, <2>2, RunStep
      <3>2. work[w].at = "remind" /\ d = work[w].day
        BY <1>3, <2>2, <3>1 DEF Committed
      <3>3. DueOn(s, d) /\ (Told(s, d) => Told(s, d)') /\ subs'[s] = subs[s] /\ d \in Nat
        BY <1>0, <1>3, <3>2, DueStays
      <3>4. CASE Told(s, d)
        BY <3>3, <3>4
      <3>5. ASSUME NEW x \in work[w].todo, x.user = subs[s].user, x.name = subs[s].name
            PROVE  Told(s, d)'
        <4>1. PICK y \in reminded' : y = [user |-> x.user, name |-> x.name, day |-> d]
          BY <3>1, <3>2 DEF Committed
        <4>2. y.user = subs[s].user /\ y.name = subs[s].name /\ y.day = d
          BY <3>5, <4>1
        <4> QED
          BY <3>3, <4>2 DEF Told
      <3> QED
        BY <1>0, <3>2, <3>3, <3>4, <3>5 DEF Chosen
    <2> QED
      BY <2>1, <2>2
  <1>4. ASSUME NEW w \in Workers PROVE Chosen(w)'
    BY <1>2 DEF Chosen
  <1> QED
    BY <1>0, <1>1, <1>3, <1>4 DEF TimeInv

\* A subscription that is listed as renewing today has been reminded of in the
\* three days before, where a run of one of the two days before was committed
\* and the subscription has not been written since: a run passes over who was
\* told in the last 24 hours, not over who was told of another subscription
\* (send_subscription_reminders); for any number of workers.
THEOREM RemindedInTimeHolds == ServicesSpec => []RemindedInTime
  <1>1. ServicesInit => TimeInv
    BY TimeStart DEF ServicesInit
  <1>2. habit \in Habits /\ TimeInv /\ [ServicesNext]_allVars => TimeInv'
    <2>1. TimeInv /\ UNCHANGED noticeVars => TimeInv'
      BY DEF TimeInv, NoticeTypes, noticeVars, NoteTold, Reminder, Chosen, DueOn, Told, LiveSubs
    <2> QED
      BY <2>1, OneService, TimeStep DEF Reminding, Reading
  <1>3. TimeInv => RemindedInTime
    <2> SUFFICES ASSUME TimeInv, NEW u \in Users, NEW s \in Renewals(u, 0), NEW d \in runs,
                        d > seen[s], d + 2 >= day, d < day
                 PROVE  \E x \in reminded : /\ x.user = subs[s].user /\ x.name = subs[s].name
                                            /\ x.day + 3 >= day /\ x.day < day
      BY DEF RemindedInTime
    <2>1. /\ day \in Nat /\ d \in Nat /\ s \in LiveSubs /\ subs[s].active /\ subs[s].due = day
          /\ s \in Subs /\ seen[s] \in Nat
      BY NoticesAssumption DEF TimeInv, NoticeTypes, Renewals, Days, NoticesAssumption, LiveSubs, Sub
    <2>2. DueOn(s, d)
      BY <2>1 DEF DueOn
    <2>3. PICK x \in reminded : /\ x.user = subs[s].user /\ x.name = subs[s].name
                                /\ x.day + 1 >= d /\ x.day <= d
      BY <2>1, <2>2 DEF TimeInv, Told
    <2>4. x.day \in Nat
      BY NoticesAssumption DEF TimeInv, NoticeTypes, Days, NoticesAssumption
    <2> QED
      BY <2>1, <2>3, <2>4
  <1> QED
    BY <1>1, <1>2, <1>3, HabitKept, PTL DEF ServicesSpec, allVars

-----------------------------------------------------------------------------
(* Reminders once, demonstration notes in one pair.                         *)

\* A reminder is of a subscription that there has been, and for its user.
NoteOf(n) ==
  Reminder(n) =>
    /\ notes[n].sub \in Subs /\ subs[notes[n].sub] # Unborn
    /\ notes[n].sub \in LiveSubs => notes[n].user = subs[notes[n].sub].user

\* A run has chosen each subscription once, for its user, and none that a note
\* of the day is of already.
ChosenOnce(w) ==
  work[w].at = "remind" =>
    \A x \in work[w].todo :
      /\ x.sub \in Subs /\ subs[x.sub] # Unborn
      /\ x.sub \in LiveSubs => x.user = subs[x.sub].user
      /\ \A y \in work[w].todo : x.sub = y.sub => x = y
      /\ \A n \in Notes :
           Reminder(n) /\ notes[n].sub = x.sub /\ notes[n].name = x.name => notes[n].day # work[w].day

RemindersOnce == \A m, n \in Notes : SameReminder(m, n) => m = n

OnceInv ==
  /\ NoticeTypes
  /\ \A n \in Notes : NoteOf(n)
  /\ \A w \in Workers : ChosenOnce(w)
  /\ RemindersOnce

\* A subscription keeps its user, and one that is gone stays gone.
LEMMA SubKeepsUser ==
  ASSUME NoticeTypes, NoticesNext, NEW s \in Subs, subs[s] # Unborn
  PROVE  /\ subs'[s] # Unborn
         /\ s \in LiveSubs' => s \in LiveSubs /\ subs'[s].user = subs[s].user
  <1>0. /\ subs \in [Subs -> Sub \union {Unborn, Gone}]
        /\ Unborn \notin Sub /\ Gone \notin Sub /\ Unborn # Gone
    BY NoticesAssumption DEF NoticeTypes, NoticesAssumption
  <1>1. ASSUME NEW r \in Subs, NEW n \in Names, NEW d \in Days, NEW a \in BOOLEAN, Edit(r, n, d, a)
        PROVE  /\ subs'[s] # Unborn
               /\ s \in LiveSubs' => s \in LiveSubs /\ subs'[s].user = subs[s].user
    <2>1. subs[r] \in Sub /\ subs' = [subs EXCEPT ![r] = [subs[r] EXCEPT !.name = n, !.due = d, !.active = a]]
      BY <1>1 DEF Edit, LiveSubs
    <2> DEFINE new == [subs[r] EXCEPT !.name = n, !.due = d, !.active = a]
    <2>2. new \in Sub /\ new.user = subs[r].user
      BY <2>1 DEF Sub
    <2> HIDE DEF new
    <2> QED
      BY <1>0, <2>1, <2>2 DEF LiveSubs, new
  <1>2. ASSUME NEW r \in Subs, Untrack(r)
        PROVE  /\ subs'[s] # Unborn
               /\ s \in LiveSubs' => s \in LiveSubs /\ subs'[s].user = subs[s].user
    BY <1>0, <1>2 DEF Untrack, LiveSubs
  <1>3. ASSUME NEW r \in Subs, NEW u \in Users, NEW n \in Names, NEW d \in Days, Track(r, u, n, d)
        PROVE  subs'[s] = subs[s]
    BY <1>0, <1>3 DEF Track
  <1>4. \/ subs' = subs
        \/ \E r \in Subs, u \in Users, n \in Names, d \in Days : Track(r, u, n, d)
        \/ \E r \in Subs, n \in Names, d \in Days, a \in BOOLEAN : Edit(r, n, d, a)
        \/ \E r \in Subs : Untrack(r)
    BY DEF NoticesNext, Beat, Select, Remind, Summarise, Ack, WorkerDies, Open, SeedDummies, MarkRead, Delete
  <1> QED
    BY <1>1, <1>2, <1>3, <1>4 DEF LiveSubs

\* No step of the one worker reminds of a renewal twice.
LEMMA OnceStep ==
  ASSUME \A v, w \in Workers : v = w, OnceInv, NoticesNext
  PROVE  OnceInv'
  <1>0. /\ NoticeTypes /\ NoticeTypes' /\ \A n \in Notes : NoteOf(n)
        /\ \A w \in Workers : ChosenOnce(w) /\ work[w].todo \subseteq Todo
        /\ Unborn \notin Note
    BY NoticeTypesStep, NoticesAssumption DEF OnceInv, NoticeTypes, Job, NoticesAssumption
  <1>1. ASSUME NEW n \in Notes, NotesKeep(n) PROVE NoteOf(n)'
    BY <1>0, <1>1, SubKeepsUser DEF NoteOf, NotesKeep
  <1>2. CASE reminded' = reminded /\ runs' = runs /\ \A n \in Notes : NotesKeep(n)
    <2>1. \A n \in Notes : NoteOf(n)'
      BY <1>1, <1>2
    <2>2. RemindersOnce'
      BY <1>2 DEF OnceInv, RemindersOnce, SameReminder, NotesKeep, Reminder
    <2>3. ASSUME NEW w \in Workers, work'[w].at = "remind" PROVE ChosenOnce(w)'
      <3>1. CASE work'[w] = work[w]
        <4>1. ASSUME NEW x \in work[w].todo
              PROVE  /\ x.sub \in Subs /\ subs'[x.sub] # Unborn
                     /\ x.sub \in LiveSubs' => x.user = subs'[x.sub].user
          BY <1>0, <2>3, <3>1, SubKeepsUser DEF ChosenOnce
        <4> QED
          BY <1>0, <1>2, <2>3, <3>1, <4>1 DEF ChosenOnce, NotesKeep
      <3>2. ASSUME work'[w].day = day, UNCHANGED <<day, subs, notes, reminded, runs, seen>>,
                   NEW late \in SUBSET YesterdaysNotes,
                   work'[w].todo = {[user |-> subs[s].user, name |-> subs[s].name, sub |-> s] :
                                      s \in {x \in Subs : DueSoon(x) /\ ~ Recent(x, late)}}
            PROVE  ChosenOnce(w)'
        <4>1. ASSUME NEW x \in work'[w].todo
              PROVE  \E s \in LiveSubs : /\ x = [user |-> subs[s].user, name |-> subs[s].name, sub |-> s]
                                         /\ x.user = subs[s].user /\ x.name = subs[s].name /\ x.sub = s
                                         /\ ~ Recent(s, late)
          <5>1. PICK s \in Subs : /\ DueSoon(s) /\ ~ Recent(s, late)
                                  /\ x = [user |-> subs[s].user, name |-> subs[s].name, sub |-> s]
            BY <3>2
          <5>2. x.user = subs[s].user /\ x.name = subs[s].name /\ x.sub = s
            BY <5>1
          <5> QED
            BY <5>1, <5>2 DEF DueSoon
        <4>2. \A s \in LiveSubs : s \in Subs /\ subs[s] # Unborn
          BY NoticesAssumption DEF LiveSubs, NoticesAssumption
        <4>3. ASSUME NEW x \in work'[w].todo, NEW n \in Notes, Reminder(n), notes[n].sub = x.sub,
                     notes[n].name = x.name
              PROVE  notes[n].day # day
          <5>1. PICK s \in LiveSubs : x.name = subs[s].name /\ x.sub = s /\ ~ Recent(s, late)
            BY <4>1
          <5>2. notes[n].user = subs[s].user
            BY <1>0, <4>3, <5>1 DEF NoteOf
          <5> QED
            BY <4>3, <5>1, <5>2 DEF Recent, Inbox, Reminder
        <4>4. ASSUME NEW x \in work'[w].todo, NEW y \in work'[w].todo, x.sub = y.sub PROVE x = y
          BY <4>1, <4>4
        <4>5. ASSUME NEW x \in work'[w].todo
              PROVE  /\ x.sub \in Subs /\ subs[x.sub] # Unborn /\ x.user = subs[x.sub].user
          BY <4>1, <4>2
        <4> QED
          BY <3>2, <4>3, <4>4, <4>5 DEF ChosenOnce, Reminder, LiveSubs
      <3> QED
        BY <1>0, <2>3, <3>1, <3>2, WorkStep
    <2>4. ASSUME NEW w \in Workers PROVE ChosenOnce(w)'
      BY <2>3 DEF ChosenOnce
    <2> QED
      BY <1>0, <2>1, <2>2, <2>4 DEF OnceInv
  <1>3. ASSUME NEW w \in Workers, Committed(w), work'[w].at = "over", subs' = subs
        PROVE  OnceInv'
    <2>1. PICK ids \in [work[w].todo -> Notes] : Placed(w, ids)
      BY <1>3 DEF Committed
    <2>2. work[w].at = "remind" /\ ChosenOnce(w)
      BY <1>0, <1>3 DEF Committed
    <2> DEFINE New(n, x) ==
                 /\ x \in work[w].todo /\ ids[x] = n /\ notes'[n] \in Note /\ notes'[n].sort = "renewal"
                 /\ notes'[n].user = x.user /\ notes'[n].name = x.name /\ notes'[n].sub = x.sub
                 /\ notes'[n].day = work[w].day /\ notes[n] = Unborn
    <2>3. ASSUME NEW n \in Notes PROVE notes'[n] = notes[n] \/ \E x : New(n, x)
      BY <2>1 DEF Placed
    <2>4. ASSUME NEW n \in Notes PROVE NoteOf(n)'
      <3>1. CASE notes'[n] = notes[n]
        BY <1>0, <1>3, <3>1 DEF NoteOf, Reminder, LiveSubs
      <3>2. ASSUME NEW x, New(n, x) PROVE NoteOf(n)'
        BY <1>3, <2>2, <3>2 DEF NoteOf, ChosenOnce, LiveSubs
      <3> QED
        BY <2>3, <3>1, <3>2
    <2>5. ASSUME NEW n \in Notes, NEW x, New(n, x), NEW m \in Notes, notes'[m] = notes[m]
          PROVE  ~ SameReminder(m, n)' /\ ~ SameReminder(n, m)'
      BY <1>0, <2>2, <2>5 DEF SameReminder, ChosenOnce, Reminder
    <2>6. ASSUME NEW n \in Notes, NEW x, New(n, x), NEW m \in Notes, NEW y, New(m, y), SameReminder(m, n)'
          PROVE  m = n
      BY <2>2, <2>6 DEF SameReminder, ChosenOnce
    <2>7. RemindersOnce'
      <3>1. ASSUME NEW m \in Notes, NEW n \in Notes, SameReminder(m, n)' PROVE m = n
        <4>1. CASE notes'[m] = notes[m] /\ notes'[n] = notes[n]
          BY <3>1, <4>1 DEF OnceInv, RemindersOnce, SameReminder
        <4> QED
          BY <2>3, <2>5, <2>6, <3>1, <4>1
      <3> QED
        BY <3>1 DEF RemindersOnce
    <2>8. ASSUME NEW v \in Workers PROVE ChosenOnce(v)'
      <3>1. v = w
        OBVIOUS
      <3> QED
        BY <1>3, <3>1 DEF ChosenOnce
    <2> QED
      BY <1>0, <2>4, <2>7, <2>8 DEF OnceInv
  <1> QED
    BY <1>0, <1>2, <1>3, RunStep

\* The demonstration notes of a user.
Demos(u) == {n \in Inbox(u) : notes[n].sort = "demo"}

\* An inbox that is about to be given notes is empty, requests come one at a
\* time, and two notes have been given at most.
PairInv ==
  /\ NoticeTypes
  /\ habit = "remind" => \A r \in Readers : page[r] = Idle
  /\ \A q, r \in Readers : page[q] = Idle \/ page[r] = Idle \/ q = r
  /\ \A u \in Users, r \in Readers : page[r].at = "seed" /\ page[r].user = u => Inbox(u) = {}
  /\ \A u \in Users : Demos(u) = {} \/ \E m, n \in Notes : Demos(u) \subseteq {m, n}

\* No step of reads that come one at a time seeds a third demonstration note.
LEMMA PairStep ==
  ASSUME PairInv, habit' = habit, (habit = "remind" /\ Reminding) \/ (habit = "inbox" /\ Reading)
  PROVE  PairInv'
  <1>0. NoticeTypes /\ NoticeTypes' /\ NoticesNext
    BY NoticeTypesStep DEF PairInv, Reminding, Reading
  <1>1. ASSUME page' = page, \A u \in Users : Demos(u)' \subseteq Demos(u),
               \A u \in Users : (\E r \in Readers : page[r] # Idle) => Inbox(u)' \subseteq Inbox(u)
        PROVE  PairInv'
    <2>1. ASSUME NEW r \in Readers, page'[r].at = "seed", NEW u \in Users, u = page'[r].user
          PROVE  Inbox(u)' = {}
      <3>1. Inbox(u) = {} /\ page[r] # Idle
        BY <1>1, <2>1 DEF PairInv, Idle
      <3> QED
        BY <1>1, <3>1
    <2>2. ASSUME NEW u \in Users PROVE Demos(u)' = {} \/ \E m, n \in Notes : Demos(u)' \subseteq {m, n}
      <3>1. Demos(u)' \subseteq Demos(u)
        BY <1>1
      <3> QED
        BY <3>1 DEF PairInv
    <2>3. habit' = "remind" => \A r \in Readers : page'[r] = Idle
      BY <1>1 DEF PairInv
    <2>4. \A q, r \in Readers : page'[q] = Idle \/ page'[r] = Idle \/ q = r
      BY <1>1 DEF PairInv
    <2>5. \A u \in Users, r \in Readers : page'[r].at = "seed" /\ page'[r].user = u => Inbox(u)' = {}
      BY <2>1
    <2> QED
      BY <1>0, <2>2, <2>3, <2>4, <2>5 DEF PairInv
  <1>2. ASSUME NEW r \in Readers, NEW u \in Users, Open(r, u) PROVE PairInv'
    <2>1. /\ notes' = notes /\ page[r] = Idle /\ Inbox(u) = {} /\ habit # "remind"
          /\ page' = [page EXCEPT ![r] = [at |-> "seed", user |-> u]]
      <3>1. page' = [page EXCEPT ![r] = [at |-> "seed", user |-> u]] /\ page[r] = Idle
        BY <1>2 DEF Open
      <3>2. page'[r].at = "seed"
        BY <1>0, <3>1 DEF NoticeTypes
      <3>3. page' # page
        BY <3>1, <3>2 DEF Idle
      <3> QED
        BY <1>2, <3>1, <3>3 DEF Open, Reminding
    <2>2. Reading
      BY <2>1
    <2>3. \A q \in Readers : page'[q] = Idle \/ \A p \in Readers \ {q} : page'[p] = Idle
      BY <2>2 DEF Reading
    <2>4. /\ page'[r].at = "seed" /\ page'[r].user = u
          /\ \A q \in Readers \ {r} : page'[q] = page[q]
      BY <1>0, <2>1 DEF NoticeTypes
    <2>5. \A v : Inbox(v)' = Inbox(v) /\ Demos(v)' = Demos(v)
      BY <2>1 DEF Inbox, Demos
    <2>7. ASSUME NEW q \in Readers, NEW v \in Users, page'[q].at = "seed", page'[q].user = v
          PROVE  Inbox(v)' = {}
      <3>1. Inbox(v) = {}
        BY <2>1, <2>4, <2>7 DEF PairInv
      <3> QED
        BY <2>5, <3>1
    <2> QED
      BY <1>0, <2>1, <2>3, <2>5, <2>7 DEF PairInv
  <1>3. ASSUME NEW r \in Readers, NEW a \in Notes, NEW b \in Notes, SeedDummies(r, a, b) PROVE PairInv'
    <2>1. /\ page[r].at = "seed" /\ page' = [page EXCEPT ![r] = Idle]
          /\ notes[a] = Unborn /\ notes[b] = Unborn
          /\ notes' = [x \in Notes |->
               IF x \in {a, b} THEN [user |-> page[r].user, sort |-> "demo", name |-> Unborn,
                                     sub |-> Unborn, day |-> day, read |-> FALSE]
               ELSE notes[x]]
      BY <1>3 DEF SeedDummies
    <2>2. PICK v \in Users : v = page[r].user /\ Inbox(v) = {}
      BY <1>0, <2>1 DEF NoticeTypes, PairInv
    <2>3. \A q \in Readers : page'[q] = Idle
      BY <1>0, <2>1 DEF PairInv, NoticeTypes, Idle
    <2>4. ASSUME NEW x \in {a, b} PROVE notes'[x].user = v
      BY <2>1, <2>2, <2>4
    <2>5. \A x \in Notes \ {a, b} : notes'[x] = notes[x]
      BY <2>1
    <2>6. ASSUME NEW u \in Users PROVE Demos(u)' = {} \/ \E m, n \in Notes : Demos(u)' \subseteq {m, n}
      <3>1. CASE u = v
        <4>1. Demos(u)' \subseteq {a, b}
          BY <2>2, <2>5, <3>1 DEF Demos, Inbox
        <4> QED
          BY <4>1
      <3>2. CASE u # v
        <4>1. Demos(u)' \subseteq Demos(u)
          BY <2>4, <2>5, <3>2 DEF Demos, Inbox
        <4> QED
          BY <4>1 DEF PairInv
      <3> QED
        BY <3>1, <3>2
    <2> QED
      BY <1>0, <2>3, <2>6 DEF PairInv, Idle
  <1>4. ASSUME (\E u \in Users, ns \in SUBSET Notes : MarkRead(u, ns)) \/ (\E u \in Users, n \in Notes : Delete(u, n))
        PROVE  PairInv'
    <2>1. page' = page
      BY <1>4 DEF MarkRead, Delete
    <2>2. ASSUME NEW n \in Notes, notes'[n] \in Note
          PROVE  notes[n] \in Note /\ notes'[n].user = notes[n].user /\ notes'[n].sort = notes[n].sort
      <3>1. ASSUME NEW u \in Users, NEW ns \in SUBSET Notes, MarkRead(u, ns)
            PROVE  notes[n] \in Note /\ notes'[n].user = notes[n].user /\ notes'[n].sort = notes[n].sort
        <4>1. notes' = [x \in Notes |-> IF x \in ns THEN [notes[x] EXCEPT !.read = TRUE] ELSE notes[x]]
          BY <3>1 DEF MarkRead
        <4>2. n \in ns => notes[n] \in Note
          BY <3>1 DEF MarkRead, Inbox
        <4> QED
          BY <2>2, <4>1, <4>2 DEF Note
      <3>2. ASSUME NEW u \in Users, NEW b \in Notes, Delete(u, b)
            PROVE  notes[n] \in Note /\ notes'[n].user = notes[n].user /\ notes'[n].sort = notes[n].sort
        BY <1>0, <2>2, <3>2, NoticesAssumption DEF Delete, NoticeTypes, NoticesAssumption
      <3> QED
        BY <1>4, <3>1, <3>2
    <2>3. ASSUME NEW u \in Users PROVE Demos(u)' \subseteq Demos(u) /\ Inbox(u)' \subseteq Inbox(u)
      BY <2>2 DEF Demos, Inbox
    <2> QED
      BY <1>1, <2>1, <2>3
  <1>5. ASSUME NEW w \in Workers, NEW ids \in [work[w].todo -> Notes], Remind(w, ids) PROVE PairInv'
    <2>1. page' = page /\ work' # work
      BY <1>0, <1>5 DEF Remind, NoticeTypes, Job
    <2>2. habit = "remind"
      BY <2>1 DEF Reading
    <2>3. \A u \in Users : Demos(u)' \subseteq Demos(u)
      BY <1>0, <1>5, RemindWrites DEF Committed, Placed, Demos, Inbox
    <2> QED
      BY <1>1, <2>1, <2>2, <2>3 DEF PairInv
  <1>6. ASSUME UNCHANGED <<notes, page>> PROVE PairInv'
    BY <1>1, <1>6 DEF Demos, Inbox
  <1>7. \/ UNCHANGED <<notes, page>>
        \/ \E r \in Readers, u \in Users : Open(r, u)
        \/ \E r \in Readers, a, b \in Notes : SeedDummies(r, a, b)
        \/ \E u \in Users, ns \in SUBSET Notes : MarkRead(u, ns)
        \/ \E u \in Users, n \in Notes : Delete(u, n)
        \/ \E w \in Workers : \E ids \in [work[w].todo -> Notes] : Remind(w, ids)
    BY <1>0 DEF NoticesNext, Track, Edit, Untrack, Beat, Select, Summarise, Ack, WorkerDies
  <1> QED
    BY <1>2, <1>3, <1>4, <1>5, <1>6, <1>7

\* A subscription is reminded of once a day under one name, although a task
\* whose worker died after the commit is run again, by the NOT EXISTS of
\* send_subscription_reminders where there is one worker; and the demonstration
\* notes of a user come in one pair where the requests come one at a time
\* (list in notifications/service.py).
THEOREM NoticesOnceHolds ==
  ASSUME \A v, w \in Workers : v = w
  PROVE  ServicesSpec => []NoticesOnce
  <1>1. ServicesInit => OnceInv /\ PairInv
    <2> SUFFICES ASSUME ServicesInit PROVE OnceInv /\ PairInv
      OBVIOUS
    <2>0. NoticesInit /\ NoticeTypes
      BY TimeStart DEF ServicesInit, TimeInv
    <2>1. \A n \in Notes : ~ Reminder(n) /\ notes[n] \notin Note
      BY <2>0, NoticesAssumption DEF NoticesInit, Reminder, NoticesAssumption
    <2>2. \A w \in Workers : work[w].at # "remind"
      BY <2>0 DEF NoticesInit, Free
    <2>3. \A r \in Readers : page[r] = Idle /\ page[r].at # "seed"
      BY <2>0 DEF NoticesInit, Idle
    <2>4. \A u : Demos(u) = {}
      BY <2>1 DEF Demos, Inbox
    <2> QED
      BY <2>0, <2>1, <2>2, <2>3, <2>4
      DEF OnceInv, PairInv, NoteOf, ChosenOnce, RemindersOnce, SameReminder, Reminder
  <1>2. habit \in Habits /\ OnceInv /\ PairInv /\ [ServicesNext]_allVars => (OnceInv /\ PairInv)'
    <2> SUFFICES ASSUME habit \in Habits, OnceInv, PairInv, [ServicesNext]_allVars PROVE (OnceInv /\ PairInv)'
      OBVIOUS
    <2>1. habit' = habit
      BY DEF ServicesNext, allVars
    <2>2. CASE UNCHANGED noticeVars
      <3>1. NoticeTypes'
        BY <2>2 DEF OnceInv, NoticeTypes, noticeVars
      <3>2. OnceInv'
        BY <2>2, <3>1 DEF OnceInv, noticeVars, NoteOf, ChosenOnce, RemindersOnce, SameReminder, Reminder, LiveSubs
      <3>3. PairInv'
        BY <2>1, <2>2, <3>1 DEF PairInv, noticeVars, Demos, Inbox
      <3> QED
        BY <3>2, <3>3
    <2>3. CASE (habit = "remind" /\ Reminding) \/ (habit = "inbox" /\ Reading)
      BY <2>1, <2>3, OnceStep, PairStep DEF Reminding, Reading
    <2>4. UNCHANGED noticeVars \/ (habit = "remind" /\ Reminding) \/ (habit = "inbox" /\ Reading)
      BY OneService
    <2> QED
      BY ONLY <2>2, <2>3, <2>4
  <1>3. OnceInv /\ PairInv => NoticesOnce
    <2> SUFFICES ASSUME OnceInv, PairInv, NEW u \in Users PROVE Cardinality(Demos(u)) <= 2
      BY DEF OnceInv, RemindersOnce, NoticesOnce, Demos
    <2>1. ASSUME NEW m \in Notes, NEW n \in Notes, Demos(u) \subseteq {m, n} PROVE Cardinality(Demos(u)) <= 2
      <3>1. IsFiniteSet({m}) /\ Cardinality({m}) = 1
        BY FS_Singleton
      <3>2. IsFiniteSet({m} \union {n}) /\ Cardinality({m} \union {n}) <= 2
        BY <3>1, FS_AddElement
      <3>3. Cardinality(Demos(u)) <= Cardinality({m, n}) /\ Cardinality({m, n}) <= 2 /\ IsFiniteSet(Demos(u))
        <4>1. {m, n} = {m} \union {n}
          OBVIOUS
        <4> QED
          BY <2>1, <3>2, <4>1, FS_Subset
      <3>4. Cardinality(Demos(u)) \in Nat /\ Cardinality({m, n}) \in Nat
        <4>1. {m, n} = {m} \union {n}
          OBVIOUS
        <4>2. IsFiniteSet({m, n})
          BY <3>2, <4>1
        <4> QED
          BY <3>3, <4>2, FS_CardinalityType
      <3> HIDE DEF Demos
      <3>5. ASSUME NEW i \in Nat, NEW j \in Nat, i <= j, j <= 2 PROVE i <= 2
        BY <3>5
      <3> QED
        BY ONLY <3>3, <3>4, <3>5
    <2>2. Demos(u) = {} => Cardinality(Demos(u)) <= 2
      BY FS_EmptySet
    <2> QED
      BY <2>1, <2>2 DEF PairInv
  <1> QED
    BY <1>1, <1>2, <1>3, HabitKept, PTL DEF ServicesSpec, allVars

-----------------------------------------------------------------------------
(* The Stripe row.                                                          *)

CardTypes ==
  /\ stripe \in [StripeSubs -> Card!Subscription \union {Unborn}]
  /\ wire \in Seq(Card!StripeEvent)
  /\ last \in Card!StripeEvent \union {NoEvent}
  /\ row \in Card!Row \union {NoRow}
  /\ invoices \in [StripeSubs -> Nat] /\ recorded \in [StripeSubs -> Nat]
  /\ chosen \in BOOLEAN

\* Events whose status the row copies, and those there are still of a subscription.
Bears(e) == e.kind \in {"created", "updated", "deleted"}
ToCome(s) == \E j \in 1..Len(wire) : Bears(wire[j]) /\ wire[j].sub = s

\* An event is of a subscription that exists and has its plan; it says that the
\* subscription has ended if and only if it is the one of the end.
Sent(e, held) ==
  /\ e \in Card!StripeEvent /\ held[e.sub] # Unborn
  /\ e.now.plan = held[e.sub].plan
  /\ e.now.status = "canceled" <=> e.kind = "deleted"
  /\ e.kind = "deleted" => held[e.sub].status = "canceled"

\* Events arrive in the order they were sent: the last of a subscription says
\* what Stripe says, and none follows the one of its end.
WireInv ==
  /\ \A i \in 1..Len(wire) : Sent(wire[i], stripe)
  /\ \A i \in 1..Len(wire) : \A j \in (i + 1)..Len(wire) :
       wire[i].kind = "deleted" => wire[j].sub # wire[i].sub
  /\ \A i \in 1..Len(wire) :
       Bears(wire[i]) =>
         \/ wire[i].now.status = stripe[wire[i].sub].status
         \/ \E j \in (i + 1)..Len(wire) : Bears(wire[j]) /\ wire[j].sub = wire[i].sub
  /\ last # NoEvent =>
       /\ Sent(last, stripe)
       /\ Bears(last) => last.now.status = stripe[last.sub].status \/ ToCome(last.sub)
       /\ last.kind = "deleted" => \A j \in 1..Len(wire) : wire[j].sub # last.sub

\* The row says what Stripe says or an event of its subscription is to come,
\* and what has ended is not brought back.
RowInv ==
  row # NoRow /\ row.sub # NoSub =>
    /\ stripe[row.sub] # Unborn
    /\ ~ chosen =>
         /\ row.status = stripe[row.sub].status \/ ToCome(row.sub)
         /\ row.plan = IF row.status = "canceled" THEN FreePlan ELSE stripe[row.sub].plan
         /\ row.status = "canceled" =>
              /\ stripe[row.sub].status = "canceled"
              /\ \A j \in 1..Len(wire) : wire[j].kind = "updated" => wire[j].sub # row.sub
              /\ last # NoEvent /\ last.kind = "updated" => last.sub # row.sub

\* Places of the invoices' events in a sequence of events.
Bill(e, s) == e.kind \in {"paid", "failed"} /\ e.sub = s
Billed(w, s) == {i \in 1..Len(w) : Bill(w[i], s)}
BillsInv == \A s \in StripeSubs : recorded[s] + Cardinality(Billed(wire, s)) >= invoices[s]

CardInv == CardTypes /\ WireInv /\ RowInv /\ BillsInv

\* What waits on the wire for a subscription is finitely much.
LEMMA BilledIsFinite ==
  ASSUME NEW w, NEW s, Len(w) \in Nat
  PROVE  IsFiniteSet(Billed(w, s)) /\ Cardinality(Billed(w, s)) \in Nat
  <1>1. IsFiniteSet(1..Len(w)) /\ Billed(w, s) \subseteq 1..Len(w)
    BY FS_Interval DEF Billed
  <1> QED
    BY <1>1, FS_Subset, FS_CardinalityType

\* One event more.
LEMMA BilledAppend ==
  ASSUME NEW w \in Seq(Card!StripeEvent), NEW e \in Card!StripeEvent, NEW s
  PROVE  Cardinality(Billed(Append(w, e), s)) = Cardinality(Billed(w, s)) + IF Bill(e, s) THEN 1 ELSE 0
  <1>1. /\ Len(Append(w, e)) = Len(w) + 1 /\ Len(w) \in Nat
        /\ \A i \in 1..Len(w) : Append(w, e)[i] = w[i]
        /\ Append(w, e)[Len(w) + 1] = e
    OBVIOUS
  <1>2. Billed(Append(w, e), s) = IF Bill(e, s) THEN Billed(w, s) \union {Len(w) + 1} ELSE Billed(w, s)
    BY <1>1 DEF Billed
  <1>3. IsFiniteSet(Billed(w, s)) /\ Cardinality(Billed(w, s)) \in Nat /\ Len(w) + 1 \notin Billed(w, s)
    <2>1. Len(w) + 1 \notin Billed(w, s)
      BY <1>1 DEF Billed
    <2> QED
      BY <1>1, <2>1, BilledIsFinite
  <1>4. Cardinality(Billed(w, s) \union {Len(w) + 1}) = Cardinality(Billed(w, s)) + 1
    BY <1>3, FS_AddElement
  <1> QED
    BY <1>2, <1>3, <1>4

\* One event fewer.
LEMMA BilledTail ==
  ASSUME NEW w \in Seq(Card!StripeEvent), w # <<>>, NEW s
  PROVE  Cardinality(Billed(w, s)) <= Cardinality(Billed(Tail(w), s)) + IF Bill(Head(w), s) THEN 1 ELSE 0
  <1> DEFINE rest == Billed(w, s) \ {1}
             f == [i \in rest |-> i - 1]
  <1>1. /\ Len(Tail(w)) = Len(w) - 1 /\ Len(w) \in Nat \ {0}
        /\ \A i \in 1..Len(Tail(w)) : Tail(w)[i] = w[i + 1]
        /\ Head(w) = w[1]
    OBVIOUS
  <1>2. IsFiniteSet(Billed(Tail(w), s)) /\ Cardinality(Billed(Tail(w), s)) \in Nat
        /\ IsFiniteSet(Billed(w, s)) /\ Cardinality(Billed(w, s)) \in Nat
    BY <1>1, BilledIsFinite
  <1>3. \A i \in rest : i \in 2..Len(w) /\ Bill(w[i], s)
    BY <1>1 DEF Billed
  <1>4. \A i \in rest : i - 1 \in Billed(Tail(w), s)
    <2> SUFFICES ASSUME NEW i \in rest PROVE i - 1 \in Billed(Tail(w), s)
      OBVIOUS
    <2>1. i - 1 \in 1..Len(Tail(w)) /\ Tail(w)[i - 1] = w[i]
      BY <1>1, <1>3
    <2> QED
      BY <1>3, <2>1 DEF Billed
  <1>5. f \in Injection(rest, Billed(Tail(w), s))
    BY <1>3, <1>4 DEF Injection, IsInjective
  <1>6. IsFiniteSet(rest) /\ Cardinality(rest) <= Cardinality(Billed(Tail(w), s))
    BY <1>2, <1>5, FS_Injection
  <1>7. /\ 1 \in Billed(w, s) => Cardinality(rest) = Cardinality(Billed(w, s)) - 1
        /\ 1 \notin Billed(w, s) => Cardinality(rest) = Cardinality(Billed(w, s))
    <2>1. 1 \in Billed(w, s) => Cardinality(rest) = Cardinality(Billed(w, s)) - 1
      BY <1>2, FS_RemoveElement
    <2>2. 1 \notin Billed(w, s) => rest = Billed(w, s)
      OBVIOUS
    <2> HIDE DEF rest
    <2> QED
      BY <2>1, <2>2
  <1>8. 1 \in Billed(w, s) => Bill(Head(w), s)
    BY <1>1 DEF Billed
  <1> HIDE DEF rest
  <1> QED
    BY <1>2, <1>6, <1>7, <1>8

\* Stripe posts an event of a subscription, after one of an invoice or not.
Posts(s, kind, now, bill) ==
  /\ stripe' = [stripe EXCEPT ![s] = now]
  /\ wire' = (IF bill = "none" THEN wire ELSE Append(wire, [kind |-> bill, sub |-> s, now |-> now]))
               \o <<[kind |-> kind, sub |-> s, now |-> now]>>

\* The row is as it was, but for the mark that it ends.
RowKept ==
  /\ last' = last /\ chosen' = chosen
  /\ \/ row' = row
     \/ /\ row # NoRow /\ row' # NoRow /\ row'.sub = row.sub /\ row'.plan = row.plan
        /\ row'.status = row.status

\* How the wire reads after a post.
LEMMA PostedWire ==
  ASSUME CardTypes, NEW s \in StripeSubs, NEW kind \in {"created", "updated", "deleted"},
         NEW now \in Card!Subscription, NEW bill \in {"none", "paid", "failed"},
         Posts(s, kind, now, bill)
  PROVE  /\ wire' \in Seq(Card!StripeEvent) /\ Len(wire') > Len(wire) /\ Len(wire) \in Nat /\ Len(wire') \in Nat
         /\ stripe' \in [StripeSubs -> Card!Subscription \union {Unborn}]
         /\ \A i \in 1..Len(wire) : wire'[i] = wire[i]
         /\ wire'[Len(wire')].kind = kind /\ wire'[Len(wire')].sub = s /\ wire'[Len(wire')].now = now
         /\ \A i \in (Len(wire) + 1)..(Len(wire') - 1) :
              wire'[i].kind = bill /\ wire'[i].sub = s /\ wire'[i].now = now /\ bill # "none"
         /\ \A r : Cardinality(Billed(wire', r)) = Cardinality(Billed(wire, r))
                                                   + IF bill # "none" /\ r = s THEN 1 ELSE 0
  <1> DEFINE e == [kind |-> kind, sub |-> s, now |-> now]
             b == [kind |-> bill, sub |-> s, now |-> now]
             mid == IF bill = "none" THEN wire ELSE Append(wire, b)
  <1>1. wire \in Seq(Card!StripeEvent) /\ e \in Card!StripeEvent /\ Len(wire) \in Nat
        /\ (bill # "none" => b \in Card!StripeEvent)
    BY DEF CardTypes, Card!StripeEvent
  <1>2. ~ (e.kind \in {"paid", "failed"}) /\ b.sub = s /\ (bill # "none" => b.kind \in {"paid", "failed"})
    OBVIOUS
  <1>3. mid \in Seq(Card!StripeEvent) /\ wire' = Append(mid, e)
    <2>1. mid \in Seq(Card!StripeEvent)
      BY <1>1
    <2>2. wire' = mid \o <<e>>
      BY DEF Posts
    <2> HIDE DEF mid, e
    <2> QED
      BY <1>1, <2>1, <2>2
  <1>4. ASSUME NEW r
        PROVE  Cardinality(Billed(wire', r)) = Cardinality(Billed(wire, r))
                                               + IF bill # "none" /\ r = s THEN 1 ELSE 0
    <2>1. Cardinality(Billed(wire', r)) = Cardinality(Billed(mid, r))
      <3>1. Cardinality(Billed(Append(mid, e), r)) = Cardinality(Billed(mid, r)) + IF Bill(e, r) THEN 1 ELSE 0
        BY <1>1, <1>3, BilledAppend
      <3>2. Cardinality(Billed(mid, r)) \in Nat /\ ~ Bill(e, r)
        BY <1>2, <1>3, BilledIsFinite DEF Bill
      <3> QED
        BY <1>3, <3>1, <3>2
    <2>2. CASE bill = "none"
      BY <1>1, <2>1, <2>2, BilledIsFinite
    <2>3. CASE bill # "none"
      <3>1. Cardinality(Billed(Append(wire, b), r)) = Cardinality(Billed(wire, r)) + IF Bill(b, r) THEN 1 ELSE 0
        BY <1>1, <2>3, BilledAppend
      <3>2. Bill(b, r) <=> r = s
        BY <1>2, <2>3 DEF Bill
      <3> QED
        BY <2>1, <2>3, <3>1, <3>2
    <2> QED
      BY <2>2, <2>3
  <1>5. stripe' \in [StripeSubs -> Card!Subscription \union {Unborn}]
    BY DEF Posts, CardTypes
  <1>6. /\ Len(mid) = Len(wire) + IF bill = "none" THEN 0 ELSE 1
        /\ \A i \in 1..Len(wire) : mid[i] = wire[i]
        /\ bill # "none" => mid[Len(wire) + 1] = b
    BY <1>1
  <1> HIDE DEF mid, e, b
  <1>7. /\ wire' \in Seq(Card!StripeEvent) /\ Len(wire') = Len(mid) + 1 /\ wire'[Len(wire')] = e
        /\ \A i \in 1..Len(mid) : wire'[i] = mid[i]
    BY <1>1, <1>3
  <1>8. \A i \in 1..Len(wire) : wire'[i] = wire[i]
    BY <1>1, <1>6, <1>7
  <1>9. \A i \in (Len(wire) + 1)..(Len(wire') - 1) : wire'[i] = b /\ bill # "none"
    BY <1>1, <1>6, <1>7
  <1>10. Len(wire') > Len(wire) /\ Len(wire') \in Nat
    BY <1>1, <1>6, <1>7
  <1> QED
    BY <1>1, <1>4, <1>5, <1>7, <1>8, <1>9, <1>10 DEF e, b

\* An event that Stripe sends says what Stripe has, and is the last word on it.
LEMMA PostStep ==
  ASSUME CardInv, NEW s \in StripeSubs, NEW kind \in {"created", "updated", "deleted"},
         NEW now \in Card!Subscription, NEW bill \in {"none", "paid", "failed"},
         Posts(s, kind, now, bill), RowKept,
         stripe[s] # Unborn => stripe[s].status # "canceled" /\ now.plan = stripe[s].plan,
         now.status = "canceled" <=> kind = "deleted",
         kind = "deleted" => bill = "none"
  PROVE  WireInv' /\ RowInv'
  <1> DEFINE n == Len(wire)
             m == Len(wire')
  <1>a. CardTypes /\ WireInv /\ RowInv
    BY DEF CardInv
  <1>b. /\ n \in Nat /\ m \in Nat /\ m > n /\ wire' \in Seq(Card!StripeEvent)
        /\ \A i \in 1..n : wire'[i] = wire[i]
        /\ wire'[m].kind = kind /\ wire'[m].sub = s /\ wire'[m].now = now
        /\ \A i \in (n + 1)..(m - 1) :
             wire'[i].kind = bill /\ wire'[i].sub = s /\ wire'[i].now = now /\ bill # "none"
    <2>1. n \in Nat /\ m \in Nat /\ m > n /\ wire' \in Seq(Card!StripeEvent)
      BY <1>a, PostedWire
    <2>2. \A i \in 1..n : wire'[i] = wire[i]
      BY <1>a, PostedWire
    <2>3. wire'[m].kind = kind /\ wire'[m].sub = s /\ wire'[m].now = now
      BY <1>a, PostedWire
    <2>4. \A i \in (n + 1)..(m - 1) :
             wire'[i].kind = bill /\ wire'[i].sub = s /\ wire'[i].now = now /\ bill # "none"
      BY <1>a, PostedWire
    <2> QED
      BY <2>1, <2>2, <2>3, <2>4
  <1>c. /\ \A i \in 1..n : wire[i] \in Card!StripeEvent /\ Sent(wire[i], stripe)
        /\ stripe' = [stripe EXCEPT ![s] = now] /\ stripe \in [StripeSubs -> Card!Subscription \union {Unborn}]
        /\ last' = last
    BY <1>a DEF CardTypes, RowKept, Posts, WireInv
  <1>0. now # Unborn /\ stripe'[s] = now /\ now.plan \in PaidPlans
    BY <1>c, StripeAssumption DEF StripeAssumption, Card!Subscription
  <1>1. wire'[m].sub = s /\ wire'[m].now = now /\ wire'[m].kind = kind
    BY <1>b
  <1>3. \A i \in (n + 1)..(m - 1) : wire'[i].kind \in {"paid", "failed"} /\ now.status # "canceled"
                                    /\ wire'[i].sub = s /\ wire'[i].now = now
    BY <1>b
  <1> HIDE DEF n, m
  <1>2. \A i \in (n + 1)..m : wire'[i].sub = s /\ wire'[i].now = now
    <2>1. \A i \in (n + 1)..m : i = m \/ i \in (n + 1)..(m - 1)
      BY <1>b
    <2> QED
      BY <1>1, <1>3, <2>1
  <1>d. \A i \in 1..m : wire'[i] \in Card!StripeEvent
    BY <1>b DEF m
  <1>i. 1..m = 1..n \union (n + 1)..m /\ 1..n \subseteq 1..m /\ m \in 1..m
        /\ \A i \in (n + 1)..m : i = m \/ i \in (n + 1)..(m - 1)
    BY <1>b
  <1>4. ASSUME NEW e, Sent(e, stripe)
        PROVE  Sent(e, stripe') /\ (e.sub # s => stripe'[e.sub] = stripe[e.sub]) /\ (e.kind = "deleted" => e.sub # s)
    <2>1. e.sub \in StripeSubs
      BY <1>4 DEF Sent, Card!StripeEvent
    <2>2. CASE e.sub = s
      BY <1>0, <1>4, <2>2 DEF Sent
    <2>3. CASE e.sub # s
      <3>1. stripe'[e.sub] = stripe[e.sub]
        BY <1>c, <2>1, <2>3
      <3> QED
        BY <1>4, <2>3, <3>1 DEF Sent
    <2> QED
      BY <2>2, <2>3
  <1>5. ToCome(s)'
    BY <1>1, <1>i DEF ToCome, Bears, m
  <1>6. \A r : ToCome(r) => ToCome(r)'
    BY <1>b, <1>i DEF ToCome, m, n
  <1>7. ASSUME NEW i \in 1..m PROVE Sent(wire'[i], stripe')
    <2>1. CASE i \in 1..n
      BY <1>b, <1>c, <1>4, <2>1
    <2>2. CASE i \in (n + 1)..m
      <3>1. wire'[i].sub = s /\ wire'[i].now = now /\ wire'[i] \in Card!StripeEvent
        BY <1>2, <1>d, <2>2
      <3>2. now.status = "canceled" <=> wire'[i].kind = "deleted"
        BY <1>1, <1>3, <1>i, <2>2
      <3> QED
        BY <1>0, <3>1, <3>2 DEF Sent
    <2> QED
      BY <1>i, <2>1, <2>2
  <1>8. ASSUME NEW i \in 1..m, NEW j \in (i + 1)..m, wire'[i].kind = "deleted"
        PROVE  wire'[j].sub # wire'[i].sub
    <2>1. i \in 1..n
      <3>1. i # m /\ i \notin (n + 1)..(m - 1)
        BY <1>3, <1>8, <1>b
      <3> QED
        BY <1>i, <3>1
    <2>2. CASE j \in 1..n
      BY <1>a, <1>b, <1>8, <2>1, <2>2 DEF WireInv, n
    <2>3. CASE j \in (n + 1)..m
      BY <1>2, <1>4, <1>b, <1>c, <1>8, <2>1, <2>3
    <2> QED
      BY <1>b, <2>1, <2>2, <2>3
  <1>9. ASSUME NEW i \in 1..m, Bears(wire'[i])
        PROVE  \/ wire'[i].now.status = stripe'[wire'[i].sub].status
               \/ \E j \in (i + 1)..m : Bears(wire'[j]) /\ wire'[j].sub = wire'[i].sub
    <2>1. CASE i \in (n + 1)..m
      <3>1. wire'[i].now.status = stripe'[wire'[i].sub].status
        BY <1>0, <1>2, <2>1
      <3> QED
        BY <3>1
    <2>2. CASE i \in 1..n /\ wire[i].sub = s
      <3>1. m \in (i + 1)..m /\ Bears(wire'[m]) /\ wire'[m].sub = wire'[i].sub
        BY <1>1, <1>b, <2>2 DEF Bears
      <3> QED
        BY <3>1
    <2>3. CASE i \in 1..n /\ wire[i].sub # s
      <3>1. stripe'[wire[i].sub] = stripe[wire[i].sub] /\ wire'[i] = wire[i]
        BY <1>4, <1>b, <1>c, <2>3
      <3>2. CASE wire[i].now.status = stripe[wire[i].sub].status
        BY <3>1, <3>2
      <3>3. ASSUME NEW j \in (i + 1)..n, Bears(wire[j]), wire[j].sub = wire[i].sub
            PROVE  \E k \in (i + 1)..m : Bears(wire'[k]) /\ wire'[k].sub = wire'[i].sub
        <4>1. j \in (i + 1)..m /\ wire'[j] = wire[j]
          BY <1>b, <2>3
        <4> QED
          BY <3>1, <3>3, <4>1
      <3> QED
        BY <1>a, <1>9, <2>3, <3>1, <3>2, <3>3 DEF WireInv, n
    <2> QED
      BY <1>i, <2>1, <2>2, <2>3
  <1>10. ASSUME last # NoEvent
         PROVE  /\ Sent(last, stripe')
                /\ Bears(last) => last.now.status = stripe'[last.sub].status \/ ToCome(last.sub)'
                /\ last.kind = "deleted" => \A j \in 1..m : wire'[j].sub # last.sub
    <2>1. Sent(last, stripe) /\ (Bears(last) => last.now.status = stripe[last.sub].status \/ ToCome(last.sub))
          /\ (last.kind = "deleted" => \A j \in 1..n : wire[j].sub # last.sub)
      BY <1>a, <1>10 DEF WireInv, n
    <2>2. Sent(last, stripe') /\ (last.sub # s => stripe'[last.sub] = stripe[last.sub]) /\ (last.kind = "deleted" => last.sub # s)
      BY <1>c, <1>4, <2>1
    <2>3. Bears(last) => last.now.status = stripe'[last.sub].status \/ ToCome(last.sub)'
      BY <1>5, <1>6, <1>c, <2>1, <2>2
    <2>4. last.kind = "deleted" => \A j \in 1..m : wire'[j].sub # last.sub
      BY <1>2, <1>b, <1>i, <2>1, <2>2
    <2> QED
      BY <2>2, <2>3, <2>4
  <1>11. WireInv'
    BY <1>c, <1>7, <1>8, <1>9, <1>10 DEF WireInv, m
  <1>12. RowInv'
    <2> SUFFICES ASSUME row # NoRow, row.sub # NoSub PROVE RowInv'
      BY DEF RowInv, RowKept
    <2>1. /\ row'.sub = row.sub /\ row'.plan = row.plan /\ row'.status = row.status /\ chosen' = chosen
          /\ row.sub \in StripeSubs /\ stripe[row.sub] # Unborn
      BY <1>a DEF RowKept, RowInv, CardTypes, Card!Row
    <2>2. CASE row.sub = s
      BY <1>0, <1>5, <1>a, <2>1, <2>2 DEF RowInv
    <2>3. CASE row.sub # s
      <3>1. stripe'[row.sub] = stripe[row.sub]
        BY <1>c, <2>1, <2>3
      <3>2. ASSUME \A j \in 1..n : wire[j].kind = "updated" => wire[j].sub # row.sub, NEW j \in 1..m,
                   wire'[j].kind = "updated"
            PROVE  wire'[j].sub # row.sub
        BY <1>2, <1>b, <1>i, <2>3, <3>2
      <3> QED
        BY <1>6, <1>a, <1>c, <2>1, <3>1, <3>2 DEF RowInv, n, m
    <2> QED
      BY <2>2, <2>3
  <1> QED
    BY <1>11, <1>12

\* What an event that arrives, or arrives again, does to the row.
LEMMA HandleStep ==
  ASSUME CardTypes, RowInv, NEW e, Sent(e, stripe), Card!Handle(e),
         e = last \/ \E i \in 1..Len(wire) : e = wire[i],
         last' = e \/ last' = NoEvent,
         \A j \in 1..Len(wire') : \E i \in 1..Len(wire) : wire'[j] = wire[i],
         \A r : ToCome(r) => ToCome(r)' \/ (Bears(e) /\ e.sub = r),
         Bears(e) => e.now.status = stripe[e.sub].status \/ ToCome(e.sub)',
         e.kind = "deleted" => \A j \in 1..Len(wire') : wire'[j].sub # e.sub
  PROVE  RowInv' /\ row' \in Card!Row \union {NoRow} /\ chosen' \in BOOLEAN
  <1>0. /\ stripe' = stripe /\ stripe \in [StripeSubs -> Card!Subscription \union {Unborn}]
        /\ row \in Card!Row \union {NoRow} /\ chosen \in BOOLEAN
        /\ e \in Card!StripeEvent /\ e # NoEvent /\ NoRow \notin Card!Row
        /\ e.sub \in StripeSubs /\ e.now.status \in Card!Statuses /\ e.now.ending \in BOOLEAN
        /\ e.now.plan \in PaidPlans /\ e.sub # NoSub
    BY StripeAssumption DEF CardTypes, Card!Handle, StripeAssumption, Sent, Card!StripeEvent, Card!Subscription
  <1>1. CASE e.kind = "created"
    <2>1. row' = [sub |-> e.sub, plan |-> e.now.plan, status |-> e.now.status,
                  ending |-> row # NoRow /\ row.ending]
      BY <1>1 DEF Card!Handle, Card!Created
    <2>2. (row # NoRow /\ row.ending) \in BOOLEAN
      BY <1>0 DEF Card!Row
    <2>3. row' \in Card!Row
      BY <1>0, <2>1, <2>2 DEF Card!Row
    <2>4. chosen' = FALSE
      BY <1>1 DEF Card!Handle
    <2>5. row'.sub = e.sub /\ row'.plan = e.now.plan /\ row'.status = e.now.status /\ e.now.status # "canceled"
      BY <1>1, <2>1 DEF Sent
    <2>6. stripe[e.sub] # Unborn /\ e.now.plan = stripe[e.sub].plan
          /\ (e.now.status = stripe[e.sub].status \/ ToCome(e.sub)')
      BY <1>1 DEF Sent, Bears
    <2>7. RowInv'
      BY <1>0, <2>5, <2>6 DEF RowInv
    <2> QED
      BY <2>3, <2>4, <2>7
  <1>2. CASE row' = row /\ e.kind # "created" /\ (~ Bears(e) \/ row = NoRow \/ row.sub # e.sub)
    <2>1. chosen' = chosen
      BY <1>0, <1>2 DEF Card!Handle
    <2>2. RowInv'
      <3> SUFFICES ASSUME row # NoRow, row.sub # NoSub PROVE RowInv'
        BY <1>2 DEF RowInv
      <3>1. ToCome(row.sub) => ToCome(row.sub)'
        BY <1>2
      <3>2. ASSUME \A i \in 1..Len(wire) : wire[i].kind = "updated" => wire[i].sub # row.sub,
                   NEW j \in 1..Len(wire'), wire'[j].kind = "updated"
            PROVE  wire'[j].sub # row.sub
        BY <3>2
      <3>3. last' # NoEvent /\ last'.kind = "updated" => last'.sub # row.sub
        BY <1>0, <1>2 DEF Bears
      <3> QED
        BY <1>0, <1>2, <2>1, <3>1, <3>2, <3>3 DEF RowInv
    <2> QED
      BY <1>0, <1>2, <2>1, <2>2
  <1>3. CASE e.kind = "updated" /\ row # NoRow /\ row.sub = e.sub
    <2>1. row' = [row EXCEPT !.status = e.now.status, !.ending = e.now.ending]
      BY <1>3 DEF Card!Handle, Card!Updated
    <2>2. row' \in Card!Row /\ row'.sub = e.sub /\ row'.plan = row.plan /\ row'.status = e.now.status
      BY <1>0, <1>3, <2>1 DEF Card!Row
    <2>3. chosen' = chosen
      BY <1>0, <1>3 DEF Card!Handle
    <2>4. ~ chosen => row.status # "canceled" /\ row.plan = stripe[e.sub].plan
      BY <1>0, <1>3 DEF RowInv
    <2>5. e.now.status # "canceled" /\ (e.now.status = stripe[e.sub].status \/ ToCome(e.sub)')
          /\ stripe[e.sub] # Unborn
      BY <1>3 DEF Sent, Bears
    <2>6. RowInv'
      BY <1>0, <2>2, <2>3, <2>4, <2>5 DEF RowInv
    <2> QED
      BY <1>0, <2>2, <2>3, <2>6
  <1>4. CASE e.kind = "deleted" /\ row # NoRow /\ row.sub = e.sub
    <2>1. row' = [row EXCEPT !.plan = FreePlan, !.status = "canceled"]
      BY <1>4 DEF Card!Handle, Card!Deleted
    <2>2. row' \in Card!Row /\ row'.sub = e.sub /\ row'.plan = FreePlan /\ row'.status = "canceled"
      BY <1>0, <1>4, <2>1 DEF Card!Row, Card!Statuses
    <2>3. chosen' = chosen
      BY <1>0, <1>4 DEF Card!Handle
    <2>4. stripe[e.sub] # Unborn /\ stripe[e.sub].status = "canceled"
      BY <1>4 DEF Sent
    <2>5. last' # NoEvent => last'.kind # "updated"
      BY <1>4
    <2>6. RowInv'
      BY <1>0, <1>4, <2>2, <2>4, <2>5 DEF RowInv
    <2> QED
      BY <1>0, <2>2, <2>3, <2>6
  <1>5. e.kind \in {"created", "updated", "deleted", "paid", "failed"}
    BY <1>0 DEF Card!StripeEvent
  <1>6. e.kind \in {"paid", "failed"} => row' = row
    BY DEF Card!Handle
  <1>7. e.kind \in {"updated", "deleted"} /\ (row = NoRow \/ row.sub # e.sub) => row' = row
    BY DEF Card!Handle, Card!Updated, Card!Deleted
  <1> QED
    BY <1>1, <1>2, <1>3, <1>4, <1>5, <1>6, <1>7 DEF Bears

\* Handling an event that arrives keeps the row, unless a later event is to come.
LEMMA ArriveStep ==
  ASSUME CardInv, Card!Arrive
  PROVE  CardInv'
  <1> DEFINE n == Len(wire)
  <1>e. PICK e : e = wire[1]
    OBVIOUS
  <1>0. /\ CardTypes /\ WireInv /\ RowInv
        /\ wire \in Seq(Card!StripeEvent) /\ wire # <<>> /\ wire' = Tail(wire) /\ last' = Head(wire)
        /\ Card!Handle(Head(wire)) /\ stripe' = stripe
    BY DEF CardInv, CardTypes, Card!Arrive, Card!Handle
  <1>1. /\ n \in Nat \ {0} /\ Len(wire') = n - 1 /\ wire' \in Seq(Card!StripeEvent) /\ last' = e
        /\ Head(wire) = e
        /\ \A j \in 1..(n - 1) : wire'[j] = wire[j + 1]
    BY <1>0, <1>e
  <1> HIDE DEF n
  <1>2. 1 \in 1..n /\ Sent(e, stripe) /\ Card!Handle(e) /\ e \in Card!StripeEvent
    BY <1>0, <1>1, <1>e DEF WireInv, n, Sent
  <1>3. \A j \in 1..(n - 1) : j + 1 \in 2..n /\ wire'[j] = wire[j + 1]
    BY <1>1
  <1>4. \A j \in 2..n : j - 1 \in 1..(n - 1) /\ wire'[j - 1] = wire[j]
    BY <1>1
  <1>5. e.kind = "deleted" => \A j \in 1..(n - 1) : wire'[j].sub # e.sub
    <2>1. e.kind = "deleted" => \A j \in 2..n : wire[j].sub # e.sub
      BY <1>0, <1>2, <1>e DEF WireInv, n
    <2> QED
      BY <1>3, <2>1
  <1>6. Bears(e) => e.now.status = stripe[e.sub].status \/ ToCome(e.sub)'
    <2>1. Bears(e) => \/ e.now.status = stripe[e.sub].status
                      \/ \E j \in 2..n : Bears(wire[j]) /\ wire[j].sub = e.sub
      BY <1>0, <1>2, <1>e DEF WireInv, n
    <2> QED
      BY <1>1, <1>4, <2>1 DEF ToCome
  <1>7. \A r : ToCome(r) => ToCome(r)' \/ (Bears(e) /\ e.sub = r)
    <2> SUFFICES ASSUME NEW r, NEW j \in 1..n, Bears(wire[j]), wire[j].sub = r
                 PROVE  ToCome(r)' \/ (Bears(e) /\ e.sub = r)
      BY DEF ToCome, n
    <2>1. CASE j = 1
      BY <1>e, <2>1
    <2>2. CASE j # 1
      <3>1. j \in 2..n
        BY <1>1, <2>2
      <3> QED
        BY <1>1, <1>4, <3>1 DEF ToCome
    <2> QED
      BY <2>1, <2>2
  <1>8. \A j \in 1..Len(wire') : \E i \in 1..Len(wire) : wire'[j] = wire[i]
    BY <1>1, <1>3 DEF n
  <1>9. RowInv' /\ row' \in Card!Row \union {NoRow} /\ chosen' \in BOOLEAN
    <2>1. \E i \in 1..Len(wire) : e = wire[i]
      BY <1>2, <1>e DEF n
    <2> QED
      BY <1>0, <1>1, <1>2, <1>5, <1>6, <1>7, <1>8, <2>1, HandleStep
  <1>10. WireInv'
    <2>1. ASSUME NEW i \in 1..(n - 1) PROVE Sent(wire'[i], stripe)
      BY <1>0, <1>1, <1>3 DEF WireInv, n
    <2>2. ASSUME NEW i \in 1..(n - 1), NEW j \in (i + 1)..(n - 1), wire'[i].kind = "deleted"
          PROVE  wire'[j].sub # wire'[i].sub
      <3>1. i + 1 \in 1..n /\ j + 1 \in (i + 1 + 1)..n /\ wire'[i] = wire[i + 1] /\ wire'[j] = wire[j + 1]
        BY <1>1
      <3> QED
        BY <1>0, <2>2, <3>1 DEF WireInv, n
    <2>3. ASSUME NEW i \in 1..(n - 1), Bears(wire'[i])
          PROVE  \/ wire'[i].now.status = stripe[wire'[i].sub].status
                 \/ \E j \in (i + 1)..(n - 1) : Bears(wire'[j]) /\ wire'[j].sub = wire'[i].sub
      <3>1. i + 1 \in 1..n /\ wire'[i] = wire[i + 1]
        BY <1>1
      <3>2. ASSUME NEW j \in (i + 1 + 1)..n, Bears(wire[j]), wire[j].sub = wire[i + 1].sub
            PROVE  \E k \in (i + 1)..(n - 1) : Bears(wire'[k]) /\ wire'[k].sub = wire'[i].sub
        <4>1. j - 1 \in (i + 1)..(n - 1) /\ wire'[j - 1] = wire[j]
          BY <1>1, <3>2
        <4> QED
          BY <3>1, <3>2, <4>1
      <3> QED
        BY <1>0, <2>3, <3>1, <3>2 DEF WireInv, n
    <2>4. last' = e /\ stripe' = stripe /\ Len(wire') = n - 1
      BY <1>0, <1>1
    <2> QED
      BY <1>2, <1>5, <1>6, <2>1, <2>2, <2>3, <2>4 DEF WireInv
  <1>11. recorded' = IF e.kind \in {"paid", "failed"} THEN [recorded EXCEPT ![e.sub] = @ + 1] ELSE recorded
    BY <1>2 DEF Card!Handle
  <1>12. recorded \in [StripeSubs -> Nat] /\ e.sub \in StripeSubs /\ invoices' = invoices
    BY <1>0, <1>2 DEF CardTypes, Card!StripeEvent, Card!Handle
  <1>13. CardTypes'
    BY <1>0, <1>1, <1>2, <1>9, <1>11, <1>12 DEF CardTypes
  <1>14. ASSUME NEW s \in StripeSubs PROVE recorded'[s] + Cardinality(Billed(wire', s)) >= invoices[s]
    <2>1. Cardinality(Billed(wire, s)) <= Cardinality(Billed(wire', s)) + IF Bill(e, s) THEN 1 ELSE 0
      BY <1>0, <1>1, BilledTail
    <2>2. Cardinality(Billed(wire, s)) \in Nat /\ Cardinality(Billed(wire', s)) \in Nat
      BY <1>1, BilledIsFinite DEF n
    <2>3. recorded'[s] = recorded[s] + IF Bill(e, s) THEN 1 ELSE 0
      BY <1>11, <1>12 DEF Bill
    <2>4. recorded[s] + Cardinality(Billed(wire, s)) >= invoices[s] /\ recorded[s] \in Nat /\ invoices[s] \in Nat
      BY <1>0 DEF CardInv, BillsInv, CardTypes
    <2> QED
      BY <2>1, <2>2, <2>3, <2>4
  <1> QED
    BY <1>9, <1>10, <1>12, <1>13, <1>14 DEF CardInv, BillsInv

\* So does handling the last one a second time.
LEMMA ArriveAgainStep ==
  ASSUME CardInv, Card!ArriveAgain
  PROVE  CardInv'
  <1>0. /\ CardTypes /\ WireInv /\ RowInv /\ last # NoEvent /\ Card!Handle(last)
        /\ wire' = wire /\ last' = NoEvent /\ stripe' = stripe /\ invoices' = invoices
    BY DEF CardInv, Card!ArriveAgain, Card!Handle
  <1>1. /\ Sent(last, stripe) /\ last.sub \in StripeSubs
        /\ Bears(last) => last.now.status = stripe[last.sub].status \/ ToCome(last.sub)
        /\ last.kind = "deleted" => \A j \in 1..Len(wire) : wire[j].sub # last.sub
    BY <1>0 DEF WireInv, Sent, Card!StripeEvent
  <1>2. \A r : ToCome(r)' <=> ToCome(r)
    BY <1>0 DEF ToCome
  <1>3. RowInv' /\ row' \in Card!Row \union {NoRow} /\ chosen' \in BOOLEAN
    BY <1>0, <1>1, <1>2, HandleStep
  <1>4. WireInv'
    BY <1>0 DEF WireInv
  <1>5. recorded' = IF last.kind \in {"paid", "failed"} THEN [recorded EXCEPT ![last.sub] = @ + 1] ELSE recorded
    BY <1>0 DEF Card!Handle
  <1>6. CardTypes'
    BY <1>0, <1>1, <1>3, <1>5 DEF CardTypes
  <1>7. ASSUME NEW s \in StripeSubs PROVE recorded'[s] + Cardinality(Billed(wire, s)) >= invoices[s]
    <2>1. recorded[s] \in Nat /\ recorded'[s] \in {recorded[s], recorded[s] + 1}
      BY <1>0, <1>1, <1>5 DEF CardTypes
    <2>2. recorded[s] + Cardinality(Billed(wire, s)) >= invoices[s] /\ invoices[s] \in Nat
      BY <1>0 DEF CardInv, BillsInv, CardTypes
    <2>3. Cardinality(Billed(wire, s)) \in Nat
      BY <1>0, BilledIsFinite DEF CardTypes
    <2> QED
      BY <2>1, <2>2, <2>3
  <1> QED
    BY <1>0, <1>3, <1>4, <1>6, <1>7 DEF CardInv, BillsInv

\* Stripe's moves, and a cancellation, post an event; the invoices keep up.
LEMMA PostedInv ==
  ASSUME CardInv, NEW s \in StripeSubs, NEW kind \in {"created", "updated", "deleted"},
         NEW now \in Card!Subscription, NEW bill \in {"none", "paid", "failed"},
         Posts(s, kind, now, bill), RowKept, row' \in Card!Row \union {NoRow}, recorded' = recorded,
         stripe[s] # Unborn => stripe[s].status # "canceled" /\ now.plan = stripe[s].plan,
         now.status = "canceled" <=> kind = "deleted",
         kind = "deleted" => bill = "none",
         invoices' = IF bill = "none" THEN invoices ELSE [invoices EXCEPT ![s] = @ + 1]
  PROVE  CardInv'
  <1>0. CardTypes /\ BillsInv
    BY DEF CardInv
  <1>1. WireInv' /\ RowInv'
    BY PostStep
  <1>2. wire' \in Seq(Card!StripeEvent) /\ stripe' \in [StripeSubs -> Card!Subscription \union {Unborn}]
    BY <1>0, PostedWire
  <1>3. CardTypes'
    BY <1>0, <1>2 DEF CardTypes, RowKept
  <1>4. ASSUME NEW r \in StripeSubs PROVE recorded[r] + Cardinality(Billed(wire', r)) >= invoices'[r]
    <2>1. Cardinality(Billed(wire', r)) = Cardinality(Billed(wire, r)) + IF bill # "none" /\ r = s THEN 1 ELSE 0
      BY <1>0, PostedWire
    <2>2. invoices'[r] = invoices[r] + IF bill # "none" /\ r = s THEN 1 ELSE 0
      BY <1>0 DEF CardTypes
    <2>3. recorded[r] + Cardinality(Billed(wire, r)) >= invoices[r] /\ recorded[r] \in Nat /\ invoices[r] \in Nat
      BY <1>0 DEF BillsInv, CardTypes
    <2>4. Cardinality(Billed(wire, r)) \in Nat
      BY <1>0, BilledIsFinite DEF CardTypes
    <2> QED
      BY <2>1, <2>2, <2>3, <2>4
  <1> QED
    BY <1>1, <1>3, <1>4 DEF CardInv, BillsInv

\* What Stripe makes of a subscription.
LEMMA Became ==
  ASSUME CardTypes, NEW s \in StripeSubs, stripe[s] # Unborn, NEW status \in Card!Statuses
  PROVE  \E now \in Card!Subscription :
           /\ [stripe EXCEPT ![s].status = status] = [stripe EXCEPT ![s] = now]
           /\ now.status = status /\ now.plan = stripe[s].plan
  <1> DEFINE now == [stripe[s] EXCEPT !.status = status]
  <1>1. stripe[s] \in Card!Subscription
    BY DEF CardTypes
  <1>2. now \in Card!Subscription /\ now.status = status /\ now.plan = stripe[s].plan
    BY <1>1 DEF Card!Subscription
  <1> QED
    BY <1>2

\* What Stripe does by itself is on the wire until the row knows it.
LEMMA StripeMoves ==
  ASSUME CardInv, NEW s \in StripeSubs,
         Card!Collect(s) \/ Card!CollectFails(s) \/ Card!Abandon(s) \/ Card!End(s)
  PROVE  CardInv'
  <1>0. CardTypes /\ stripe[s] # Unborn /\ stripe[s].status # "canceled" /\ RowKept /\ recorded' = recorded
        /\ row' \in Card!Row \union {NoRow} /\ stripe \in [StripeSubs -> Card!Subscription \union {Unborn}]
    BY DEF CardInv, CardTypes, RowKept, Card!Collect, Card!CollectFails, Card!Abandon, Card!End, Card!Ongoing
  <1>1. ASSUME NEW kind \in {"updated", "deleted"}, NEW bill \in {"none", "paid", "failed"},
               NEW status \in Card!Statuses, Card!Become(s, status),
               wire' = (IF bill = "none" THEN wire ELSE Append(wire, Card!Event(bill, s))) \o <<Card!Event(kind, s)>>,
               status = "canceled" <=> kind = "deleted",
               kind = "deleted" => bill = "none",
               invoices' = IF bill = "none" THEN invoices ELSE [invoices EXCEPT ![s] = @ + 1]
        PROVE  CardInv'
    <2>1. PICK now \in Card!Subscription :
            /\ stripe' = [stripe EXCEPT ![s] = now]
            /\ now.status = status /\ now.plan = stripe[s].plan
      BY <1>0, <1>1, Became DEF Card!Become
    <2>2. stripe'[s] = now
      BY <1>0, <2>1
    <2>3. Posts(s, kind, now, bill)
      BY <1>1, <2>1, <2>2 DEF Posts, Card!Event
    <2> QED
      BY <1>0, <1>1, <2>1, <2>3, PostedInv
  <1>2. ASSUME NEW kind \in {"paid", "failed"}
        PROVE  wire \o <<Card!Event(kind, s), Card!Event("updated", s)>>
                 = Append(wire, Card!Event(kind, s)) \o <<Card!Event("updated", s)>>
    <2> DEFINE a == Card!Event(kind, s)
               b == Card!Event("updated", s)
    <2>1. wire \in Seq(Card!StripeEvent)
      BY <1>0 DEF CardTypes
    <2> HIDE DEF a, b
    <2>2. wire \o <<a, b>> = Append(wire, a) \o <<b>>
      BY <2>1
    <2> QED
      BY <2>2 DEF a, b
  <1>3. CASE Card!Collect(s)
    BY <1>0, <1>1, <1>2, <1>3 DEF Card!Collect, Card!Sends, Card!Invoices, Card!Statuses
  <1>4. CASE Card!CollectFails(s)
    BY <1>0, <1>1, <1>2, <1>4 DEF Card!CollectFails, Card!Sends, Card!Invoices, Card!Statuses
  <1>5. CASE Card!Abandon(s)
    BY <1>0, <1>1, <1>5 DEF Card!Abandon, Card!Sends, Card!Statuses
  <1>6. CASE Card!End(s)
    BY <1>0, <1>1, <1>6 DEF Card!End, Card!Sends, Card!Statuses
  <1> QED
    BY <1>3, <1>4, <1>5, <1>6

\* Checkout, cancelling and the free plan keep row and wire in step.
LEMMA UserMoves ==
  ASSUME CardInv,
         \/ \E s \in StripeSubs, p \in PaidPlans : Card!Checkout(s, p)
         \/ \E reached \in BOOLEAN : Card!Cancel(reached)
         \/ Card!CheckoutFree
  PROVE  CardInv'
  <1>0. /\ CardTypes /\ WireInv /\ RowInv /\ BillsInv /\ stripe \in [StripeSubs -> Card!Subscription \union {Unborn}]
        /\ row \in Card!Row \union {NoRow} /\ NoRow \notin Card!Row
    BY StripeAssumption DEF CardInv, CardTypes, StripeAssumption
  <1>1. ASSUME NEW s \in StripeSubs, NEW p \in PaidPlans, Card!Checkout(s, p) PROVE CardInv'
    <2> DEFINE now == [plan |-> p, status |-> "incomplete", ending |-> FALSE]
    <2>1. now \in Card!Subscription /\ now.status = "incomplete"
      BY DEF Card!Subscription, Card!Statuses
    <2>2. /\ stripe[s] = Unborn /\ stripe' = [stripe EXCEPT ![s] = now]
          /\ wire' = wire \o <<Card!Event("created", s)>>
          /\ RowKept /\ row' = row /\ recorded' = recorded /\ invoices' = invoices
      BY <1>1 DEF Card!Checkout, Card!CreatePaymentIntent, Card!Sends, RowKept
    <2> HIDE DEF now
    <2>3. stripe'[s] = now
      BY <1>0, <2>2
    <2>4. Posts(s, "created", now, "none")
      BY <2>2, <2>3 DEF Posts, Card!Event
    <2> QED
      BY <1>0, <2>1, <2>2, <2>4, PostedInv
  <1>2. ASSUME row # NoRow, row' = [row EXCEPT !.ending = TRUE]
        PROVE  /\ row' \in Card!Row /\ row' # NoRow /\ row'.sub = row.sub /\ row'.plan = row.plan
               /\ row'.status = row.status
    <2>1. row \in Card!Row
      BY <1>0, <1>2
    <2>2. row' \in Card!Row /\ row'.sub = row.sub /\ row'.plan = row.plan /\ row'.status = row.status
      BY <1>2, <2>1 DEF Card!Row
    <2> QED
      BY <1>0, <2>2
  <1>3. CASE Card!Cancel(TRUE)
    <2> DEFINE s == row.sub
               now == [stripe[s] EXCEPT !.ending = TRUE]
    <2>1. /\ row # NoRow /\ row' = [row EXCEPT !.ending = TRUE] /\ s \in StripeSubs
          /\ stripe[s] # Unborn /\ stripe[s].status \in {"active", "past_due"}
          /\ stripe' = [stripe EXCEPT ![s].ending = TRUE]
          /\ wire' = wire \o <<Card!Event("updated", s)>>
          /\ last' = last /\ chosen' = chosen /\ recorded' = recorded /\ invoices' = invoices
      BY <1>3 DEF Card!Cancel, Card!CancelAtStripe, Card!Sends, Card!Ongoing
    <2>2. stripe[s] \in Card!Subscription
      BY <1>0, <2>1
    <2>3. now \in Card!Subscription /\ now.status = stripe[s].status /\ now.plan = stripe[s].plan
      BY <2>2 DEF Card!Subscription
    <2>4. stripe' = [stripe EXCEPT ![s] = now]
      BY <1>0, <2>1
    <2>5. RowKept /\ row' \in Card!Row \union {NoRow}
      BY <1>2, <2>1 DEF RowKept
    <2> HIDE DEF now
    <2>6. stripe'[s] = now
      BY <1>0, <2>1, <2>4
    <2>7. Posts(s, "updated", now, "none")
      BY <2>1, <2>4, <2>6 DEF Posts, Card!Event
    <2> HIDE DEF s
    <2> QED
      BY <2>1, <2>3, <2>5, <2>7, PostedInv
  <1>4. CASE Card!Cancel(FALSE) \/ Card!CheckoutFree
    <2>1. UNCHANGED <<stripe, wire, last, invoices, recorded>>
      BY <1>4 DEF Card!Cancel, Card!CheckoutFree
    <2>2. \A r : ToCome(r)' <=> ToCome(r)
      BY <2>1 DEF ToCome
    <2>3. RowInv' /\ row' \in Card!Row \union {NoRow} /\ chosen' \in BOOLEAN
      <3>1. CASE Card!Cancel(FALSE)
        <4>1. row # NoRow /\ row' = [row EXCEPT !.ending = TRUE] /\ chosen' = chosen
          BY <3>1 DEF Card!Cancel
        <4>2. row' \in Card!Row /\ row' # NoRow /\ row'.sub = row.sub /\ row'.plan = row.plan
              /\ row'.status = row.status
          BY <1>2, <4>1
        <4>3. chosen' \in BOOLEAN
          BY <1>0, <4>1 DEF CardTypes
        <4> QED
          BY <1>0, <2>1, <2>2, <4>1, <4>2, <4>3 DEF RowInv
      <3>2. CASE Card!CheckoutFree
        <4>1. /\ row' = [sub |-> IF row = NoRow THEN NoSub ELSE row.sub,
                         plan |-> FreePlan, status |-> "active", ending |-> FALSE]
              /\ chosen' = TRUE
          BY <3>2 DEF Card!CheckoutFree
        <4>2. (IF row = NoRow THEN NoSub ELSE row.sub) \in StripeSubs \union {NoSub}
          BY <1>0 DEF Card!Row
        <4>3. row' \in Card!Row
          BY <4>1, <4>2 DEF Card!Row, Card!Statuses
        <4>4. row'.sub = IF row = NoRow THEN NoSub ELSE row.sub
          BY <4>1
        <4> QED
          BY <1>0, <2>1, <4>1, <4>3, <4>4 DEF RowInv
      <3> QED
        BY <1>4, <3>1, <3>2
    <2>4. CardTypes'
      BY <1>0, <2>1, <2>3 DEF CardTypes
    <2>5. WireInv'
      BY <1>0, <2>1, <2>2 DEF WireInv
    <2>6. BillsInv'
      BY <1>0, <2>1 DEF BillsInv
    <2> QED
      BY <2>3, <2>4, <2>5, <2>6 DEF CardInv
  <1> QED
    BY <1>1, <1>3, <1>4

\* Once the events that Stripe sent have arrived, some of them twice, the row
\* says of its subscription what Stripe says, whatever became of the ones before
\* it, unless the user took the free plan since; and each invoice has a row
\* (handle_webhook).
THEOREM RowFollowsStripeHolds == ServicesSpec => []RowFollowsStripe
  <1>1. ServicesInit => CardInv
    <2> SUFFICES ASSUME ServicesInit PROVE CardInv
      OBVIOUS
    <2>1. Card!StripeInit /\ wire = <<>> /\ last = NoEvent
      BY DEF ServicesInit, Card!StripeInit
    <2>2. row \in Card!Row \union {NoRow} /\ (row # NoRow => row.sub = NoSub)
      <3>1. CASE row = NoRow
        BY <3>1
      <3>2. CASE row = [sub |-> NoSub, plan |-> FreePlan, status |-> "active", ending |-> FALSE]
        BY <3>2 DEF Card!Row, Card!Statuses
      <3> QED
        BY <2>1, <3>1, <3>2 DEF Card!StripeInit
    <2>3. CardTypes
      <3>1. stripe = [s \in StripeSubs |-> Unborn] /\ chosen = FALSE
            /\ invoices = [s \in StripeSubs |-> 0] /\ recorded = [s \in StripeSubs |-> 0]
        BY <2>1 DEF Card!StripeInit
      <3>2. wire \in Seq(Card!StripeEvent)
        BY <2>1
      <3> QED
        BY <2>1, <2>2, <3>1, <3>2 DEF CardTypes
    <2>4. WireInv /\ RowInv
      BY <2>1, <2>2 DEF WireInv, RowInv
    <2>5. BillsInv
      <3> SUFFICES ASSUME NEW s \in StripeSubs PROVE recorded[s] + Cardinality(Billed(wire, s)) >= invoices[s]
        BY DEF BillsInv
      <3>1. Cardinality(Billed(wire, s)) \in Nat
        BY <2>3, BilledIsFinite DEF CardTypes
      <3> QED
        BY <2>1, <3>1 DEF Card!StripeInit
    <2> QED
      BY <2>3, <2>4, <2>5 DEF CardInv
  <1>2. habit \in Habits /\ CardInv /\ [ServicesNext]_allVars => CardInv'
    <2> SUFFICES ASSUME habit \in Habits, CardInv, [ServicesNext]_allVars PROVE CardInv'
      OBVIOUS
    <2>1. CASE UNCHANGED stripeVars
      <3>1. \A r : ToCome(r)' <=> ToCome(r)
        BY <2>1 DEF ToCome, stripeVars
      <3>2. CardTypes' /\ BillsInv'
        BY <2>1 DEF CardInv, CardTypes, BillsInv, stripeVars
      <3>3. WireInv'
        BY <2>1, <3>1 DEF CardInv, WireInv, stripeVars
      <3>4. RowInv'
        BY <2>1, <3>1 DEF CardInv, RowInv, stripeVars
      <3> QED
        BY <3>2, <3>3, <3>4 DEF CardInv
    <2>2. CASE Card!StripeNext
      BY <2>2, UserMoves, StripeMoves, ArriveStep, ArriveAgainStep DEF Card!StripeNext
    <2>3. UNCHANGED stripeVars \/ Card!StripeNext
      BY OneService
    <2> QED
      BY ONLY <2>1, <2>2, <2>3
  <1>3. CardInv => RowFollowsStripe
    <2> SUFFICES ASSUME CardInv, wire = <<>> PROVE Card!RowFollowsStripe
      BY DEF RowFollowsStripe, Card!RowFollowsStripe
    <2>1. \A r : ~ ToCome(r)
      BY DEF ToCome
    <2>2. ASSUME NEW s \in StripeSubs PROVE recorded[s] >= invoices[s]
      <3>1. Billed(wire, s) = {} /\ Cardinality(Billed(wire, s)) = 0
        BY FS_EmptySet DEF Billed
      <3> QED
        BY <3>1 DEF CardInv, BillsInv, CardTypes
    <2> QED
      BY <2>1, <2>2 DEF CardInv, RowInv, Card!RowFollowsStripe
  <1> QED
    BY <1>1, <1>2, <1>3, HabitKept, PTL DEF ServicesSpec, allVars

-----------------------------------------------------------------------------
(* Where an expense is filed.                                               *)

\* Of finitely many, one has the greatest number.
LEMMA MaxExists ==
  ASSUME NEW S, IsFiniteSet(S), S # {}, NEW f, \A x \in S : f[x] \in Nat
  PROVE  \E r \in S : \A x \in S : f[x] <= f[r]
  <1> DEFINE Top(U) == \E r \in U : \A x \in U : f[x] <= f[r]
             T == {U \in FiniteSubsetsOf(S) : U # {} /\ ~ Top(U)}
  <1>1. SUFFICES ASSUME T # {} PROVE FALSE
    <2>1. S \in FiniteSubsetsOf(S)
      BY DEF FiniteSubsetsOf
    <2> QED
      BY <1>1, <2>1
  <1>2. PICK U \in T : \A V \in T : ~ (<<V, U>> \in StrictSubsetOrdering(S))
    <2>1. T \subseteq FiniteSubsetsOf(S)
      OBVIOUS
    <2> HIDE DEF T
    <2> QED
      BY <1>1, <2>1, FS_StrictSubsetOrderingWellFounded, WFMin
  <1>3. U \subseteq S /\ IsFiniteSet(U) /\ U # {} /\ ~ Top(U)
    BY DEF FiniteSubsetsOf
  <1>4. PICK x \in U : TRUE
    BY <1>3
  <1>5. CASE U = {x}
    BY <1>3, <1>5
  <1>6. CASE U # {x}
    <2>1. U \ {x} # {} /\ IsFiniteSet(U \ {x}) /\ U \ {x} \subseteq S
      BY <1>3, <1>4, <1>6, FS_RemoveElement
    <2>2. <<U \ {x}, U>> \in StrictSubsetOrdering(S)
      BY <1>3, <1>4 DEF StrictSubsetOrdering
    <2>3. Top(U \ {x})
      BY <1>2, <2>1, <2>2 DEF FiniteSubsetsOf
    <2>4. PICK r \in U \ {x} : \A y \in U \ {x} : f[y] <= f[r]
      BY <2>3
    <2>5. \A y \in U : f[y] \in Nat
      BY <1>3
    <2>6. CASE f[x] <= f[r]
      BY <1>3, <2>4, <2>6
    <2>7. CASE f[r] <= f[x]
      <3>1. \A y \in U : f[y] <= f[x]
        BY <2>4, <2>5, <2>7
      <3> QED
        BY <1>3, <3>1
    <2> QED
      BY <2>4, <2>5, <2>6, <2>7
  <1> QED
    BY <1>5, <1>6

\* A category of the book, or below one, of which no keyword still taught is
\* deeper.
Deep(cat, book, due) ==
  /\ cat # NoCat => Guess!InBook(cat, book) \/ Guess!InBook(Guess!RootOf(cat), book)
  /\ \A r \in due \intersect Guess!Rows :
       IF cat = NoCat THEN kept # Cats ELSE Level[cat] >= Level[words[r].cat]

\* The keywords that taught a description, those that are still there.
DueOk(due, text, book) ==
  \A r \in due :
    /\ r \in Words /\ words[r] # Unborn
    /\ r \in Guess!Rows => /\ words[r].text = text /\ Guess!InBook(words[r].cat, book)
                           /\ Guess!Hits(text, text)

Fields == {"at", "expense", "book", "text", "cat", "tree", "due", "how"}

\* What a request has found so far.
Suggests(j) ==
  /\ DOMAIN j = Fields
  /\ DueOk(j.due, j.text, j.book)
  /\ j.at # "idle" => j.text \in Texts
  /\ j.at \in {"match", "ask"} => j.cat = NoCat
  /\ j.at = "ask" =>
       /\ j.due \intersect Guess!Rows = {}
       /\ \A n \in j.tree : n \in Cats /\ (Guess!InBook(n, j.book) \/ Guess!InBook(Guess!RootOf(n), j.book))
  /\ j.at \in {"build", "insert"} /\ j.how # "name" => Deep(j.cat, j.book, j.due)
  /\ j.at = "build" => j.cat \in Cats
  /\ j.at = "word" => j.text # Blank /\ j.cat \in Cats
  /\ j.cat \in Cats \union {NoCat}

FiledWell(x) ==
  /\ DOMAIN x = {"book", "text", "cat", "due", "how"}
  /\ DueOk(x.due, x.text, x.book)
  /\ x.how # "name" => Deep(x.cat, x.book, x.due)

GuessInv ==
  /\ kept \subseteq Cats
  /\ words \in [Words -> Guess!Word \union {Unborn, Gone}]
  /\ \A r \in Guess!Rows : words[r].text # Blank
  /\ filing = [t \in Filers |-> filing[t]] /\ \A t \in Filers : \A j : j = filing[t] => Suggests(j)
  /\ filed = [e \in Bills |-> filed[e]]
  /\ \A e \in Bills : \A x : x = filed[e] /\ x # Unborn => FiledWell(x)

\* Keywords keep their text and category until they are deleted, and what is
\* deleted does not come back.
Fewer ==
  /\ kept' \subseteq kept
  /\ \A r \in Words : words[r] # Unborn =>
       /\ words'[r] # Unborn
       /\ r \in Guess!Rows' => r \in Guess!Rows /\ words'[r] = words[r]

\* So what was found stays found.
LEMMA StaysFound ==
  ASSUME kept \subseteq Cats, Fewer, NEW due, NEW text, NEW book, NEW cat, DueOk(due, text, book)
  PROVE  /\ DueOk(due, text, book)'
         /\ due \intersect Guess!Rows' \subseteq due \intersect Guess!Rows
         /\ Deep(cat, book, due) => Deep(cat, book, due)'
  <1>1. ASSUME NEW r \in due
        PROVE  /\ r \in Words /\ words'[r] # Unborn
               /\ r \in Guess!Rows' => r \in Guess!Rows /\ words'[r] = words[r]
    BY DEF DueOk, Fewer
  <1>2. kept # Cats => kept' # Cats
    BY DEF Fewer
  <1>3. DueOk(due, text, book)'
    BY <1>1 DEF DueOk, Guess!InBook, Guess!Hits
  <1>4. due \intersect Guess!Rows' \subseteq due \intersect Guess!Rows
    BY <1>1
  <1>5. Deep(cat, book, due) => Deep(cat, book, due)'
    BY <1>1, <1>2 DEF Deep, Guess!InBook, Guess!RootOf
  <1> QED
    BY <1>3, <1>4, <1>5

\* A suggestion stays good when keywords are deleted, or added anew.
LEMMA SuggestsStays ==
  ASSUME kept \subseteq Cats, Fewer, NEW j, Suggests(j)
  PROVE  Suggests(j)'
  <1>1. DueOk(j.due, j.text, j.book)
    BY DEF Suggests
  <1>2. /\ DueOk(j.due, j.text, j.book)'
        /\ j.due \intersect Guess!Rows' \subseteq j.due \intersect Guess!Rows
        /\ Deep(j.cat, j.book, j.due) => Deep(j.cat, j.book, j.due)'
    BY <1>1, StaysFound
  <1>3. j.at = "ask" =>
          \A n \in j.tree : n \in Cats /\ (Guess!InBook(n, j.book) \/ Guess!InBook(Guess!RootOf(n), j.book))
    BY DEF Suggests
  <1> QED
    BY <1>2, <1>3 DEF Suggests, Guess!InBook, Guess!RootOf

\* What the keywords of a request's text say, and a category that the request
\* may be filed in.
LEMMA KeywordsFound ==
  ASSUME GuessInv, NEW d \in Texts, NEW b
  PROVE  /\ Guess!KeywordMatch(d, b) = {} => Guess!Matching(d, b) = {}
         /\ \A n \in Guess!KeywordMatch(d, b) :
              /\ n \in Cats /\ Guess!InBook(n, b)
              /\ \A r \in Guess!Matching(d, b) : Level[words[r].cat] <= Level[n]
  <1> DEFINE M == Guess!Matching(d, b)
             depth == [r \in Words |-> Level[words[r].cat]]
             long == [r \in Words |-> Length[words[r].text]]
             deep == {r \in M : \A x \in M : Level[words[x].cat] <= Level[words[r].cat]}
             best == {r \in deep : \A y \in deep : Length[words[y].text] <= Length[words[r].text]}
  <1>1. IsFiniteSet(M) /\ M \subseteq Words
    BY GuessAssumption, FS_Subset DEF Guess!Matching, Guess!Rows, GuessAssumption
  <1>2. \A r \in M : /\ words[r].cat \in Cats /\ Guess!InBook(words[r].cat, b)
                     /\ depth[r] \in Nat /\ long[r] \in Nat
                     /\ depth[r] = Level[words[r].cat] /\ long[r] = Length[words[r].text]
    BY <1>1, GuessAssumption DEF Guess!Matching, Guess!Rows, Guess!Word, GuessAssumption
  <1>3. Guess!KeywordMatch(d, b) = {words[r].cat : r \in best}
    BY DEF Guess!KeywordMatch
  <1>4. IsFiniteSet(deep) /\ deep \subseteq M
    BY <1>1, FS_Subset
  <1> HIDE DEF M, depth, long
  <1>5. M # {} => deep # {}
    <2> SUFFICES ASSUME M # {} PROVE deep # {}
      OBVIOUS
    <2>1. PICK r \in M : \A x \in M : depth[x] <= depth[r]
      BY <1>1, <1>2, MaxExists
    <2> QED
      BY <1>2, <2>1
  <1>6. deep # {} => best # {}
    <2> SUFFICES ASSUME deep # {} PROVE best # {}
      OBVIOUS
    <2>1. \A x \in deep : long[x] \in Nat
      BY <1>2, <1>4
    <2> HIDE DEF deep
    <2>2. PICK r \in deep : \A x \in deep : long[x] <= long[r]
      BY <1>4, <2>1, MaxExists
    <2>3. \A x \in deep : long[x] = Length[words[x].text]
      BY <1>2, <1>4
    <2> QED
      BY <2>2, <2>3
  <1>7. Guess!KeywordMatch(d, b) = {} => M = {}
    <2> HIDE DEF best, deep
    <2> QED
      BY <1>3, <1>5, <1>6
  <1>8. ASSUME NEW r \in best
        PROVE  /\ words[r].cat \in Cats /\ Guess!InBook(words[r].cat, b)
               /\ \A x \in M : Level[words[x].cat] <= Level[words[r].cat]
    BY <1>2
  <1> HIDE DEF best, deep
  <1>9. ASSUME NEW n \in Guess!KeywordMatch(d, b)
        PROVE  n \in Cats /\ Guess!InBook(n, b) /\ \A r \in M : Level[words[r].cat] <= Level[n]
    <2>1. PICK r \in best : n = words[r].cat
      BY <1>3
    <2> QED
      BY <1>8, <2>1
  <1> QED
    BY <1>7, <1>9 DEF M

\* The tree that the model is shown is of the book.
LEMMA TreeOfBook ==
  ASSUME GuessInv, NEW b, NEW n \in Guess!CategoryTree(b)
  PROVE  n \in Cats /\ (Guess!InBook(n, b) \/ Guess!InBook(Guess!RootOf(n), b))
  <1> DEFINE roots == {m \in kept : Parent[m] = NoCat /\ Guess!InBook(m, b)}
             mids == Guess!Children(roots)
  <1>1. /\ kept \subseteq Cats /\ NoCat \notin Cats
        /\ n \in roots \union mids \union Guess!Children(mids)
    BY GuessAssumption DEF GuessInv, GuessAssumption, Guess!CategoryTree
  <1>2. CASE n \in roots
    BY <1>1, <1>2
  <1>3. ASSUME NEW m \in mids
        PROVE  m \in Cats /\ Parent[m] \in Cats /\ Parent[Parent[m]] = NoCat /\ Guess!InBook(Parent[m], b)
    BY <1>1, <1>3 DEF Guess!Children
  <1>4. CASE n \in mids
    BY <1>1, <1>3, <1>4 DEF Guess!RootOf
  <1>5. CASE n \in Guess!Children(mids)
    <2>1. n \in Cats /\ Parent[n] \in mids
      BY <1>1, <1>5 DEF Guess!Children
    <2>2. Parent[n] \in Cats /\ Parent[Parent[n]] \in Cats /\ Guess!InBook(Parent[Parent[n]], b)
      BY <1>3, <2>1
    <2> QED
      BY <1>1, <2>1, <2>2 DEF Guess!RootOf
  <1> QED
    BY <1>1, <1>2, <1>4, <1>5

\* A request that has not begun suggests nothing.
LEMMA IdleSuggests == GuessInv => Suggests(Guess!Idle)
  <1> DEFINE j == Guess!Idle
  <1>1. j.at = "idle" /\ j.due = {} /\ j.cat = NoCat /\ DOMAIN j = Fields
    BY DEF Guess!Idle, Fields
  <1>2. DueOk(j.due, j.text, j.book)
    BY <1>1 DEF DueOk
  <1> HIDE DEF j
  <1> QED
    BY <1>1, <1>2 DEF Suggests, j

\* What a thread goes on with is well found, by what it has before it.
LEMMA WorksWell ==
  ASSUME GuessInv, NEW t \in Filers,
         \/ \E d \in Texts, n \in Cats : Guess!Teach(t, d, n)
         \/ \E e \in Bills, b \in Guess!Book, d \in Texts : Guess!Save(t, e, b, d)
         \/ \E e \in Bills, u \in Housemates, d, name \in Texts : Guess!SaveByName(t, e, u, d, name)
         \/ Guess!Match(t) \/ Guess!NoReply(t) \/ Guess!Build(t) \/ Guess!Insert(t)
         \/ \E n \in Cats : Guess!Reply(t, n)
  PROVE  \E j : Guess!Works(t, j) /\ Suggests(j)
  <1>0. /\ Suggests(filing[t]) /\ kept \subseteq Cats /\ NoCat \notin Cats
        /\ Suggests(Guess!Idle) /\ DOMAIN Guess!Idle = Fields
        /\ \A r \in Guess!Rows : words[r].text # Blank /\ words[r] # Unborn /\ r \in Words
    BY IdleSuggests, GuessAssumption DEF GuessInv, GuessAssumption, Guess!Rows, Guess!Idle, Fields
  <1>1. ASSUME NEW d \in Texts, NEW n \in Cats, Guess!Teach(t, d, n) PROVE \E j : Guess!Works(t, j) /\ Suggests(j)
    <2> DEFINE j == [Guess!Idle EXCEPT !.at = "word", !.text = d, !.cat = n]
    <2>1. Guess!Works(t, j) /\ d # Blank
      BY <1>1 DEF Guess!Teach
    <2>2. j.at = "word" /\ j.text = d /\ j.cat = n /\ j.due = {} /\ DOMAIN j = Fields
      BY DEF Guess!Idle, Fields
    <2> HIDE DEF j
    <2>3. Suggests(j)
      BY <2>1, <2>2 DEF Suggests, DueOk
    <2> QED
      BY <2>1, <2>3
  <1>2. ASSUME NEW d, NEW b PROVE DueOk(Guess!Taught(d, b), d, b)
    BY <1>0 DEF DueOk, Guess!Taught
  <1>3. ASSUME NEW e \in Bills, NEW b \in Guess!Book, NEW d \in Texts, Guess!Save(t, e, b, d)
        PROVE  \E j : Guess!Works(t, j) /\ Suggests(j)
    <2> DEFINE j == [Guess!Idle EXCEPT !.at = "match", !.expense = e, !.book = b, !.text = d,
                                       !.due = Guess!Taught(d, b)]
    <2>1. Guess!Works(t, j)
      BY <1>3 DEF Guess!Save
    <2>2. j.at = "match" /\ j.text = d /\ j.cat = NoCat /\ j.due = Guess!Taught(d, b) /\ j.book = b
          /\ DOMAIN j = Fields
      BY DEF Guess!Idle, Fields
    <2> HIDE DEF j
    <2>3. Suggests(j)
      BY <1>2, <2>2 DEF Suggests
    <2> QED
      BY <2>1, <2>3
  <1>4. ASSUME NEW e \in Bills, NEW u \in Housemates, NEW d \in Texts, NEW name \in Texts,
               Guess!SaveByName(t, e, u, d, name)
        PROVE  \E j : Guess!Works(t, j) /\ Suggests(j)
    <2> DEFINE found == {n \in kept \intersect Named[name] : Owner[n] = u}
               b == [user |-> u, group |-> NoGroup]
               job == [Guess!Idle EXCEPT !.expense = e, !.book = b, !.text = d, !.due = Guess!Taught(d, b)]
    <2>1. job.text = d /\ job.due = Guess!Taught(d, b) /\ job.book = b /\ DOMAIN job = Fields /\ job.cat = NoCat
      BY DEF Guess!Idle, Fields
    <2>2. DueOk(job.due, job.text, job.book)
      BY <1>2, <2>1
    <2>3. IF found = {} THEN Guess!Works(t, [job EXCEPT !.at = "match", !.how = "bulk"])
          ELSE \E n \in found : Guess!Works(t, [job EXCEPT !.at = "insert", !.cat = n, !.how = "name"])
      BY <1>4 DEF Guess!SaveByName
    <2> HIDE DEF job
    <2>4. CASE found = {}
      <3> DEFINE j == [job EXCEPT !.at = "match", !.how = "bulk"]
      <3>1. j.at = "match" /\ j.text = d /\ j.due = job.due /\ j.book = job.book /\ DOMAIN j = Fields /\ j.cat = NoCat
            /\ j.text = job.text
        BY <2>1 DEF Fields
      <3>2. Guess!Works(t, j)
        BY <2>3, <2>4
      <3> HIDE DEF j
      <3>3. Suggests(j)
        BY <2>1, <2>2, <3>1 DEF Suggests
      <3> QED
        BY <3>2, <3>3
    <2>5. ASSUME NEW n \in found, Guess!Works(t, [job EXCEPT !.at = "insert", !.cat = n, !.how = "name"])
          PROVE  \E j : Guess!Works(t, j) /\ Suggests(j)
      <3> DEFINE j == [job EXCEPT !.at = "insert", !.cat = n, !.how = "name"]
      <3>1. j.at = "insert" /\ j.text = job.text /\ j.due = job.due /\ j.book = job.book /\ DOMAIN j = Fields
            /\ j.cat = n /\ j.how = "name"
        BY <2>1 DEF Fields
      <3>2. Guess!Works(t, j)
        BY <2>5
      <3>4. n \in Cats
        BY <1>0
      <3> HIDE DEF j
      <3>3. Suggests(j)
        BY <2>1, <2>2, <3>1, <3>4 DEF Suggests
      <3> QED
        BY <3>2, <3>3
    <2> QED
      BY <2>3, <2>4, <2>5
  <1> DEFINE k == filing[t]
  <1>5. DueOk(k.due, k.text, k.book) /\ (k.at # "idle" => k.text \in Texts) /\ DOMAIN k = Fields /\ k.cat \in Cats \union {NoCat}
    BY <1>0 DEF Suggests
  <1>6. CASE Guess!Match(t)
    <2> DEFINE d == k.text
               b == k.book
    <2>1. /\ k.at = "match" /\ k.cat = NoCat /\ d \in Texts
          /\ CASE d = Blank -> Guess!Works(t, [k EXCEPT !.at = "insert"])
               [] d # Blank /\ Guess!KeywordMatch(d, b) # {} ->
                    \E n \in Guess!KeywordMatch(d, b) : Guess!Works(t, [k EXCEPT !.at = "build", !.cat = n])
               [] OTHER -> Guess!Works(t, [k EXCEPT !.at = "ask", !.tree = Guess!CategoryTree(b)])
      BY <1>0, <1>6 DEF Guess!Match, Suggests
    <2>2. ASSUME NEW r \in k.due \intersect Guess!Rows
          PROVE  r \in Guess!Matching(d, b) /\ d # Blank
      BY <1>0, <1>5 DEF DueOk, Guess!Matching
    <2>3. CASE d = Blank
      <3> DEFINE j == [k EXCEPT !.at = "insert"]
      <3>1. /\ DOMAIN j = Fields /\ j.at = "insert" /\ j.cat = NoCat /\ j.due = k.due /\ j.text = k.text
            /\ j.book = k.book
        BY <1>5, <2>1 DEF Fields
      <3>2. Guess!Works(t, j)
        BY <2>1, <2>3
      <3>3. Deep(NoCat, k.book, k.due)
        BY <2>2, <2>3 DEF Deep
      <3> HIDE DEF j
      <3>4. Suggests(j)
        BY <1>5, <2>1, <3>1, <3>3 DEF Suggests
      <3> QED
        BY <3>2, <3>4
    <2>4. ASSUME NEW n \in Guess!KeywordMatch(d, b), Guess!Works(t, [k EXCEPT !.at = "build", !.cat = n])
          PROVE  \E j : Guess!Works(t, j) /\ Suggests(j)
      <3> DEFINE j == [k EXCEPT !.at = "build", !.cat = n]
      <3>1. /\ DOMAIN j = Fields /\ j.at = "build" /\ j.cat = n /\ j.due = k.due /\ j.text = k.text
            /\ j.book = k.book
        BY <1>5 DEF Fields
      <3>2. Guess!Works(t, j)
        BY <2>4
      <3>3. /\ n \in Cats /\ Guess!InBook(n, b)
            /\ \A r \in Guess!Matching(d, b) : Level[words[r].cat] <= Level[n]
        BY <2>1, KeywordsFound
      <3>4. ASSUME NEW r \in k.due \intersect Guess!Rows PROVE Level[n] >= Level[words[r].cat]
        <4>1. Level[words[r].cat] <= Level[n]
          BY <2>2, <3>3
        <4> QED
          BY <4>1
      <3>5. Deep(n, k.book, k.due)
        BY <1>0, <3>3, <3>4 DEF Deep
      <3> HIDE DEF j
      <3>6. Suggests(j)
        BY <1>5, <2>1, <3>1, <3>3, <3>5 DEF Suggests
      <3> QED
        BY <3>2, <3>6
    <2>5. ASSUME d # Blank, Guess!KeywordMatch(d, b) = {},
                 Guess!Works(t, [k EXCEPT !.at = "ask", !.tree = Guess!CategoryTree(b)])
          PROVE  \E j : Guess!Works(t, j) /\ Suggests(j)
      <3> DEFINE j == [k EXCEPT !.at = "ask", !.tree = Guess!CategoryTree(b)]
      <3>1. /\ DOMAIN j = Fields /\ j.at = "ask" /\ j.cat = NoCat /\ j.due = k.due /\ j.text = k.text
            /\ j.book = k.book /\ j.tree = Guess!CategoryTree(b)
        BY <1>5, <2>1 DEF Fields
      <3>2. Guess!Works(t, j)
        BY <2>5
      <3>3. k.due \intersect Guess!Rows = {}
        BY <2>1, <2>2, <2>5, KeywordsFound
      <3>4. \A n \in Guess!CategoryTree(b) : n \in Cats /\ (Guess!InBook(n, b) \/ Guess!InBook(Guess!RootOf(n), b))
        BY TreeOfBook
      <3> HIDE DEF j
      <3>5. Suggests(j)
        BY <1>5, <2>1, <3>1, <3>3, <3>4 DEF Suggests
      <3> QED
        BY <3>2, <3>5
    <2> QED
      BY <2>1, <2>3, <2>4, <2>5
  <1>7. ASSUME NEW n \in Cats, k.at = "ask", Guess!InBook(n, k.book) \/ Guess!InBook(Guess!RootOf(n), k.book),
               Guess!Works(t, [k EXCEPT !.at = "build", !.cat = n, !.tree = {}])
        PROVE  \E j : Guess!Works(t, j) /\ Suggests(j)
    <2> DEFINE j == [k EXCEPT !.at = "build", !.cat = n, !.tree = {}]
    <2>1. /\ DOMAIN j = Fields /\ j.at = "build" /\ j.cat = n /\ j.due = k.due /\ j.text = k.text
          /\ j.book = k.book
      BY <1>5 DEF Fields
    <2>2. Guess!Works(t, j)
      BY <1>7
    <2>3. Deep(n, k.book, k.due)
      BY <1>0, <1>7 DEF Deep, Suggests
    <2> HIDE DEF j
    <2>4. Suggests(j)
      BY <1>5, <1>7, <2>1, <2>3 DEF Suggests
    <2> QED
      BY <2>2, <2>4
  <1>8. ASSUME NEW n \in Cats, Guess!Reply(t, n) PROVE \E j : Guess!Works(t, j) /\ Suggests(j)
    <2>1. k.at = "ask" /\ n \in k.tree /\ Guess!Works(t, [k EXCEPT !.at = "build", !.cat = n, !.tree = {}])
      BY <1>8 DEF Guess!Reply
    <2>2. Guess!InBook(n, k.book) \/ Guess!InBook(Guess!RootOf(n), k.book)
      BY <1>0, <2>1 DEF Suggests
    <2> QED
      BY <1>7, <2>1, <2>2
  <1>9. CASE Guess!NoReply(t)
    <2> DEFINE generals == {n \in kept \intersect General : Guess!InBook(n, k.book)}
    <2>1. /\ k.at = "ask"
          /\ IF generals = {} THEN Guess!Works(t, [k EXCEPT !.at = "insert", !.tree = {}])
             ELSE \E n \in generals : Guess!Works(t, [k EXCEPT !.at = "build", !.cat = n, !.tree = {}])
      BY <1>9 DEF Guess!NoReply
    <2>2. CASE generals = {}
      <3> DEFINE j == [k EXCEPT !.at = "insert", !.tree = {}]
      <3>1. k.cat = NoCat /\ k.due \intersect Guess!Rows = {}
        BY <1>0, <2>1 DEF Suggests
      <3>2. /\ DOMAIN j = Fields /\ j.at = "insert" /\ j.cat = NoCat /\ j.due = k.due /\ j.text = k.text
            /\ j.book = k.book
        BY <1>5, <3>1 DEF Fields
      <3>3. Guess!Works(t, j)
        BY <2>1, <2>2
      <3>4. Deep(NoCat, k.book, k.due)
        BY <3>1 DEF Deep
      <3> HIDE DEF j
      <3>5. Suggests(j)
        BY <1>5, <2>1, <3>2, <3>4 DEF Suggests
      <3> QED
        BY <3>3, <3>5
    <2>3. ASSUME NEW n \in generals, Guess!Works(t, [k EXCEPT !.at = "build", !.cat = n, !.tree = {}])
          PROVE  \E j : Guess!Works(t, j) /\ Suggests(j)
      BY <1>0, <1>7, <2>1, <2>3
    <2> QED
      BY <2>1, <2>2, <2>3
  <1>10. CASE Guess!Build(t)
    <2> DEFINE j == [k EXCEPT !.at = "insert", !.cat = IF k.cat \in kept THEN k.cat ELSE NoCat]
    <2>1. k.at = "build" /\ Guess!Works(t, j)
      BY <1>10 DEF Guess!Build
    <2>2. /\ DOMAIN j = Fields /\ j.at = "insert" /\ j.due = k.due /\ j.text = k.text
          /\ j.cat = (IF k.cat \in kept THEN k.cat ELSE NoCat)
          /\ j.book = k.book /\ j.how = k.how
      BY <1>5 DEF Fields
    <2>3. k.cat \in Cats /\ (k.how # "name" => Deep(k.cat, k.book, k.due))
      BY <1>0, <2>1 DEF Suggests
    <2>4. k.how # "name" => Deep(j.cat, k.book, k.due)
      <3>1. CASE k.cat \in kept
        BY <2>2, <2>3, <3>1
      <3>2. CASE k.cat \notin kept
        <4>1. kept # Cats /\ j.cat = NoCat
          BY <2>2, <2>3, <3>2
        <4> QED
          BY <4>1 DEF Deep
      <3> QED
        BY <3>1, <3>2
    <2> HIDE DEF j
    <2>5. Suggests(j)
      BY <1>5, <2>1, <2>2, <2>3, <2>4 DEF Suggests
    <2> QED
      BY <2>1, <2>5
  <1>11. CASE Guess!Insert(t)
    <2> DEFINE j == [k EXCEPT !.at = "match", !.how = "guess"]
    <2>1. CASE Guess!Works(t, Guess!Idle)
      BY <1>0, <2>1
    <2>2. CASE k.cat = NoCat /\ k.how = "bulk" /\ Guess!Works(t, j)
      <3>1. /\ DOMAIN j = Fields /\ j.at = "match" /\ j.due = k.due /\ j.text = k.text
            /\ j.cat = NoCat /\ j.book = k.book
        BY <1>5, <2>2 DEF Fields
      <3> HIDE DEF j
      <3>3. k.at = "insert"
        BY <1>11 DEF Guess!Insert
      <3>2. Suggests(j)
        BY <1>5, <3>1, <3>3 DEF Suggests
      <3> QED
        BY <2>2, <3>2
    <2> QED
      BY <1>11, <2>1, <2>2 DEF Guess!Insert
  <1> QED
    BY <1>1, <1>3, <1>4, <1>6, <1>8, <1>9, <1>10, <1>11

\* What a request takes of the keywords and the categories.
LEMMA FewerStep ==
  ASSUME GuessInv, Guess!GuessNext
  PROVE  /\ Fewer /\ words' \in [Words -> Guess!Word \union {Unborn, Gone}]
         /\ \A r \in Guess!Rows' : words'[r].text # Blank
  <1>0. /\ words \in [Words -> Guess!Word \union {Unborn, Gone}]
        /\ Unborn \notin Guess!Word /\ Gone \notin Guess!Word /\ Unborn # Gone
        /\ \A r \in Guess!Rows : words[r].text # Blank
    BY GuessAssumption DEF GuessInv, GuessAssumption
  <1>1. CASE UNCHANGED <<kept, words>>
    BY <1>0, <1>1 DEF Fewer, Guess!Rows
  <1>2. ASSUME NEW t \in Filers, NEW r \in Words, Guess!TeachCommit(t, r)
        PROVE  /\ Fewer /\ words' \in [Words -> Guess!Word \union {Unborn, Gone}]
               /\ \A q \in Guess!Rows' : words'[q].text # Blank
    <2> DEFINE taught == [text |-> filing[t].text, cat |-> filing[t].cat]
    <2>1. /\ words[r] = Unborn /\ kept' = kept /\ filing[t].at = "word"
          /\ words' = IF filing[t].cat \in kept THEN [words EXCEPT ![r] = taught] ELSE words
      BY <1>2 DEF Guess!TeachCommit
    <2>2. taught \in Guess!Word /\ taught.text # Blank
      BY <2>1 DEF GuessInv, Suggests, Guess!Word
    <2> HIDE DEF taught
    <2>3. words' \in [Words -> Guess!Word \union {Unborn, Gone}]
      BY <1>0, <2>1, <2>2
    <2>4. \A q \in Guess!Rows' : words'[q].text # Blank
      BY <1>0, <2>1, <2>2 DEF Guess!Rows
    <2>5. Fewer
      BY <1>0, <2>1, <2>2 DEF Fewer, Guess!Rows
    <2> QED
      BY <2>3, <2>4, <2>5
  <1>3. ASSUME NEW u \in Housemates, NEW r \in Words, Guess!DeleteKeyword(u, r)
        PROVE  /\ Fewer /\ words' \in [Words -> Guess!Word \union {Unborn, Gone}]
               /\ \A q \in Guess!Rows' : words'[q].text # Blank
    BY <1>0, <1>3 DEF Guess!DeleteKeyword, Fewer, Guess!Rows
  <1>4. ASSUME NEW u \in Housemates, NEW n \in Cats, Guess!DeleteCategory(u, n)
        PROVE  /\ Fewer /\ words' \in [Words -> Guess!Word \union {Unborn, Gone}]
               /\ \A q \in Guess!Rows' : words'[q].text # Blank
    BY <1>0, <1>4 DEF Guess!DeleteCategory, Fewer, Guess!Rows
  <1>5. \/ UNCHANGED <<kept, words>>
        \/ \E t \in Filers, r \in Words : Guess!TeachCommit(t, r)
        \/ \E u \in Housemates, r \in Words : Guess!DeleteKeyword(u, r)
        \/ \E u \in Housemates, n \in Cats : Guess!DeleteCategory(u, n)
    BY DEF Guess!GuessNext, Guess!Teach, Guess!Save, Guess!SaveByName, Guess!Match, Guess!Reply,
       Guess!NoReply, Guess!Build, Guess!Insert
  <1> QED
    BY <1>1, <1>2, <1>3, <1>4, <1>5

\* No step of a save or of the keywords files a text other than as taught.
LEMMA GuessStep ==
  ASSUME GuessInv, Guess!GuessNext
  PROVE  GuessInv'
  <1>0. /\ kept \subseteq Cats /\ Fewer /\ words' \in [Words -> Guess!Word \union {Unborn, Gone}]
        /\ \A r \in Guess!Rows' : words'[r].text # Blank
        /\ filing = [t \in Filers |-> filing[t]] /\ filed = [e \in Bills |-> filed[e]]
        /\ \A t \in Filers : Suggests(filing[t])
    BY FewerStep DEF GuessInv
  <1>1. kept' \subseteq Cats
    BY <1>0 DEF Fewer
  <1>2. ASSUME NEW t \in Filers, NEW j, Suggests(j), Guess!Works(t, j)
        PROVE  /\ filing' = [q \in Filers |-> filing'[q]]
               /\ \A q \in Filers : \A k : k = filing'[q] => Suggests(k)
    BY <1>0, <1>2 DEF Guess!Works
  <1>3. ASSUME filing' = filing
        PROVE  /\ filing' = [q \in Filers |-> filing'[q]]
               /\ \A q \in Filers : \A k : k = filing'[q] => Suggests(k)
    BY <1>0, <1>3
  <1>4. \/ filing' = filing
        \/ \E t \in Filers : \E j : Suggests(j) /\ Guess!Works(t, j)
    <2>1. ASSUME NEW t \in Filers, NEW r \in Words, Guess!TeachCommit(t, r)
          PROVE  Suggests(Guess!Idle) /\ Guess!Works(t, Guess!Idle)
      BY <2>1, IdleSuggests DEF Guess!TeachCommit
    <2>2. \/ filing' = filing
          \/ \E t \in Filers, r \in Words : Guess!TeachCommit(t, r)
          \/ \E t \in Filers :
               \/ \E d \in Texts, n \in Cats : Guess!Teach(t, d, n)
               \/ \E e \in Bills, b \in Guess!Book, d \in Texts : Guess!Save(t, e, b, d)
               \/ \E e \in Bills, u \in Housemates, d, name \in Texts : Guess!SaveByName(t, e, u, d, name)
               \/ Guess!Match(t) \/ Guess!NoReply(t) \/ Guess!Build(t) \/ Guess!Insert(t)
               \/ \E n \in Cats : Guess!Reply(t, n)
      BY DEF Guess!GuessNext, Guess!DeleteKeyword, Guess!DeleteCategory
    <2> QED
      BY <2>1, <2>2, WorksWell
  <1>5. /\ filing' = [q \in Filers |-> filing'[q]]
        /\ \A q \in Filers : \A k : k = filing'[q] => Suggests(k)
    BY <1>2, <1>3, <1>4
  <1>6. ASSUME NEW q \in Filers, NEW k, k = filing'[q] PROVE Suggests(k)'
    BY <1>0, <1>5, <1>6, SuggestsStays
  <1>7. ASSUME NEW x, FiledWell(x) PROVE FiledWell(x)'
    BY <1>0, <1>7, StaysFound DEF FiledWell
  <1>8. CASE filed' = filed
    <2>1. ASSUME NEW e \in Bills, NEW x, x = filed'[e], x # Unborn PROVE FiledWell(x)'
      BY <1>7, <1>8, <2>1 DEF GuessInv
    <2> QED
      BY <1>0, <1>1, <1>5, <1>6, <1>8, <2>1 DEF GuessInv
  <1>9. ASSUME NEW t \in Filers, Guess!Insert(t) PROVE GuessInv'
    <2> DEFINE k == filing[t]
               new == Restrict(k, {"book", "text", "cat", "due", "how"})
    <2>1. /\ DOMAIN new = {"book", "text", "cat", "due", "how"}
          /\ new.book = k.book /\ new.text = k.text /\ new.cat = k.cat /\ new.due = k.due /\ new.how = k.how
      BY DEF Restrict
    <2>2. Suggests(k) /\ k.at = "insert"
      BY <1>0, <1>9 DEF Guess!Insert
    <2>3. filed' = filed \/ filed' = [filed EXCEPT ![k.expense] = new]
      BY <1>9 DEF Guess!Insert, Guess!Restrict, Restrict
    <2> HIDE DEF new
    <2>4. FiledWell(new)
      BY <2>1, <2>2 DEF FiledWell, Suggests
    <2>5. ASSUME NEW e \in Bills, NEW x, x = filed'[e], x # Unborn PROVE FiledWell(x)'
      <3>1. x = new \/ x = filed[e]
        BY <1>0, <2>3, <2>5
      <3> QED
        BY <1>7, <2>4, <2>5, <3>1 DEF GuessInv
    <2>6. filed' = [e \in Bills |-> filed'[e]]
      BY <1>0, <2>3
    <2> QED
      BY <1>0, <1>1, <1>5, <1>6, <2>5, <2>6 DEF GuessInv
  <1>10. ASSUME NEW u \in Housemates, NEW n \in Cats, Guess!DeleteCategory(u, n) PROVE GuessInv'
    <2>1. /\ n \in kept /\ kept' = kept \ Guess!Below(n) /\ n \in Guess!Below(n)
          /\ filed' = [e \in Bills |-> IF filed[e] # Unborn /\ filed[e].cat \in Guess!Below(n)
                                       THEN [filed[e] EXCEPT !.cat = NoCat] ELSE filed[e]]
      BY <1>10 DEF Guess!DeleteCategory, Guess!Below
    <2>2. kept' # Cats
      BY <1>0, <2>1
    <2>3. ASSUME NEW e \in Bills, NEW x, x = filed'[e], x # Unborn PROVE FiledWell(x)'
      <3>1. CASE filed[e] # Unborn /\ filed[e].cat \in Guess!Below(n)
        <4>1. PICK y : y = filed[e]
          OBVIOUS
        <4>2. x = [y EXCEPT !.cat = NoCat] /\ FiledWell(y)
          BY <2>1, <2>3, <3>1, <4>1 DEF GuessInv
        <4>3. /\ DOMAIN x = {"book", "text", "cat", "due", "how"} /\ x.cat = NoCat /\ x.book = y.book
              /\ x.text = y.text /\ x.due = y.due
          BY <4>2 DEF FiledWell
        <4>4. DueOk(y.due, y.text, y.book)'
          BY <1>7, <4>2 DEF FiledWell
        <4>5. Deep(NoCat, y.book, y.due)'
          BY <2>2 DEF Deep
        <4> QED
          BY <4>3, <4>4, <4>5 DEF FiledWell
      <3>2. CASE ~ (filed[e] # Unborn /\ filed[e].cat \in Guess!Below(n))
        BY <1>7, <2>1, <2>3, <3>2 DEF GuessInv
      <3> QED
        BY <3>1, <3>2
    <2>4. filed' = [e \in Bills |-> filed'[e]]
      BY <2>1
    <2> QED
      BY <1>0, <1>1, <1>5, <1>6, <2>3, <2>4 DEF GuessInv
  <1>11. \/ filed' = filed
         \/ \E t \in Filers : Guess!Insert(t)
         \/ \E u \in Housemates, n \in Cats : Guess!DeleteCategory(u, n)
    BY DEF Guess!GuessNext, Guess!Teach, Guess!TeachCommit, Guess!DeleteKeyword, Guess!Save, Guess!SaveByName,
       Guess!Match, Guess!Reply, Guess!NoReply, Guess!Build
  <1> QED
    BY <1>8, <1>9, <1>10, <1>11

\* An expense without a category is filed in its own book or below, and where
\* its description had been taught when the request began, no higher than
\* taught, although categories and keywords come and go in between
\* (suggest_category, learn_keyword); for any trees, texts and threads.
THEOREM FiledAsTaughtHolds == ServicesSpec => []FiledAsTaught
  <1>1. ServicesInit => GuessInv
    <2> SUFFICES ASSUME ServicesInit PROVE GuessInv
      OBVIOUS
    <2>1. /\ kept = Cats /\ words = [r \in Words |-> Unborn] /\ filed = [e \in Bills |-> Unborn]
          /\ filing = [t \in Filers |-> Guess!Idle]
      BY DEF ServicesInit, Guess!GuessInit
    <2>2. Guess!Rows = {}
      BY <2>1, GuessAssumption DEF Guess!Rows, GuessAssumption
    <2>3. Suggests(Guess!Idle)
      <3> DEFINE j == Guess!Idle
      <3>1. j.at = "idle" /\ j.due = {} /\ j.cat = NoCat /\ DOMAIN j = Fields
        BY DEF Guess!Idle, Fields
      <3> HIDE DEF j
      <3>2. DueOk(j.due, j.text, j.book)
        BY <3>1 DEF DueOk
      <3>3. Suggests(j)
        BY <3>1, <3>2 DEF Suggests
      <3> QED
        BY <3>3 DEF j
    <2> QED
      BY <2>1, <2>2, <2>3 DEF GuessInv
  <1>2. habit \in Habits /\ GuessInv /\ [ServicesNext]_allVars => GuessInv'
    <2> SUFFICES ASSUME habit \in Habits, GuessInv, [ServicesNext]_allVars PROVE GuessInv'
      OBVIOUS
    <2>1. CASE UNCHANGED guessVars
      <3>1. kept' = kept /\ words' = words /\ filed' = filed /\ filing' = filing
        BY <2>1 DEF guessVars
      <3>2. Fewer /\ kept \subseteq Cats
        BY <3>1 DEF Fewer, GuessInv, Guess!Rows
      <3>3. ASSUME NEW j, Suggests(j) PROVE Suggests(j)'
        BY <3>2, <3>3, SuggestsStays
      <3>4. ASSUME NEW x, FiledWell(x) PROVE FiledWell(x)'
        BY <3>2, <3>4, StaysFound DEF FiledWell
      <3>5. \A r \in Guess!Rows' : words'[r].text # Blank
        BY <3>1 DEF GuessInv, Guess!Rows
      <3> QED
        BY <3>1, <3>3, <3>4, <3>5 DEF GuessInv
    <2>2. CASE Filing
      BY <2>2, GuessStep DEF Filing
    <2>3. UNCHANGED guessVars \/ Filing
      BY OneService
    <2> QED
      BY ONLY <2>1, <2>2, <2>3
  <1>3. GuessInv => FiledAsTaught
    BY DEF GuessInv, FiledAsTaught, Guess!FiledAsTaught, FiledWell, Deep
  <1> QED
    BY <1>1, <1>2, <1>3, HabitKept, PTL DEF ServicesSpec, allVars

-----------------------------------------------------------------------------
(* Lines of a receipt                                                       *)

\* A line is kept unless it is among those given or, in one answer, those kept.
Lately(tail, own, few) == IF own THEN Scans!ToSet(few) ELSE tail
Keeps(tail, own, few, x) ==
  IF \E k \in Lately(tail, own, few) : Alike(x, k) THEN few ELSE Append(few, x)

\* The folds that both filters of a strip's lines are.
SelfFold(items, f) ==
  [U \in SUBSET (DOMAIN items) |-> IF U = {} THEN <<>>
     ELSE IF \E k \in Scans!ToSet(f[U \ {Scans!Max(U)}]) : Alike(items[Scans!Max(U)], k)
          THEN f[U \ {Scans!Max(U)}] ELSE Append(f[U \ {Scans!Max(U)}], items[Scans!Max(U)])]
TailFold(tail, items, f) ==
  [U \in SUBSET (DOMAIN items) |-> IF U = {} THEN <<>>
     ELSE IF \E t \in tail : Alike(items[Scans!Max(U)], t)
          THEN f[U \ {Scans!Max(U)}] ELSE Append(f[U \ {Scans!Max(U)}], items[Scans!Max(U)])]
FoldOf(items, tail, own, f) ==
  [U \in SUBSET (DOMAIN items) |-> IF U = {} THEN <<>>
     ELSE Keeps(tail, own, f[U \ {Scans!Max(U)}], items[Scans!Max(U)])]

LEMMA SelfIs ==
  ASSUME NEW items
  PROVE  Scans!DedupeSelf(items)
           = (CHOOSE f : f = SelfFold(items, f))[DOMAIN items]
BY Zenon DEF Scans!DedupeSelf, Scans!FoldLeft, Scans!MapThenFoldSet, SelfFold

\* The lines of a list that another's are compared with.
LastOf(before) == Scans!ToSet(SubSeq(before, Scans!Larger(1, Len(before) + 1 - Lookback), Len(before)))

LEMMA BoundaryIs ==
  ASSUME NEW before, NEW items
  PROVE  Scans!DedupeBoundary(before, items)
           = (CHOOSE f : f = TailFold(LastOf(before), items, f))[DOMAIN items]
BY Zenon DEF Scans!DedupeBoundary, Scans!FoldLeft, Scans!MapThenFoldSet, TailFold, LastOf

\* The greatest of a few numbers.
LEMMA MaxOfFew ==
  ASSUME NEW U \in SUBSET (1..4), U # {}
  PROVE  Scans!Max(U) \in U /\ \A y \in U : Scans!Max(U) >= y
<1>1. \E x \in U : \A y \in U : x >= y
  <2>1. CASE 4 \in U
    BY <2>1
  <2>2. CASE 4 \notin U /\ 3 \in U
    BY <2>2
  <2>3. CASE 4 \notin U /\ 3 \notin U /\ 2 \in U
    BY <2>3
  <2>4. CASE 4 \notin U /\ 3 \notin U /\ 2 \notin U
    <3>1. \A y \in U : y = 1
      BY <2>4
    <3>2. PICK z : z \in U
      OBVIOUS
    <3> QED
      BY <3>1, <3>2
  <2> QED
    BY <2>1, <2>2, <2>3, <2>4
<1> QED
  BY <1>1, Zenon DEF Scans!Max

\* What is left of the lines at the places U, of four.
Left1(items, tail, own, U) ==
  IF 1 \in U THEN Keeps(tail, own, <<>>, items[1]) ELSE <<>>
Left2(items, tail, own, U) ==
  IF 2 \in U THEN Keeps(tail, own, Left1(items, tail, own, U), items[2]) ELSE Left1(items, tail, own, U)
Left3(items, tail, own, U) ==
  IF 3 \in U THEN Keeps(tail, own, Left2(items, tail, own, U), items[3]) ELSE Left2(items, tail, own, U)
Left(items, tail, own, U) ==
  IF 4 \in U THEN Keeps(tail, own, Left3(items, tail, own, U), items[4]) ELSE Left3(items, tail, own, U)

\* The last of the places decides about its line.
LEMMA LeftTop ==
  ASSUME NEW items, NEW tail, NEW own, NEW U, NEW V, NEW m \in 1..4, m \in U, m \notin V,
         \A y \in 1..4 : y > m => y \notin U /\ y \notin V,
         \A y \in 1..4 : y < m => (y \in U <=> y \in V)
  PROVE  Left(items, tail, own, U) = Keeps(tail, own, Left(items, tail, own, V), items[m])
<1>1. CASE m = 4
  <2>1. 4 \in U /\ 4 \notin V /\ (3 \in U <=> 3 \in V) /\ (2 \in U <=> 2 \in V) /\ (1 \in U <=> 1 \in V)
    BY <1>1
  <2> QED
    BY <1>1, <2>1, Zenon DEF Left, Left3, Left2, Left1
<1>2. CASE m = 3
  <2>1. 4 \notin U /\ 4 \notin V /\ 3 \in U /\ 3 \notin V /\ (2 \in U <=> 2 \in V) /\ (1 \in U <=> 1 \in V)
    BY <1>2
  <2> QED
    BY <1>2, <2>1, Zenon DEF Left, Left3, Left2, Left1
<1>3. CASE m = 2
  <2>1. 4 \notin U /\ 4 \notin V /\ 3 \notin U /\ 3 \notin V /\ 2 \in U /\ 2 \notin V /\ (1 \in U <=> 1 \in V)
    BY <1>3
  <2> QED
    BY <1>3, <2>1, Zenon DEF Left, Left3, Left2, Left1
<1>4. CASE m = 1
  <2>1. 4 \notin U /\ 4 \notin V /\ 3 \notin U /\ 3 \notin V /\ 2 \notin U /\ 2 \notin V /\ 1 \in U /\ 1 \notin V
    BY <1>4
  <2> QED
    BY <1>4, <2>1, Zenon DEF Left, Left3, Left2, Left1
<1>5. m = 1 \/ m = 2 \/ m = 3 \/ m = 4
  OBVIOUS
<1> QED
  BY <1>1, <1>2, <1>3, <1>4, <1>5

\* It is the greatest.
LEMMA LeftLast ==
  ASSUME NEW items, NEW tail, NEW own, NEW U \in SUBSET (1..4), U # {}
  PROVE  Left(items, tail, own, U)
           = Keeps(tail, own, Left(items, tail, own, U \ {Scans!Max(U)}), items[Scans!Max(U)])
<1>1. PICK m : m = Scans!Max(U)
  OBVIOUS
<1>2. m \in U /\ \A y \in U : m >= y
  BY <1>1, MaxOfFew
<1>3. m \in 1..4 /\ m \notin U \ {m}
  BY <1>2
<1>4. \A y \in 1..4 : y > m => y \notin U /\ y \notin U \ {m}
  BY <1>2
<1>5. \A y \in 1..4 : y < m => (y \in U <=> y \in U \ {m})
  BY <1>2
<1>6. Left(items, tail, own, U) = Keeps(tail, own, Left(items, tail, own, U \ {m}), items[m])
  BY <1>2, <1>3, <1>4, <1>5, LeftTop
<1> QED
  BY <1>1, <1>6

\* So the fold of up to four lines is what is left of them.
LEMMA FoldFew ==
  ASSUME NEW items, NEW tail, NEW own, NEW n \in 0..4, DOMAIN items = 1..n
  PROVE  /\ \E f : f = FoldOf(items, tail, own, f)
         /\ \A f : f = FoldOf(items, tail, own, f) => f[1..n] = Left(items, tail, own, 1..n)
<1> DEFINE h == [U \in SUBSET (1..n) |-> Left(items, tail, own, U)]
<1>1. 1..n \subseteq 1..4
  OBVIOUS
<1>2. Left(items, tail, own, {}) = <<>>
  BY DEF Left, Left3, Left2, Left1
<1>3. ASSUME NEW U \in SUBSET (1..n), U # {}
      PROVE  /\ Scans!Max(U) \in U
             /\ Left(items, tail, own, U)
                  = Keeps(tail, own, Left(items, tail, own, U \ {Scans!Max(U)}), items[Scans!Max(U)])
  BY <1>1, <1>3, LeftLast, MaxOfFew
<1>4. h = FoldOf(items, tail, own, h)
  <2>1. ASSUME NEW U \in SUBSET (1..n)
        PROVE  h[U] = IF U = {} THEN <<>>
                      ELSE Keeps(tail, own, h[U \ {Scans!Max(U)}], items[Scans!Max(U)])
    <3>1. CASE U = {}
      BY <1>2, <3>1
    <3>2. CASE U # {}
      <4>1. U \ {Scans!Max(U)} \in SUBSET (1..n)
        OBVIOUS
      <4>2. h[U] = Left(items, tail, own, U)
            /\ h[U \ {Scans!Max(U)}] = Left(items, tail, own, U \ {Scans!Max(U)})
        BY <4>1
      <4> HIDE DEF h
      <4> QED
        BY <1>3, <3>2, <4>2
    <3> QED
      BY <3>1, <3>2
  <2>2. h = [U \in SUBSET (1..n) |-> h[U]]
    OBVIOUS
  <2> HIDE DEF h
  <2> QED
    BY <2>1, <2>2 DEF FoldOf
<1>5. ASSUME NEW f, f = FoldOf(items, tail, own, f)
      PROVE  f[1..n] = Left(items, tail, own, 1..n)
  <2>1. ASSUME NEW U \in SUBSET (1..n)
        PROVE  f[U] = IF U = {} THEN <<>>
                      ELSE Keeps(tail, own, f[U \ {Scans!Max(U)}], items[Scans!Max(U)])
    <3> DEFINE F == FoldOf(items, tail, own, f)
    <3>1. F[U] = IF U = {} THEN <<>>
                 ELSE Keeps(tail, own, f[U \ {Scans!Max(U)}], items[Scans!Max(U)])
      BY DEF FoldOf
    <3> HIDE DEF F
    <3> QED
      BY <1>5, <3>1 DEF F
  <2>2. ASSUME NEW U \in SUBSET (1..n), U # {},
               f[U \ {Scans!Max(U)}] = Left(items, tail, own, U \ {Scans!Max(U)})
        PROVE  f[U] = Left(items, tail, own, U)
    BY <1>3, <2>1, <2>2
  <2>3. f[{}] = Left(items, tail, own, {})
    BY <1>2, <2>1
  <2> DEFINE Done(k) == f[1..k] = Left(items, tail, own, 1..k)
  <2>4. ASSUME NEW k \in 1..n, NEW j \in Nat, k = j + 1, Done(j) PROVE Done(k)
    <3>1. (1..k) \in SUBSET (1..n) /\ (1..k) \in SUBSET (1..4) /\ 1..k # {}
      OBVIOUS
    <3>2. Scans!Max(1..k) \in 1..k /\ \A y \in 1..k : Scans!Max(1..k) >= y
      BY <3>1, MaxOfFew
    <3>3. Scans!Max(1..k) = k
      BY <3>2
    <3>4. j = k - 1 /\ (1..k) \ {k} = 1..j
      <4>1. j = k - 1
        BY <2>4
      <4> QED
        BY <4>1
    <3> QED
      BY <2>2, <2>4, <3>1, <3>3, <3>4
  <2>5. Done(0)
    <3>1. 1..0 = {}
      OBVIOUS
    <3> QED
      BY <2>3, <3>1
  <2> HIDE DEF Done
  <2>6. n >= 1 => Done(1)
    BY <2>4, <2>5, 1 = 0 + 1
  <2>7. n >= 2 => Done(2)
    BY <2>4, <2>6, 2 = 1 + 1
  <2>8. n >= 3 => Done(3)
    BY <2>4, <2>7, 3 = 2 + 1
  <2>9. n >= 4 => Done(4)
    BY <2>4, <2>8, 4 = 3 + 1
  <2>10. n = 0 \/ n = 1 \/ n = 2 \/ n = 3 \/ n = 4
    OBVIOUS
  <2>11. Done(n)
    BY <2>5, <2>6, <2>7, <2>8, <2>9, <2>10
  <2> QED
    BY <2>11 DEF Done
<1> QED
  BY <1>4, <1>5

\* What the filters leave of up to four lines.
LEMMA FilterFew ==
  ASSUME NEW items, NEW before, NEW n \in 0..4, DOMAIN items = 1..n
  PROVE  /\ Scans!DedupeSelf(items) = Left(items, {}, TRUE, 1..n)
         /\ Scans!DedupeBoundary(before, items) = Left(items, LastOf(before), FALSE, 1..n)
<1>1. \A f : SelfFold(items, f) = FoldOf(items, {}, TRUE, f)
  BY DEF SelfFold, FoldOf, Keeps, Lately
<1>2. \A f : TailFold(LastOf(before), items, f) = FoldOf(items, LastOf(before), FALSE, f)
  BY DEF TailFold, FoldOf, Keeps, Lately
<1>3. Scans!DedupeSelf(items) = Left(items, {}, TRUE, 1..n)
  <2> DEFINE g == CHOOSE f : f = SelfFold(items, f)
  <2>1. \E f : f = SelfFold(items, f)
    <3>1. \E f : f = FoldOf(items, {}, TRUE, f)
      BY FoldFew
    <3> QED
      BY <1>1, <3>1
  <2>2. g = SelfFold(items, g)
    BY <2>1, Zenon
  <2>3. Scans!DedupeSelf(items) = g[1..n]
    BY SelfIs
  <2> HIDE DEF g
  <2>4. g = FoldOf(items, {}, TRUE, g)
    BY <1>1, <2>2
  <2>5. g[1..n] = Left(items, {}, TRUE, 1..n)
    BY <2>4, FoldFew
  <2> QED
    BY <2>3, <2>5
<1>4. Scans!DedupeBoundary(before, items) = Left(items, LastOf(before), FALSE, 1..n)
  <2> DEFINE g == CHOOSE f : f = TailFold(LastOf(before), items, f)
  <2>1. \E f : f = TailFold(LastOf(before), items, f)
    <3>1. \E f : f = FoldOf(items, LastOf(before), FALSE, f)
      BY FoldFew
    <3> QED
      BY <1>2, <3>1
  <2>2. g = TailFold(LastOf(before), items, g)
    BY <2>1, Zenon
  <2>3. Scans!DedupeBoundary(before, items) = g[1..n]
    BY BoundaryIs
  <2> HIDE DEF g
  <2> QED
    BY <1>2, <2>2, <2>3, FoldFew
<1> QED
  BY <1>3, <1>4

\* The lines of short lists.
LEMMA FewLines ==
  ASSUME NEW a, NEW b
  PROVE  Scans!ToSet(<<>>) = {} /\ Scans!ToSet(<<a>>) = {a} /\ Scans!ToSet(<<a, b>>) = {a, b}
<1>1. Scans!ToSet(<<>>) = {}
  BY DEF Scans!ToSet
<1>2. Scans!ToSet(<<a>>) = {a}
  BY DEF Scans!ToSet
<1>3. Scans!ToSet(<<a, b>>) = {a, b}
  <2> DEFINE q == <<a, b>>
  <2>1. DOMAIN q = {1, 2} /\ q[1] = a /\ q[2] = b
    OBVIOUS
  <2> HIDE DEF q
  <2>2. Scans!ToSet(q) = {a, b}
    BY <2>1 DEF Scans!ToSet
  <2> QED
    BY <2>2 DEF q
<1> QED
  BY <1>1, <1>2, <1>3

\* A list with a line more.
LEMMA AddedLine ==
  ASSUME NEW q \in Seq(Nat), NEW b \in Nat
  PROVE  /\ Append(q, b) \in Seq(Nat) /\ Len(Append(q, b)) = Len(q) + 1
         /\ Append(q, b)[Len(q) + 1] = b
         /\ \A j \in 1..Len(q) : Append(q, b)[j] = q[j]
<1>1. Append(q, b) \in Seq(Nat)
  OBVIOUS
<1>2. Len(Append(q, b)) = Len(q) + 1
  OBVIOUS
<1>3. Append(q, b)[Len(q) + 1] = b
  OBVIOUS
<1>4. \A j \in 1..Len(q) : Append(q, b)[j] = q[j]
  OBVIOUS
<1> QED
  BY <1>1, <1>2, <1>3, <1>4

\* Short lists with a line more.
LEMMA AppendFew ==
  ASSUME NEW a \in Nat, NEW b \in Nat
  PROVE  Append(<<>>, a) = <<a>> /\ Append(<<a>>, b) = <<a, b>>
<1>1. Append(<<>>, a) = <<a>>
  OBVIOUS
<1>2. Append(<<a>>, b) = <<a, b>>
  <2> DEFINE q == <<a>>
             r == <<a, b>>
             s == Append(q, b)
  <2>1. Len(q) = 1 /\ q[1] = a /\ q \in Seq(Nat)
    OBVIOUS
  <2>2. Len(r) = 2 /\ r[1] = a /\ r[2] = b /\ r \in Seq(Nat)
    OBVIOUS
  <2> HIDE DEF q, r
  <2>3. /\ s \in Seq(Nat) /\ Len(s) = Len(q) + 1 /\ s[Len(q) + 1] = b
        /\ \A j \in 1..Len(q) : s[j] = q[j]
    BY <2>1, AddedLine
  <2> HIDE DEF s
  <2>4. Len(s) = 2 /\ s[1] = a /\ s[2] = b
    BY <2>1, <2>3
  <2>5. s = r
    BY <2>2, <2>3, <2>4, SeqEqual
  <2> QED
    BY <2>5 DEF q, r, s
<1> QED
  BY <1>1, <1>2

\* What is left of one, two and four lines.
LEMMA LeftOfFew ==
  ASSUME NEW q, NEW tail, NEW own
  PROVE  /\ Left(q, tail, own, 1..0) = <<>>
         /\ Left(q, tail, own, 1..1) = Keeps(tail, own, <<>>, q[1])
         /\ Left(q, tail, own, 1..2) = Keeps(tail, own, Keeps(tail, own, <<>>, q[1]), q[2])
         /\ Left(q, tail, own, 1..4)
              = Keeps(tail, own, Keeps(tail, own, Keeps(tail, own, Keeps(tail, own, <<>>, q[1]), q[2]), q[3]), q[4])
<1>1. 1 \notin 1..0 /\ 2 \notin 1..0 /\ 3 \notin 1..0 /\ 4 \notin 1..0
  OBVIOUS
<1>2. 1 \in 1..1 /\ 2 \notin 1..1 /\ 3 \notin 1..1 /\ 4 \notin 1..1
  OBVIOUS
<1>3. 1 \in 1..2 /\ 2 \in 1..2 /\ 3 \notin 1..2 /\ 4 \notin 1..2
  OBVIOUS
<1>4. 1 \in 1..4 /\ 2 \in 1..4 /\ 3 \in 1..4 /\ 4 \in 1..4
  OBVIOUS
<1> DEFINE Few(n) == Left(q, tail, own, 1..n)
<1>5. Few(0) = <<>>
  BY <1>1, Zenon DEF Left, Left3, Left2, Left1
<1>6. Few(1) = Keeps(tail, own, <<>>, q[1])
  BY <1>2, Zenon DEF Left, Left3, Left2, Left1
<1>7. Few(2) = Keeps(tail, own, Keeps(tail, own, <<>>, q[1]), q[2])
  BY <1>3, Zenon DEF Left, Left3, Left2, Left1
<1>8. Few(4) = Keeps(tail, own, Keeps(tail, own, Keeps(tail, own, Keeps(tail, own, <<>>, q[1]), q[2]), q[3]), q[4])
  BY <1>4, Zenon DEF Left, Left3, Left2, Left1
<1> QED
  BY <1>5, <1>6, <1>7, <1>8

\* Of a strip's two lines, each once or twice, both are left once.
LEMMA SelfLeaves ==
  ASSUME NEW i \in Nat
  PROVE  /\ Scans!DedupeSelf(<<>>) = <<>>
         /\ Scans!DedupeSelf(<<i>>) = <<i>>
         /\ Scans!DedupeSelf(<<i, i + 1>>) = <<i, i + 1>>
         /\ Scans!DedupeSelf(<<i, i + 1, i, i + 1>>) = <<i, i + 1>>
<1>1. /\ Keeps({}, TRUE, <<>>, i) = <<i>>
      /\ Keeps({}, TRUE, <<i>>, i + 1) = <<i, i + 1>>
      /\ Keeps({}, TRUE, <<i, i + 1>>, i) = <<i, i + 1>>
      /\ Keeps({}, TRUE, <<i, i + 1>>, i + 1) = <<i, i + 1>>
  <2>1. Scans!ToSet(<<>>) = {} /\ Scans!ToSet(<<i>>) = {i} /\ Scans!ToSet(<<i, i + 1>>) = {i, i + 1}
    BY FewLines
  <2>2. Append(<<>>, i) = <<i>> /\ Append(<<i>>, i + 1) = <<i, i + 1>> /\ i # i + 1
    BY AppendFew
  <2> QED
    BY <2>1, <2>2 DEF Keeps, Lately, Alike
<1>2. Scans!DedupeSelf(<<>>) = <<>>
  <2>1. DOMAIN <<>> = 1..0 /\ 0 \in 0..4
    OBVIOUS
  <2>2. Scans!DedupeSelf(<<>>) = Left(<<>>, {}, TRUE, 1..0)
    BY <2>1, FilterFew
  <2> QED
    BY <2>2 DEF Left, Left3, Left2, Left1
<1>3. Scans!DedupeSelf(<<i>>) = <<i>>
  <2> DEFINE q == <<i>>
  <2>1. DOMAIN q = 1..1 /\ 1 \in 0..4 /\ q[1] = i
    OBVIOUS
  <2> HIDE DEF q
  <2>2. Scans!DedupeSelf(q) = Left(q, {}, TRUE, 1..1)
    BY <2>1, FilterFew
  <2>3. Left(q, {}, TRUE, 1..1) = <<i>>
    BY <1>1, <2>1, LeftOfFew
  <2> QED
    BY <2>2, <2>3 DEF q
<1>4. Scans!DedupeSelf(<<i, i + 1>>) = <<i, i + 1>>
  <2> DEFINE q == <<i, i + 1>>
  <2>1. DOMAIN q = 1..2 /\ 2 \in 0..4 /\ q[1] = i /\ q[2] = i + 1
    OBVIOUS
  <2> HIDE DEF q
  <2>2. Scans!DedupeSelf(q) = Left(q, {}, TRUE, 1..2)
    BY <2>1, FilterFew
  <2>3. Left(q, {}, TRUE, 1..2) = <<i, i + 1>>
    BY <1>1, <2>1, LeftOfFew
  <2> QED
    BY <2>2, <2>3 DEF q
<1>5. Scans!DedupeSelf(<<i, i + 1, i, i + 1>>) = <<i, i + 1>>
  <2> DEFINE q == <<i, i + 1, i, i + 1>>
  <2>1. DOMAIN q = 1..4 /\ 4 \in 0..4 /\ q[1] = i /\ q[2] = i + 1 /\ q[3] = i /\ q[4] = i + 1
    OBVIOUS
  <2> HIDE DEF q
  <2>2. Scans!DedupeSelf(q) = Left(q, {}, TRUE, 1..4)
    BY <2>1, FilterFew
  <2>3. Left(q, {}, TRUE, 1..4) = <<i, i + 1>>
    BY <1>1, <2>1, LeftOfFew
  <2> QED
    BY <2>2, <2>3 DEF q
<1> QED
  BY <1>2, <1>3, <1>4, <1>5

\* What the other strip has of them, near its end, is left out.
LEMMA BoundaryLeaves ==
  ASSUME NEW i \in Nat, NEW before, i + 1 \notin LastOf(before)
  PROVE  /\ Scans!DedupeBoundary(before, <<>>) = <<>>
         /\ Scans!DedupeBoundary(before, <<i>>) = IF i \in LastOf(before) THEN <<>> ELSE <<i>>
         /\ Scans!DedupeBoundary(before, <<i, i + 1>>)
              = IF i \in LastOf(before) THEN <<i + 1>> ELSE <<i, i + 1>>
<1> DEFINE T == LastOf(before)
<1>1. /\ Keeps(T, FALSE, <<>>, i) = IF i \in T THEN <<>> ELSE <<i>>
      /\ Keeps(T, FALSE, <<>>, i + 1) = <<i + 1>>
      /\ Keeps(T, FALSE, <<i>>, i + 1) = <<i, i + 1>>
  <2>1. Append(<<>>, i) = <<i>> /\ Append(<<>>, i + 1) = <<i + 1>> /\ Append(<<i>>, i + 1) = <<i, i + 1>>
    BY AppendFew
  <2>2. i + 1 \notin T
    OBVIOUS
  <2> HIDE DEF T
  <2> QED
    BY <2>1, <2>2 DEF Keeps, Lately, Alike
<1> HIDE DEF T
<1>2. Scans!DedupeBoundary(before, <<>>) = <<>>
  <2>1. DOMAIN <<>> = 1..0 /\ 0 \in 0..4
    OBVIOUS
  <2>2. Scans!DedupeBoundary(before, <<>>) = Left(<<>>, T, FALSE, 1..0)
    BY <2>1, FilterFew DEF T
  <2> QED
    BY <2>2 DEF Left, Left3, Left2, Left1
<1>3. Scans!DedupeBoundary(before, <<i>>) = IF i \in T THEN <<>> ELSE <<i>>
  <2> DEFINE q == <<i>>
  <2>1. DOMAIN q = 1..1 /\ 1 \in 0..4 /\ q[1] = i
    OBVIOUS
  <2> HIDE DEF q
  <2>2. Scans!DedupeBoundary(before, q) = Left(q, T, FALSE, 1..1)
    BY <2>1, FilterFew DEF T
  <2>3. Left(q, T, FALSE, 1..1) = IF i \in T THEN <<>> ELSE <<i>>
    BY <1>1, <2>1, LeftOfFew
  <2> QED
    BY <2>2, <2>3 DEF q
<1>4. Scans!DedupeBoundary(before, <<i, i + 1>>) = IF i \in T THEN <<i + 1>> ELSE <<i, i + 1>>
  <2> DEFINE q == <<i, i + 1>>
  <2>1. DOMAIN q = 1..2 /\ 2 \in 0..4 /\ q[1] = i /\ q[2] = i + 1
    OBVIOUS
  <2> HIDE DEF q
  <2>2. Scans!DedupeBoundary(before, q) = Left(q, T, FALSE, 1..2)
    BY <2>1, FilterFew DEF T
  <2>3. Left(q, T, FALSE, 1..2) = IF i \in T THEN <<i + 1>> ELSE <<i, i + 1>>
    BY <1>1, <2>1, LeftOfFew
  <2> QED
    BY <2>2, <2>3 DEF q
<1> QED
  BY <1>2, <1>3, <1>4 DEF T

\* The strips of a photo go from its top to its bottom, and what is cut by the
\* end of one is whole in the next (_split_into_strips).
THEOREM StripsCover == ASSUME NEW h \in Nat PROVE Scans!WholeLines(h)
<1>1. CASE h <= 1170
  BY <1>1 DEF Scans!WholeLines, Scans!SplitIntoStrips, Scans!CHUNK_THRESHOLD
<1>2. CASE h > 1170
  <2> DEFINE n == Scans!Smaller(10, Scans!Larger(2, Scans!RoundDiv(h, 900)))
             step == Scans!CeilDiv(h, n)
             m == Scans!Smaller(n, Scans!CeilDiv(h, step))
             Band(i) == [top |-> IF i = 1 THEN 0 ELSE (i - 1) * step - 80,
                         bottom |-> Scans!Smaller(h, Scans!Smaller(h, i * step) + 80)]
             strips == [i \in 1..m |-> Band(i)]
  <2>1. Scans!SplitIntoStrips(h) = strips
    BY <1>2 DEF Scans!SplitIntoStrips, Scans!CHUNK_THRESHOLD, Scans!MAX_STRIPS,
         Scans!TARGET_STRIP_HEIGHT, Scans!STRIP_OVERLAP
  <2>2. n \in 2..10
    BY DEF Scans!Smaller, Scans!Larger, Scans!RoundDiv
  <2>3. step \in Nat /\ step > 0 /\ n * step >= h
    <3> HIDE DEF n
    <3> QED
      BY <1>2, <2>2 DEF Scans!CeilDiv
  <2> HIDE DEF n
  <2>4. m \in Nat /\ m >= 1 /\ m * step >= h
    <3> HIDE DEF step
    <3> QED
      BY <1>2, <2>2, <2>3 DEF Scans!CeilDiv, Scans!Smaller
  <2> HIDE DEF m, step
  <2>5. Len(strips) = m
    BY <2>4
  <2>6. strips[1].top = 0 /\ strips[m].bottom = h
    BY <1>2, <2>3, <2>4 DEF Scans!Smaller
  <2>7. ASSUME NEW i \in 1..(m - 1)
        PROVE  strips[i].bottom - strips[i + 1].top >= 160 \/ strips[i].bottom = h
    <3>1. i \in 1..m /\ i + 1 \in 1..m /\ i + 1 # 1 /\ (i + 1) - 1 = i /\ i * step \in Nat
      BY <2>3, <2>4
    <3>2. strips[i].bottom = Scans!Smaller(h, Scans!Smaller(h, i * step) + 80)
          /\ strips[i + 1].top = i * step - 80
      BY <3>1
    <3> HIDE DEF strips
    <3> QED
      BY <3>1, <3>2 DEF Scans!Smaller
  <2> HIDE DEF strips
  <2> QED
    BY <2>1, <2>5, <2>6, <2>7 DEF Scans!WholeLines, Scans!STRIP_OVERLAP
<1> QED
  BY <1>1, <1>2

\* Lines listed from the top of the photo to its bottom.
Rising(q) == q \in Seq(Nat) /\ \A a, b \in 1..Len(q) : a < b => q[a] < q[b]

LEMMA RisingMore ==
  ASSUME NEW q, Rising(q), NEW x \in Nat, \A a \in 1..Len(q) : q[a] < x
  PROVE  Rising(Append(q, x)) /\ Scans!ToSet(Append(q, x)) = Scans!ToSet(q) \union {x}
<1>1. q \in Seq(Nat) /\ Len(q) \in Nat /\ DOMAIN q = 1..Len(q) /\ \A a \in 1..Len(q) : q[a] \in Nat
  BY DEF Rising
<1> DEFINE r == Append(q, x)
<1>2. /\ r \in Seq(Nat) /\ Len(r) = Len(q) + 1 /\ r[Len(q) + 1] = x
      /\ \A a \in 1..Len(q) : r[a] = q[a]
  BY <1>1, AddedLine
<1>3. DOMAIN r = 1..Len(r)
  BY <1>2
<1> HIDE DEF r
<1>4. Rising(r)
  <2> SUFFICES ASSUME NEW a \in 1..Len(r), NEW b \in 1..Len(r), a < b PROVE r[a] < r[b]
    BY <1>2 DEF Rising
  <2>1. a \in 1..Len(q) /\ r[a] = q[a]
    BY <1>1, <1>2
  <2>2. CASE b = Len(q) + 1
    BY <1>2, <2>1, <2>2
  <2>3. CASE b # Len(q) + 1
    <3>1. b \in 1..Len(q)
      <4>1. b \in 1..(Len(q) + 1) /\ Len(q) \in Nat
        BY <1>1, <1>2
      <4> HIDE DEF r
      <4> QED
        BY ONLY <4>1, <2>3
    <3>2. r[b] = q[b]
      BY <1>2, <3>1
    <3> QED
      BY <2>1, <3>1, <3>2 DEF Rising
  <2> QED
    BY <2>2, <2>3
<1>5. Scans!ToSet(r) = Scans!ToSet(q) \union {x}
  <2>1. 1..Len(r) = (1..Len(q)) \union {Len(q) + 1}
    BY <1>1, <1>2
  <2> QED
    BY <1>1, <1>2, <1>3, <2>1 DEF Scans!ToSet
<1> QED
  BY <1>4, <1>5 DEF r

\* A list with few lines more.
LEMMA JoinFew ==
  ASSUME NEW q \in Seq(Nat), NEW x \in Nat, NEW y \in Nat
  PROVE  q \o <<>> = q /\ q \o <<x>> = Append(q, x) /\ q \o <<x, y>> = Append(Append(q, x), y)
<1>1. q \o <<>> = q
  OBVIOUS
<1>2. q \o <<x>> = Append(q, x)
  BY AppendIsConcat
<1>3. q \o <<x, y>> = Append(Append(q, x), y)
  <2> DEFINE p == <<x, y>>
             l == q \o p
             m == Append(q, x)
             r == Append(m, y)
  <2>1. p \in Seq(Nat) /\ Len(p) = 2 /\ p[1] = x /\ p[2] = y
    OBVIOUS
  <2> HIDE DEF p
  <2>2. /\ l \in Seq(Nat) /\ Len(l) = Len(q) + Len(p)
        /\ \A a \in 1..(Len(q) + Len(p)) : l[a] = IF a <= Len(q) THEN q[a] ELSE p[a - Len(q)]
    BY <2>1, ConcatProperties
  <2>3. /\ m \in Seq(Nat) /\ Len(m) = Len(q) + 1 /\ m[Len(q) + 1] = x
        /\ \A a \in 1..Len(q) : m[a] = q[a]
    BY AddedLine
  <2> HIDE DEF l, m
  <2>4. /\ r \in Seq(Nat) /\ Len(r) = Len(m) + 1 /\ r[Len(m) + 1] = y
        /\ \A a \in 1..Len(m) : r[a] = m[a]
    BY <2>3, AddedLine
  <2> HIDE DEF r
  <2>5. Len(l) = Len(q) + 2 /\ Len(r) = Len(q) + 2 /\ Len(q) \in Nat
    BY <2>1, <2>2, <2>3, <2>4
  <2>6. ASSUME NEW a \in 1..Len(l) PROVE l[a] = r[a]
    <3>0. a \in 1..(Len(q) + Len(p))
      BY <2>1, <2>5
    <3>1. CASE a <= Len(q)
      <4>1. a \in 1..Len(q) /\ a \in 1..Len(m)
        BY <2>3, <2>5, <3>1
      <4>2. l[a] = q[a]
        BY <2>2, <3>0, <3>1
      <4>3. r[a] = q[a]
        BY <2>3, <2>4, <4>1
      <4> QED
        BY <4>2, <4>3
    <3>2. CASE a = Len(q) + 1
      <4>1. l[a] = p[1]
        <5>1. ~ (a <= Len(q)) /\ a - Len(q) = 1
          BY <2>5, <3>2
        <5> QED
          BY <2>2, <3>0, <5>1
      <4>2. r[a] = x
        BY <2>3, <2>4, <2>5, <3>2
      <4> QED
        BY <2>1, <4>1, <4>2
    <3>3. CASE a = Len(q) + 2
      <4>1. l[a] = p[2]
        <5>1. ~ (a <= Len(q)) /\ a - Len(q) = 2
          BY <2>5, <3>3
        <5> QED
          BY <2>2, <3>0, <5>1
      <4>2. r[a] = y
        <5>1. a = Len(m) + 1
          BY <2>3, <2>5, <3>3
        <5> QED
          BY <2>4, <5>1
      <4> QED
        BY <2>1, <4>1, <4>2
    <3> QED
      BY <2>5, <3>1, <3>2, <3>3
  <2>7. l = r
    BY <2>2, <2>4, <2>5, <2>6, SeqEqual
  <2> QED
    BY <2>7 DEF l, m, p, r
<1> QED
  BY <1>1, <1>2, <1>3

\* What goes from the top to the bottom is listed once.
LEMMA RisingOnce ==
  ASSUME NEW q, Rising(q)
  PROVE  Cardinality(Scans!ToSet(q)) = Len(q)
<1>1. q \in Seq(Nat) /\ Len(q) \in Nat /\ DOMAIN q = 1..Len(q) /\ \A a \in 1..Len(q) : q[a] \in Nat
  BY DEF Rising
<1>2. ASSUME NEW a \in 1..Len(q), NEW b \in 1..Len(q), q[a] = q[b] PROVE a = b
  BY <1>1, <1>2 DEF Rising
<1> DEFINE S == 1..Len(q)
           T == Scans!ToSet(q)
           f == [a \in S |-> q[a]]
<1>3. T = {q[a] : a \in S}
  BY <1>1 DEF Scans!ToSet
<1>4. IsFiniteSet(S) /\ Cardinality(S) = Len(q)
  <2>1. 1 \in Int /\ Len(q) \in Int
    BY <1>1
  <2>2. IsFiniteSet(1..Len(q)) /\ Cardinality(1..Len(q)) = IF 1 > Len(q) THEN 0 ELSE Len(q) - 1 + 1
    BY <2>1, FS_Interval
  <2> QED
    BY <1>1, <2>2
<1>5. f \in Bijection(S, T)
  <2>1. f \in [S -> T]
    BY <1>3
  <2>2. \A a, b \in S : f[a] = f[b] => a = b
    BY <1>2
  <2>3. \A y \in T : \E a \in S : f[a] = y
    BY <1>3
  <2> HIDE DEF S, T, f
  <2> QED
    BY <2>1, <2>2, <2>3, Zenon DEF Bijection, Injection, Surjection, IsInjective
<1> HIDE DEF S, T, f
<1>6. Cardinality(T) = Cardinality(S)
  BY <1>4, <1>5, FS_Bijection DEF ExistsBijection
<1> QED
  BY <1>4, <1>6 DEF T

\* The lines that the strips of a photo show, of those read.
Shown(h, read) == UNION {Scans!ToSet(LinesOf(h, i)) : i \in read}

\* What a scan lists when it has done with the strips up to one of them.
Listed(items, read, stuck, h, upto) ==
  /\ Rising(items)
  /\ \A a \in 1..Len(items) : items[a] <= upto + 1
  /\ read \subseteq 1..upto
  /\ Scans!ToSet(items) \subseteq Shown(h, read)
  /\ stuck = FALSE => Scans!ToSet(items) = Shown(h, read)

\* An answer to few lines, cut where the model got stuck.
LEMMA CutFew ==
  ASSUME NEW i \in Nat
  PROVE  /\ Scans!CutRun(<<>>) = <<>>
         /\ Scans!CutRun(<<i, i + 1>>) = <<i, i + 1>>
         /\ Scans!CutRun(<<i, i + 1, i, i + 1>>) = <<i, i + 1, i, i + 1>>
         /\ Scans!CutRun(<<i, i + 1, i + 1, i + 1, i + 1>>) = <<i>>
<1> DEFINE Stuck(q) == {k \in 1..Len(q) : k + 3 <= Len(q) /\ \A j \in 1..3 : q[k + j] = q[k]}
<1>1. Scans!CutRun(<<>>) = <<>>
  <2>1. Stuck(<<>>) = {}
    OBVIOUS
  <2> QED
    BY <2>1 DEF Scans!CutRun
<1>2. Scans!CutRun(<<i, i + 1>>) = <<i, i + 1>>
  <2>1. Stuck(<<i, i + 1>>) = {}
    OBVIOUS
  <2> QED
    BY <2>1 DEF Scans!CutRun
<1>3. Scans!CutRun(<<i, i + 1, i, i + 1>>) = <<i, i + 1, i, i + 1>>
  <2> DEFINE q == <<i, i + 1, i, i + 1>>
  <2>1. Len(q) = 4 /\ q[1] = i /\ q[2] = i + 1
    OBVIOUS
  <2> HIDE DEF q
  <2>2. Stuck(q) = {}
    <3> SUFFICES ASSUME NEW k \in 1..Len(q), k + 3 <= Len(q), \A j \in 1..3 : q[k + j] = q[k] PROVE FALSE
      OBVIOUS
    <3>1. k = 1 /\ 1 \in 1..3 /\ 1 + 1 = 2
      BY <2>1
    <3>2. q[1 + 1] = q[1]
      BY <3>1
    <3> QED
      BY <2>1, <3>1, <3>2
  <2>3. Scans!CutRun(q) = q
    BY <2>2 DEF Scans!CutRun
  <2> QED
    BY <2>3 DEF q
<1>4. Scans!CutRun(<<i, i + 1, i + 1, i + 1, i + 1>>) = <<i>>
  <2> DEFINE q == <<i, i + 1, i + 1, i + 1, i + 1>>
  <2>1. Len(q) = 5 /\ q[1] = i /\ q[2] = i + 1 /\ q[3] = i + 1 /\ q[4] = i + 1 /\ q[5] = i + 1
    OBVIOUS
  <2>2. SubSeq(q, 1, 1) = <<i>>
    <3> DEFINE p == SubSeq(q, 1, 1)
               o == <<i>>
    <3>1. o \in Seq(Nat) /\ Len(o) = 1 /\ o[1] = i
      OBVIOUS
    <3>2. \A k \in 1..1 : q[k] \in Nat
      BY <2>1
    <3> HIDE DEF q
    <3>3. p \in Seq(Nat) /\ Len(p) = 1 /\ p[1] = q[1]
      <4>1. 1 \in Int /\ 1 <= 1 /\ 1 - 1 + 1 = 1 /\ 1 + 1 - 1 = 1 /\ 1 \in 1..1
        OBVIOUS
      <4>2. /\ p \in Seq(Nat)
            /\ Len(p) = IF 1 <= 1 THEN 1 - 1 + 1 ELSE 0
            /\ \A k \in 1..(1 - 1 + 1) : p[k] = q[1 + k - 1]
        BY <3>2, <4>1, SubSeqProperties
      <4> HIDE DEF p
      <4> QED
        BY <4>1, <4>2
    <3> HIDE DEF p, o
    <3>4. p = o
      BY <2>1, <3>1, <3>3, SeqEqual
    <3> QED
      BY <3>4 DEF p, o
  <2> HIDE DEF q
  <2>3. 2 \in Stuck(q)
    <3>1. \A j \in 1..3 : 2 + j = 3 \/ 2 + j = 4 \/ 2 + j = 5
      OBVIOUS
    <3>2. \A j \in 1..3 : q[2 + j] = q[2]
      BY <2>1, <3>1
    <3> QED
      BY <2>1, <3>2
  <2>4. ASSUME NEW k \in Stuck(q) PROVE k = 2
    <3>1. k \in 1..2
      BY <2>1
    <3>2. 1 \in 1..3 /\ 1 + 1 = 2
      OBVIOUS
    <3>3. k # 1
      BY <2>1, <3>2
    <3> QED
      BY <3>1, <3>3
  <2>5. Stuck(q) = {2}
    BY <2>3, <2>4
  <2> HIDE DEF Stuck
  <2>6. (CHOOSE k \in Stuck(q) : \A j \in Stuck(q) : k <= j) = 2
    BY <2>5
  <2>7. Stuck(q) # {}
    BY <2>3
  <2>8. Scans!CutRun(q) = SubSeq(q, 1, 2 - 1)
    BY <2>6, <2>7 DEF Scans!CutRun, Stuck
  <2> QED
    BY <2>2, <2>8 DEF q
<1> QED
  BY <1>1, <1>2, <1>3, <1>4

\* A strip's lines over again, and with the last three times more.
LEMMA JoinTwo ==
  ASSUME NEW i \in Nat
  PROVE  /\ <<i, i + 1>> \o <<i, i + 1>> = <<i, i + 1, i, i + 1>>
         /\ <<i, i + 1>> \o <<i + 1, i + 1, i + 1>> = <<i, i + 1, i + 1, i + 1, i + 1>>
<1> DEFINE q == <<i, i + 1>>
           o == <<i + 1, i + 1, i + 1>>
           l == <<i, i + 1, i, i + 1>>
           m == <<i, i + 1, i + 1, i + 1, i + 1>>
<1>1. q \in Seq(Nat) /\ Len(q) = 2 /\ q[1] = i /\ q[2] = i + 1
  OBVIOUS
<1>2. o \in Seq(Nat) /\ Len(o) = 3 /\ o[1] = i + 1 /\ o[2] = i + 1 /\ o[3] = i + 1
  OBVIOUS
<1>3. l \in Seq(Nat) /\ Len(l) = 4 /\ l[1] = i /\ l[2] = i + 1 /\ l[3] = i /\ l[4] = i + 1
  OBVIOUS
<1>4. m \in Seq(Nat) /\ Len(m) = 5 /\ m[1] = i /\ \A k \in 2..5 : m[k] = i + 1
  <2>1. m \in Seq(Nat) /\ Len(m) = 5 /\ m[1] = i /\ m[2] = i + 1 /\ m[3] = i + 1 /\ m[4] = i + 1 /\ m[5] = i + 1
    OBVIOUS
  <2> HIDE DEF m
  <2> QED
    BY <2>1
<1> HIDE DEF q, o, l, m
<1>5. q \o q = l
  <2> DEFINE r == q \o q
  <2>1. r \in Seq(Nat) /\ Len(r) = Len(q) + Len(q)
        /\ \A k \in 1..(Len(q) + Len(q)) : r[k] = IF k <= Len(q) THEN q[k] ELSE q[k - Len(q)]
    BY <1>1, ConcatProperties
  <2> HIDE DEF r
  <2>2. Len(r) = 4 /\ \A k \in 1..4 : r[k] = IF k <= 2 THEN q[k] ELSE q[k - 2]
    BY <1>1, <2>1
  <2>3. r[1] = i /\ r[2] = i + 1 /\ r[3] = q[3 - 2] /\ r[4] = q[4 - 2] /\ 3 - 2 = 1 /\ 4 - 2 = 2
    BY <1>1, <2>2
  <2>4. \A k \in 1..4 : r[k] = l[k]
    BY <1>1, <1>3, <2>3
  <2>5. r = l
    BY <1>3, <2>1, <2>2, <2>4, SeqEqual
  <2> QED
    BY <2>5 DEF r
<1>6. q \o o = m
  <2> DEFINE r == q \o o
  <2>1. r \in Seq(Nat) /\ Len(r) = Len(q) + Len(o)
        /\ \A k \in 1..(Len(q) + Len(o)) : r[k] = IF k <= Len(q) THEN q[k] ELSE o[k - Len(q)]
    BY <1>1, <1>2, ConcatProperties
  <2> HIDE DEF r
  <2>2. Len(r) = 5 /\ \A k \in 1..5 : r[k] = IF k <= 2 THEN q[k] ELSE o[k - 2]
    BY <1>1, <1>2, <2>1
  <2>3. /\ r[1] = i /\ r[2] = i + 1 /\ r[3] = o[3 - 2] /\ r[4] = o[4 - 2] /\ r[5] = o[5 - 2]
        /\ 3 - 2 = 1 /\ 4 - 2 = 2 /\ 5 - 2 = 3
    BY <1>1, <2>2
  <2>4. \A k \in 1..5 : r[k] = m[k]
    BY <1>2, <1>4, <2>3
  <2>5. r = m
    BY <1>4, <2>1, <2>2, <2>4, SeqEqual
  <2> QED
    BY <2>5 DEF r
<1> QED
  BY <1>5, <1>6 DEF q, o, l, m

\* What a model answers for a strip.
LEMMA AnswersAre ==
  ASSUME NEW h, NEW i \in Nat, NEW a \in Scans!Answers(LinesOf(h, i))
  PROVE  \/ h = 0 /\ a = <<>>
         \/ h # 0 /\ a \in {<<i, i + 1>>, <<i, i + 1, i, i + 1>>, <<i, i + 1, i + 1, i + 1, i + 1>>}
<1>1. CASE h = 0
  <2>1. LinesOf(h, i) = <<>>
    BY <1>1 DEF LinesOf
  <2>2. {<<>>[k] : k \in {Len(<<>>)} \ {0}} = {} /\ <<>> \o <<>> = <<>>
    OBVIOUS
  <2> QED
    BY <1>1, <2>1, <2>2 DEF Scans!Answers
<1>2. CASE h # 0
  <2> DEFINE q == <<i, i + 1>>
  <2>1. LinesOf(h, i) = q
    BY <1>2 DEF LinesOf
  <2>2. Len(q) = 2 /\ q[2] = i + 1
    OBVIOUS
  <2>3. q \o q = <<i, i + 1, i, i + 1>> /\ q \o <<i + 1, i + 1, i + 1>> = <<i, i + 1, i + 1, i + 1, i + 1>>
    BY JoinTwo
  <2> HIDE DEF q
  <2>4. {q[k] : k \in {Len(q)} \ {0}} = {i + 1}
    BY <2>2
  <2>5. a \in {q, q \o q, q \o <<i + 1, i + 1, i + 1>>}
    BY <2>1, <2>4 DEF Scans!Answers
  <2> QED
    BY <1>2, <2>3, <2>5 DEF q
<1> QED
  BY <1>1, <1>2

\* What is left of it: all of the strip's lines, or those before the model got
\* stuck.
LEMMA WhatIsRead ==
  ASSUME NEW h, NEW i \in Nat, NEW a \in Scans!Answers(LinesOf(h, i))
  PROVE  \/ h = 0 /\ Scans!DedupeSelf(Scans!CutRun(a)) = <<>>
         \/ h # 0 /\ Scans!DedupeSelf(Scans!CutRun(a)) = <<i, i + 1>>
         \/ h # 0 /\ Scans!DedupeSelf(Scans!CutRun(a)) = <<i>> /\ Scans!CutRun(a) # a
<1>1. CASE h = 0 /\ a = <<>>
  BY <1>1, CutFew, SelfLeaves
<1>2. CASE h # 0 /\ a = <<i, i + 1>>
  BY <1>2, CutFew, SelfLeaves
<1>3. CASE h # 0 /\ a = <<i, i + 1, i, i + 1>>
  BY <1>3, CutFew, SelfLeaves
<1>4. CASE h # 0 /\ a = <<i, i + 1, i + 1, i + 1, i + 1>>
  <2>1. <<i>> # <<i, i + 1, i + 1, i + 1, i + 1>>
    OBVIOUS
  <2> QED
    BY <1>4, <2>1, CutFew, SelfLeaves
<1> QED
  BY <1>1, <1>2, <1>3, <1>4, AnswersAre

\* Of lines that go from the top to the bottom, the lowest is among the last.
LEMMA LastLines ==
  ASSUME NEW q, Rising(q), NEW i \in Nat, \A a \in 1..Len(q) : q[a] <= i
  PROVE  /\ LastOf(q) \subseteq Scans!ToSet(q)
         /\ i \in Scans!ToSet(q) => i \in LastOf(q)
<1> DEFINE n == Len(q)
           m == Scans!Larger(1, n + 1 - Lookback)
           p == SubSeq(q, m, n)
<1>1. q \in Seq(Nat) /\ n \in Nat /\ DOMAIN q = 1..n /\ \A a \in 1..n : q[a] \in Nat
  BY DEF Rising
<1>2. Lookback \in Nat /\ Lookback >= 1
  BY ScanAssumption
<1>3. m \in Nat /\ m >= 1 /\ (n >= 1 => m <= n) /\ (n = 0 => m > n)
  <2> HIDE DEF n
  <2> QED
    BY <1>1, <1>2 DEF Scans!Larger
<1>4. LastOf(q) = Scans!ToSet(p)
  BY DEF LastOf
<1> HIDE DEF m
<1>5. /\ p \in Seq(Nat) /\ Len(p) = IF m <= n THEN n - m + 1 ELSE 0
      /\ \A k \in 1..(n - m + 1) : p[k] = q[m + k - 1]
  <2>1. m \in Int /\ n \in Int /\ \A k \in m..n : q[k] \in Nat
    BY <1>1, <1>3
  <2> HIDE DEF n
  <2> QED
    BY <2>1, SubSeqProperties
<1> HIDE DEF n, p
<1>6. DOMAIN p = 1..Len(p)
  BY <1>5
<1>7. ASSUME NEW k \in 1..Len(p) PROVE p[k] = q[m + k - 1] /\ m + k - 1 \in 1..n
  <2>1. n >= 1 /\ k \in 1..(n - m + 1)
    BY <1>1, <1>3, <1>5, <1>7
  <2> QED
    BY <1>1, <1>3, <1>5, <2>1
<1>8. Scans!ToSet(p) \subseteq Scans!ToSet(q)
  BY <1>1, <1>6, <1>7 DEF Scans!ToSet
<1>9. ASSUME i \in Scans!ToSet(q) PROVE i \in Scans!ToSet(p)
  <2>1. PICK a \in 1..n : q[a] = i
    BY <1>1, <1>9 DEF Scans!ToSet
  <2>2. a = n
    <3>1. CASE a < n
      <4>1. n \in 1..n /\ q[a] < q[n]
        BY <1>1, <3>1 DEF Rising, n
      <4>2. q[n] <= i /\ q[n] \in Nat
        BY <1>1, <4>1 DEF n
      <4> QED
        BY <2>1, <4>1, <4>2
    <3> QED
      BY <1>1, <3>1
  <2>3. n >= 1 /\ Len(p) = n - m + 1 /\ Len(p) \in 1..(n - m + 1) /\ m + Len(p) - 1 = n
    BY <1>1, <1>3, <1>5, <2>2
  <2>4. p[Len(p)] = q[n] /\ Len(p) \in 1..Len(p)
    BY <1>5, <2>3
  <2> QED
    BY <1>6, <2>1, <2>2, <2>4 DEF Scans!ToSet
<1> QED
  BY <1>4, <1>8, <1>9

\* A strip that was read adds its lines to the list.
LEMMA ListedMore ==
  ASSUME NEW items, NEW read, NEW stuck \in BOOLEAN, NEW h, NEW j \in Nat,
         Listed(items, read, stuck, h, j), NEW i, i = j + 1,
         NEW a \in Scans!Answers(LinesOf(h, i)),
         NEW fresh, fresh = IF i > 1 THEN Scans!DedupeBoundary(items, Scans!DedupeSelf(Scans!CutRun(a)))
                            ELSE Scans!DedupeSelf(Scans!CutRun(a)),
         NEW bad, bad = (stuck \/ Scans!CutRun(a) # a)
  PROVE  Listed(items \o fresh, read \union {i}, bad, h, i)
<1> DEFINE T == LastOf(items)
           S == Scans!ToSet(items)
           own == Scans!DedupeSelf(Scans!CutRun(a))
           W == Shown(h, read)
           Y == Shown(h, read \union {i})
<1>1. /\ Rising(items) /\ \A k \in 1..Len(items) : items[k] <= i
      /\ read \subseteq 1..j /\ S \subseteq W /\ (stuck = FALSE => S = W) /\ i \in Nat /\ i >= 1
  BY DEF Listed
<1>2. items \in Seq(Nat) /\ Len(items) \in Nat /\ DOMAIN items = 1..Len(items)
      /\ \A k \in 1..Len(items) : items[k] \in Nat
  BY <1>1 DEF Rising
<1>3. T \subseteq S /\ (i \in S => i \in T)
  BY <1>1, LastLines
<1>4. i + 1 \notin T
  <2>1. \A x \in S : x <= i /\ x \in Nat
    BY <1>1, <1>2 DEF Scans!ToSet
  <2> QED
    BY <1>1, <1>3, <2>1
<1>5. Y = W \union (IF h = 0 THEN {} ELSE {i, i + 1})
  <2>1. Scans!ToSet(LinesOf(h, i)) = IF h = 0 THEN {} ELSE {i, i + 1}
    BY FewLines DEF LinesOf
  <2>2. Y = W \union Scans!ToSet(LinesOf(h, i))
    BY DEF Shown
  <2> QED
    BY <2>1, <2>2
<1>6. i = 1 => T = {}
  <2>1. ASSUME i = 1 PROVE W = {}
    <3>1. 1..j = {}
      BY <2>1
    <3> QED
      BY <1>1, <3>1 DEF Shown
  <2> QED
    BY <1>1, <1>3, <2>1
<1>7. fresh = (IF i > 1 THEN Scans!DedupeBoundary(items, own) ELSE own)
  OBVIOUS
<1>8. read \union {i} \subseteq 1..i
  BY <1>1
<1>9. bad \in BOOLEAN /\ (bad = FALSE => stuck = FALSE /\ Scans!CutRun(a) = a)
  OBVIOUS
<1> HIDE DEF T, S, W, Y
<1>10. \/ h = 0 /\ own = <<>>
       \/ h # 0 /\ own = <<i, i + 1>>
       \/ h # 0 /\ own = <<i>> /\ Scans!CutRun(a) # a
  BY <1>1, WhatIsRead
<1>11. /\ Scans!DedupeBoundary(items, <<>>) = <<>>
       /\ Scans!DedupeBoundary(items, <<i>>) = IF i \in T THEN <<>> ELSE <<i>>
       /\ Scans!DedupeBoundary(items, <<i, i + 1>>) = IF i \in T THEN <<i + 1>> ELSE <<i, i + 1>>
  BY <1>1, <1>4, BoundaryLeaves DEF T
<1> HIDE DEF own
<1>12. \/ h = 0 /\ fresh = <<>>
       \/ h # 0 /\ fresh = (IF i \in T THEN <<i + 1>> ELSE <<i, i + 1>>)
       \/ h # 0 /\ fresh = (IF i \in T THEN <<>> ELSE <<i>>) /\ Scans!CutRun(a) # a
  <2>1. CASE i > 1
    BY <1>7, <1>10, <1>11, <2>1
  <2>2. CASE i = 1
    <3>1. ~ (i > 1) /\ i \notin T
      BY <1>6, <2>2
    <3> QED
      BY <1>7, <1>10, <3>1
  <2> QED
    BY <1>1, <2>1, <2>2
\* What has the lines of items, and of what follows.
<1> DEFINE Grown(q, new) == /\ Rising(q) /\ \A k \in 1..Len(q) : q[k] <= i + 1
                            /\ Scans!ToSet(q) = S \union new
<1>13. Grown(items, {})
  BY <1>1, <1>2 DEF S
<1>14. i \notin T => Grown(Append(items, i), {i})
  <2> SUFFICES ASSUME i \notin T PROVE Grown(Append(items, i), {i})
    OBVIOUS
  <2>1. \A k \in 1..Len(items) : items[k] < i
    <3>1. i \notin S
      BY <1>3
    <3>2. \A k \in 1..Len(items) : items[k] # i
      BY <1>2, <3>1 DEF S, Scans!ToSet
    <3> QED
      BY <1>1, <1>2, <3>2
  <2>2. Rising(Append(items, i)) /\ Scans!ToSet(Append(items, i)) = S \union {i}
    BY <1>1, <2>1, RisingMore DEF S
  <2>3. \A k \in 1..Len(Append(items, i)) : Append(items, i)[k] <= i + 1
    <3>1. Scans!ToSet(items) \subseteq 0..i
      BY <1>1, <1>2 DEF Scans!ToSet
    <3> DEFINE q == Append(items, i)
    <3>2. DOMAIN q = 1..Len(q) /\ Scans!ToSet(q) \subseteq 0..i
      BY <1>1, <2>2, <3>1 DEF Rising, S
    <3> HIDE DEF q
    <3>3. \A k \in 1..Len(q) : q[k] \in 0..i
      BY <3>2 DEF Scans!ToSet
    <3> QED
      BY <1>1, <3>3 DEF q
  <2> QED
    BY <2>2, <2>3
<1>15. ASSUME NEW q, Rising(q), \A k \in 1..Len(q) : q[k] <= i, NEW new, Scans!ToSet(q) = S \union new
       PROVE  Grown(Append(q, i + 1), new \union {i + 1})
  <2>1. q \in Seq(Nat) /\ \A k \in 1..Len(q) : q[k] \in Nat
    BY <1>15 DEF Rising
  <2>2. i + 1 \in Nat /\ \A k \in 1..Len(q) : q[k] < i + 1
    BY <1>1, <1>15, <2>1
  <2>3. Rising(Append(q, i + 1)) /\ Scans!ToSet(Append(q, i + 1)) = Scans!ToSet(q) \union {i + 1}
    BY <1>15, <2>2, RisingMore
  <2> DEFINE r == Append(q, i + 1)
  <2>4. Len(r) = Len(q) + 1 /\ r[Len(q) + 1] = i + 1 /\ Len(q) \in Nat
        /\ \A k \in 1..Len(q) : r[k] = q[k]
    BY <2>1, <2>2, AddedLine
  <2> HIDE DEF r
  <2>5. ASSUME NEW k \in 1..Len(r) PROVE r[k] <= i + 1
    <3>1. k \in 1..Len(q) \/ k = Len(q) + 1
      BY <2>4
    <3>2. k \in 1..Len(q) => r[k] = q[k] /\ q[k] < i + 1 /\ q[k] \in Nat
      BY <2>1, <2>2, <2>4
    <3> QED
      BY <1>1, <2>4, <3>1, <3>2
  <2> QED
    BY <1>15, <2>3, <2>5 DEF r
<1>16. i \in T => Grown(Append(items, i + 1), {i + 1})
  <2>1. Scans!ToSet(items) = S \union {}
    BY DEF S
  <2>2. Grown(Append(items, i + 1), {} \union {i + 1})
    BY <1>1, <1>15, <2>1
  <2> QED
    BY <2>2
<1>17. i \notin T => Grown(Append(Append(items, i), i + 1), {i, i + 1})
  <2> SUFFICES ASSUME i \notin T PROVE Grown(Append(Append(items, i), i + 1), {i, i + 1})
    OBVIOUS
  <2> DEFINE q == Append(items, i)
  <2>1. Rising(q) /\ Scans!ToSet(q) = S \union {i}
    BY <1>14
  <2>2. DOMAIN q = 1..Len(q)
    BY <2>1 DEF Rising
  <2> HIDE DEF q
  <2>3. S \subseteq 0..i
    BY <1>1, <1>2 DEF S, Scans!ToSet
  <2>4. \A k \in 1..Len(q) : q[k] \in 0..i
    <3>1. Scans!ToSet(q) \subseteq 0..i
      BY <1>1, <2>1, <2>3
    <3> QED
      BY <2>2, <3>1 DEF Scans!ToSet
  <2>5. \A k \in 1..Len(q) : q[k] <= i
    BY <1>1, <2>4
  <2>6. Grown(Append(q, i + 1), {i} \union {i + 1})
    BY <1>15, <2>1, <2>5
  <2>7. {i} \union {i + 1} = {i, i + 1}
    OBVIOUS
  <2> HIDE DEF Grown
  <2> QED
    BY <2>6, <2>7 DEF q
<1>18. /\ items \o <<>> = items /\ items \o <<i>> = Append(items, i)
       /\ items \o <<i + 1>> = Append(items, i + 1)
       /\ items \o <<i, i + 1>> = Append(Append(items, i), i + 1)
  <2>1. i \in Nat /\ i + 1 \in Nat
    BY <1>1
  <2> QED
    BY <1>2, <2>1, JoinFew
<1>19. \E new : /\ Grown(items \o fresh, new) /\ new \subseteq (IF h = 0 THEN {} ELSE {i, i + 1})
                /\ bad = FALSE => S \union new = S \union (IF h = 0 THEN {} ELSE {i, i + 1})
  <2>0. i \in T => i \in S
    BY <1>3
  <2>1. CASE h = 0 /\ fresh = <<>>
    <3>1. Grown(items \o fresh, {})
      BY <1>13, <1>18, <2>1
    <3> HIDE DEF Grown
    <3> QED
      BY <2>1, <3>1
  <2>2. CASE h # 0 /\ i \in T /\ fresh = <<i + 1>>
    <3>1. Grown(items \o fresh, {i + 1})
      BY <1>16, <1>18, <2>2
    <3> HIDE DEF Grown
    <3>2. S \union {i + 1} = S \union {i, i + 1} /\ {i + 1} \subseteq {i, i + 1}
      BY <2>0, <2>2
    <3> QED
      BY <2>2, <3>1, <3>2
  <2>3. CASE h # 0 /\ i \notin T /\ fresh = <<i, i + 1>>
    <3>1. Grown(items \o fresh, {i, i + 1})
      BY <1>17, <1>18, <2>3
    <3> HIDE DEF Grown
    <3> QED
      BY <2>3, <3>1
  <2>4. CASE h # 0 /\ i \in T /\ fresh = <<>> /\ Scans!CutRun(a) # a
    <3>1. Grown(items \o fresh, {}) /\ bad # FALSE
      BY <1>9, <1>13, <1>18, <2>4
    <3> HIDE DEF Grown
    <3> QED
      BY <2>4, <3>1
  <2>5. CASE h # 0 /\ i \notin T /\ fresh = <<i>> /\ Scans!CutRun(a) # a
    <3>1. Grown(items \o fresh, {i}) /\ bad # FALSE
      BY <1>9, <1>14, <1>18, <2>5
    <3> HIDE DEF Grown
    <3> QED
      BY <2>5, <3>1
  <2> HIDE DEF Grown
  <2> QED
    BY <1>12, <2>1, <2>2, <2>3, <2>4, <2>5
<1>20. PICK new : /\ Grown(items \o fresh, new) /\ new \subseteq (IF h = 0 THEN {} ELSE {i, i + 1})
                  /\ bad = FALSE => S \union new = S \union (IF h = 0 THEN {} ELSE {i, i + 1})
  BY <1>19
<1>21. Scans!ToSet(items \o fresh) \subseteq Y
  BY <1>1, <1>5, <1>20 DEF S, W
<1>22. bad = FALSE => Scans!ToSet(items \o fresh) = Y
  BY <1>1, <1>5, <1>9, <1>20 DEF S, W
<1> QED
  BY <1>8, <1>20, <1>21, <1>22 DEF Listed, Y

\* What a strip that was given up leaves listed.
LEMMA ListedStill ==
  ASSUME NEW items, NEW read, NEW stuck, NEW h, NEW j \in Nat, Listed(items, read, stuck, h, j), NEW i, i = j + 1
  PROVE  Listed(items, read, stuck, h, i)
<1>1. items \in Seq(Nat) /\ \A k \in 1..Len(items) : items[k] \in Nat
  BY DEF Listed, Rising
<1>2. \A k \in 1..Len(items) : items[k] <= i + 1
  BY <1>1 DEF Listed
<1>3. read \subseteq 1..i
  BY DEF Listed
<1> QED
  BY <1>2, <1>3 DEF Listed

-----------------------------------------------------------------------------
(* Scans.                                                                   *)

ScanFields == {"at", "height", "whole", "strip", "start", "offset", "attempt", "items", "read",
               "stuck", "limited", "answer"}

\* Before a strip is read the list has the lines of those above it; an answer
\* has those of all.
Scanning(s) ==
  /\ DOMAIN s = ScanFields
  /\ s.stuck \in BOOLEAN /\ s.whole \in BOOLEAN
  /\ s.at # "idle" => s.height \in Heights /\ s.strip \in Nat \ {0}
  /\ s.whole = FALSE /\ s.at \in {"ask", "wait"} => Listed(s.items, s.read, s.stuck, s.height, s.strip - 1)
  /\ s.whole = FALSE /\ s.at = "done" /\ s.answer = "items" =>
       Listed(s.items, s.read, s.stuck, s.height, s.strip)

ScanInv ==
  /\ DOMAIN scan = Scanners
  /\ \A t \in Scanners : Scanning(scan[t])

\* One thread's scan goes on.
LEMMA OneScan ==
  ASSUME ScanInv, NEW t \in Scanners, NEW s, Scanning(s), scan' = [scan EXCEPT ![t] = s]
  PROVE  ScanInv'
<1>1. DOMAIN scan' = Scanners
  BY DEF ScanInv
<1>2. ASSUME NEW u \in Scanners PROVE Scanning(scan'[u])
  <2>1. CASE u = t
    BY <2>1 DEF ScanInv
  <2>2. CASE u # t
    <3>1. scan'[u] = scan[u]
      BY <2>2 DEF ScanInv
    <3> QED
      BY <3>1 DEF ScanInv
  <2> QED
    BY <2>1, <2>2
<1> QED
  BY <1>1, <1>2 DEF ScanInv

\* Nothing is listed of no strip.
LEMMA NothingListed == ASSUME NEW h PROVE Listed(<<>>, {}, FALSE, h, 0)
<1>1. <<>> \in Seq(Nat) /\ Len(<<>>) = 0 /\ 1..0 = {}
  OBVIOUS
<1>2. Shown(h, {}) = {}
  BY DEF Shown
<1>3. Scans!ToSet(<<>>) = {}
  BY FewLines
<1> QED
  BY <1>1, <1>2, <1>3 DEF Listed, Rising

\* The next strip is asked for.
LEMMA NextStrip ==
  ASSUME NEW s, DOMAIN s = ScanFields, s.stuck \in BOOLEAN, s.whole \in BOOLEAN, s.height \in Heights,
         NEW n \in Nat \ {0},
         s.whole = FALSE => Listed(s.items, s.read, s.stuck, s.height, n - 1)
  PROVE  Scanning(Scans!Call(s, n))
<1> DEFINE c == Scans!Call(s, n)
<1>1. /\ DOMAIN c = ScanFields
      /\ c.at = "ask" /\ c.strip = n /\ c.items = s.items /\ c.read = s.read /\ c.stuck = s.stuck
      /\ c.height = s.height /\ c.whole = s.whole
  BY DEF Scans!Call, ScanFields
<1> HIDE DEF c
<1> QED
  BY <1>1 DEF Scanning, c

\* After a strip the scan is asked for the next, or is done.
LEMMA StripDone ==
  ASSUME ScanInv, NEW t \in Scanners, NEW s, DOMAIN s = ScanFields, s.stuck \in BOOLEAN, s.whole \in BOOLEAN,
         s.height \in Heights, s.strip \in Nat \ {0},
         s.whole = FALSE => Listed(s.items, s.read, s.stuck, s.height, s.strip),
         Scans!After(t, s)
  PROVE  ScanInv'
<1>1. CASE s.strip < Scans!NumStrips(s)
  <2>1. scan' = [scan EXCEPT ![t] = Scans!Call(s, s.strip + 1)]
    BY <1>1 DEF Scans!After
  <2>2. s.strip + 1 \in Nat \ {0} /\ (s.strip + 1) - 1 = s.strip
    OBVIOUS
  <2>3. Scanning(Scans!Call(s, s.strip + 1))
    BY <2>2, NextStrip
  <2> QED
    BY <2>1, <2>3, OneScan
<1>2. CASE ~ (s.strip < Scans!NumStrips(s))
  <2> DEFINE c == [s EXCEPT !.at = "done", !.answer = IF s.items = <<>> THEN "unreadable" ELSE "items"]
  <2>1. scan' = [scan EXCEPT ![t] = c]
    BY <1>2 DEF Scans!After
  <2>2. /\ DOMAIN c = ScanFields
        /\ c.at = "done" /\ c.strip = s.strip /\ c.items = s.items /\ c.read = s.read /\ c.stuck = s.stuck
        /\ c.height = s.height /\ c.whole = s.whole
    BY DEF ScanFields
  <2> HIDE DEF c
  <2>3. Scanning(c)
    BY <2>2 DEF Scanning
  <2> QED
    BY <2>1, <2>3, OneScan
<1> QED
  BY <1>1, <1>2

\* Every step of a scan keeps it so.
LEMMA ScanStep == ASSUME ScanInv, Scans!ScanNext PROVE ScanInv'
<1>1. ASSUME NEW t \in Scanners, NEW h \in Heights, NEW whole \in BOOLEAN, Scans!Begin(t, h, whole)
      PROVE  ScanInv'
  <2> DEFINE s == [Scans!Resting EXCEPT !.height = h, !.whole = whole]
  <2>1. /\ DOMAIN s = ScanFields /\ s.stuck = FALSE /\ s.whole = whole /\ s.height = h /\ s.items = <<>>
        /\ s.read = {}
    BY DEF Scans!Resting, ScanFields
  <2>2. scan' = [scan EXCEPT ![t] = Scans!Call(s, 1)]
    BY <1>1 DEF Scans!Begin
  <2> HIDE DEF s
  <2>3. Listed(s.items, s.read, s.stuck, s.height, 1 - 1)
    <3>1. 1 - 1 = 0
      OBVIOUS
    <3> QED
      BY <2>1, <3>1, NothingListed
  <2>4. Scanning(Scans!Call(s, 1))
    <3>1. /\ DOMAIN s = ScanFields /\ s.stuck \in BOOLEAN /\ s.whole \in BOOLEAN /\ s.height \in Heights
          /\ 1 \in Nat \ {0}
      <4>1. s.stuck \in BOOLEAN /\ s.whole \in BOOLEAN /\ s.height \in Heights
        BY <2>1, Zenon
      <4> QED
        BY <2>1, <4>1
    <3> QED
      BY <2>3, <3>1, NextStrip
  <2> QED
    BY <2>2, <2>4, OneScan
<1>2. ASSUME NEW t \in Scanners, NEW a \in Scans!Answers(LinesOf(scan[t].height, scan[t].strip)), Scans!Read(t, a)
      PROVE  ScanInv'
  <2> DEFINE s == scan[t]
             cut == Scans!CutRun(a)
             lines == IF s.whole THEN cut ELSE Scans!DedupeSelf(cut)
             fresh == IF s.strip > 1 THEN Scans!DedupeBoundary(s.items, lines) ELSE lines
             bad == s.stuck \/ cut # a
             c == [s EXCEPT !.items = @ \o fresh, !.read = @ \union {s.strip}, !.limited = FALSE,
                            !.stuck = @ \/ cut # a]
  <2>1. Scanning(s) /\ s.at = "ask" /\ Scans!After(t, c)
    BY <1>2 DEF Scans!Read, ScanInv
  <2> HIDE DEF fresh, lines, cut
  <2>2. /\ DOMAIN s = ScanFields /\ s.stuck \in BOOLEAN /\ s.whole \in BOOLEAN /\ s.height \in Heights
        /\ s.strip \in Nat \ {0}
        /\ s.whole = FALSE => Listed(s.items, s.read, s.stuck, s.height, s.strip - 1)
    BY <2>1 DEF Scanning
  <2>3. /\ DOMAIN c = ScanFields /\ c.at = "ask" /\ c.strip = s.strip /\ c.height = s.height
        /\ c.whole = s.whole /\ c.items = s.items \o fresh /\ c.read = s.read \union {s.strip}
    BY <2>1, <2>2 DEF ScanFields
  <2>4. c.stuck = bad
    BY <2>2, Zenon DEF ScanFields
  <2>5. bad \in BOOLEAN
    OBVIOUS
  <2>6. s.whole = FALSE => Listed(s.items \o fresh, s.read \union {s.strip}, bad, s.height, s.strip)
    <3> SUFFICES ASSUME s.whole = FALSE
                 PROVE  Listed(s.items \o fresh, s.read \union {s.strip}, bad, s.height, s.strip)
      OBVIOUS
    <3>1. s.strip - 1 \in Nat /\ s.strip = (s.strip - 1) + 1 /\ Listed(s.items, s.read, s.stuck, s.height, s.strip - 1)
      BY <2>2
    <3>2. fresh = IF s.strip > 1 THEN Scans!DedupeBoundary(s.items, Scans!DedupeSelf(Scans!CutRun(a)))
                  ELSE Scans!DedupeSelf(Scans!CutRun(a))
      BY DEF fresh, lines, cut
    <3>3. a \in Scans!Answers(LinesOf(s.height, s.strip))
      BY <1>2
    <3>4. bad = (s.stuck \/ Scans!CutRun(a) # a)
      BY DEF cut
    <3> HIDE DEF s, bad
    <3> QED
      BY <2>2, <3>1, <3>2, <3>3, <3>4, ListedMore
  <2> HIDE DEF c, bad, s
  <2> QED
    BY <2>1, <2>2, <2>3, <2>4, <2>5, <2>6, StripDone
<1>3. ASSUME NEW t \in Scanners, Scans!Refuse(t) PROVE ScanInv'
  <2> DEFINE p == scan[t]
             s == [p EXCEPT !.offset = @ + 1]
             w == [s EXCEPT !.at = "wait"]
             d == [s EXCEPT !.at = "done", !.answer = "limited"]
  <2>1. Scanning(p) /\ p.at = "ask"
    BY <1>3 DEF Scans!Refuse, ScanInv
  <2>2. /\ DOMAIN p = ScanFields /\ p.stuck \in BOOLEAN /\ p.whole \in BOOLEAN /\ p.height \in Heights
        /\ p.strip \in Nat \ {0}
        /\ p.whole = FALSE => Listed(p.items, p.read, p.stuck, p.height, p.strip - 1)
    BY <2>1 DEF Scanning
  <2>3. \/ scan' = [scan EXCEPT ![t] = s]
        \/ scan' = [scan EXCEPT ![t] = w]
        \/ scan' = [scan EXCEPT ![t] = d]
        \/ Scans!After(t, s)
    BY <1>3 DEF Scans!Refuse
  <2> HIDE DEF p
  <2>4. /\ DOMAIN s = ScanFields /\ s.at = "ask" /\ s.strip = p.strip /\ s.height = p.height
        /\ s.whole = p.whole /\ s.items = p.items /\ s.read = p.read /\ s.stuck = p.stuck
    BY <2>1, <2>2 DEF ScanFields
  <2>5. /\ DOMAIN w = ScanFields /\ w.at = "wait" /\ w.strip = p.strip /\ w.height = p.height
        /\ w.whole = p.whole /\ w.items = p.items /\ w.read = p.read /\ w.stuck = p.stuck
    BY <2>1, <2>2 DEF ScanFields
  <2>6. /\ DOMAIN d = ScanFields /\ d.at = "done" /\ d.answer = "limited" /\ d.strip = p.strip
        /\ d.height = p.height /\ d.whole = p.whole /\ d.stuck = p.stuck
    BY <2>1, <2>2 DEF ScanFields
  <2> HIDE DEF s, w, d
  <2>7. Scanning(s)
    BY <2>2, <2>4 DEF Scanning
  <2>8. Scanning(w)
    BY <2>2, <2>5 DEF Scanning
  <2>9. Scanning(d)
    BY <2>2, <2>6 DEF Scanning
  <2>10. s.whole = FALSE => Listed(s.items, s.read, s.stuck, s.height, s.strip)
    <3>1. p.strip - 1 \in Nat /\ p.strip = (p.strip - 1) + 1
      BY <2>2
    <3> QED
      BY <2>2, <2>4, <3>1, ListedStill
  <2>11. Scans!After(t, s) => ScanInv'
    BY <2>2, <2>4, <2>10, StripDone
  <2> QED
    BY <2>3, <2>7, <2>8, <2>9, <2>11, OneScan
<1>4. ASSUME NEW t \in Scanners, Scans!Wake(t) PROVE ScanInv'
  <2> DEFINE p == scan[t]
             c == [p EXCEPT !.at = "ask", !.offset = 0, !.attempt = @ + 1]
  <2>1. Scanning(p) /\ p.at = "wait" /\ DOMAIN scan = Scanners
    BY <1>4 DEF Scans!Wake, ScanInv
  <2>2. scan' = [scan EXCEPT ![t] = c]
    BY <1>4, <2>1 DEF Scans!Wake
  <2>3. /\ DOMAIN c = ScanFields /\ c.at = "ask" /\ c.strip = p.strip /\ c.height = p.height
        /\ c.whole = p.whole /\ c.items = p.items /\ c.read = p.read /\ c.stuck = p.stuck
    BY <2>1 DEF Scanning, ScanFields
  <2> HIDE DEF p, c
  <2>4. Scanning(c)
    BY <2>1, <2>3 DEF Scanning
  <2> QED
    BY <2>2, <2>4, OneScan
<1>5. ASSUME NEW t \in Scanners, Scans!Err(t) PROVE ScanInv'
  <2> DEFINE p == scan[t]
             s == [p EXCEPT !.limited = FALSE]
  <2>1. Scanning(p)
    BY DEF ScanInv
  <2>2. s.at = "ask" /\ Scans!After(t, s)
    BY <1>5 DEF Scans!Err
  <2>3. /\ DOMAIN p = ScanFields /\ p.stuck \in BOOLEAN /\ p.whole \in BOOLEAN /\ p.height \in Heights
        /\ p.strip \in Nat \ {0}
        /\ p.whole = FALSE => Listed(p.items, p.read, p.stuck, p.height, p.strip - 1)
    BY <2>1, <2>2 DEF Scanning
  <2>4. /\ DOMAIN s = ScanFields /\ s.strip = p.strip /\ s.height = p.height
        /\ s.whole = p.whole /\ s.items = p.items /\ s.read = p.read /\ s.stuck = p.stuck
    BY <2>3 DEF ScanFields
  <2> HIDE DEF p, s
  <2>5. s.whole = FALSE => Listed(s.items, s.read, s.stuck, s.height, s.strip)
    <3>1. p.strip - 1 \in Nat /\ p.strip = (p.strip - 1) + 1
      BY <2>3
    <3> QED
      BY <2>3, <2>4, <3>1, ListedStill
  <2> QED
    BY <2>2, <2>3, <2>4, <2>5, StripDone
<1>6. ASSUME NEW t \in Scanners, Scans!TimeOut(t) PROVE ScanInv'
  <2> DEFINE p == scan[t]
             c == [p EXCEPT !.at = "done", !.answer = "unreadable", !.items = <<>>, !.limited = FALSE]
  <2>1. Scanning(p) /\ p.at = "ask" /\ DOMAIN scan = Scanners
    BY <1>6 DEF Scans!TimeOut, ScanInv
  <2>2. scan' = [scan EXCEPT ![t] = c]
    BY <1>6, <2>1 DEF Scans!TimeOut
  <2>3. /\ DOMAIN c = ScanFields /\ c.at = "done" /\ c.answer = "unreadable" /\ c.strip = p.strip
        /\ c.height = p.height /\ c.whole = p.whole /\ c.stuck = p.stuck
    BY <2>1 DEF Scanning, ScanFields
  <2> HIDE DEF p, c
  <2>4. Scanning(c)
    BY <2>1, <2>3 DEF Scanning
  <2> QED
    BY <2>2, <2>4, OneScan
<1>7. ASSUME NEW t \in Scanners, Scans!Leave(t) PROVE ScanInv'
  <2>1. Scanning(Scans!Resting)
    BY DEF Scanning, Scans!Resting, ScanFields
  <2>2. scan' = [scan EXCEPT ![t] = Scans!Resting]
    BY <1>7 DEF Scans!Leave
  <2> QED
    BY <2>1, <2>2, OneScan
<1>8. ASSUME NEW k \in Scans!Keys, Scans!Refill(k) PROVE ScanInv'
  BY <1>8 DEF Scans!Refill, ScanInv
<1> QED
  BY <1>1, <1>2, <1>3, <1>4, <1>5, <1>6, <1>7, <1>8 DEF Scans!ScanNext

\* A line is listed once, although two strips show it or an answer repeats it,
\* and every line of a strip that was read is listed, unless the model got stuck.
LEMMA ScanHolds == ScanInv => EachLineOnce
<1> SUFFICES ASSUME ScanInv PROVE EachLineOnce
  OBVIOUS
<1>1. ASSUME NEW t \in Scanners, scan[t].at = "done", scan[t].answer = "items", scan[t].whole = FALSE
      PROVE  /\ Scans!WholeLines(scan[t].height)
             /\ Cardinality(Scans!ToSet(scan[t].items)) = Len(scan[t].items)
             /\ Scans!ToSet(scan[t].items) \subseteq Shown(scan[t].height, scan[t].read)
             /\ scan[t].stuck = FALSE => Scans!ToSet(scan[t].items) = Shown(scan[t].height, scan[t].read)
  <2> DEFINE s == scan[t]
  <2>1. Scanning(s)
    BY DEF ScanInv
  <2>2. s.height \in Heights
    BY <1>1, <2>1 DEF Scanning
  <2>3. Listed(s.items, s.read, s.stuck, s.height, s.strip)
    BY <1>1, <2>1 DEF Scanning
  <2>4. Scans!WholeLines(s.height)
    BY <2>2, StripsCover, ScanAssumption
  <2> HIDE DEF s
  <2>5. Cardinality(Scans!ToSet(s.items)) = Len(s.items)
    BY <2>3, RisingOnce DEF Listed
  <2> QED
    BY <2>3, <2>4, <2>5 DEF Listed, s
<1>2. \A t \in Scanners : scan[t].stuck \in BOOLEAN /\ scan[t].whole \in BOOLEAN
  BY DEF ScanInv, Scanning
<1>3. ASSUME NEW t \in Scanners, scan[t].at = "done", scan[t].answer = "items", ~ scan[t].whole
      PROVE  /\ Scans!WholeLines(scan[t].height)
             /\ Cardinality(Scans!ToSet(scan[t].items)) = Len(scan[t].items)
             /\ Scans!ToSet(scan[t].items) \subseteq UNION {Scans!ToSet(LinesOf(scan[t].height, i)) : i \in scan[t].read}
             /\ \/ scan[t].stuck
                \/ Scans!ToSet(scan[t].items) = UNION {Scans!ToSet(LinesOf(scan[t].height, i)) : i \in scan[t].read}
  <2>1. scan[t].whole = FALSE /\ (scan[t].stuck = FALSE \/ scan[t].stuck)
    BY <1>2, <1>3, Zenon
  <2> QED
    BY <1>1, <1>3, <2>1, Zenon DEF Shown
<1>4. \A S : Scans!Cardinality(S) = Cardinality(S)
  BY Zenon DEF Scans!Cardinality, Cardinality
<1> QED
  BY <1>3, <1>4, Zenon DEF EachLineOnce, Scans!EachLineOnce, Scans!Done

\* Lines are whole in some strip and listed once (_split_into_strips,
\* _dedupe_self, _dedupe_boundary).
THEOREM EachLineOnceHolds == ServicesSpec => []EachLineOnce
<1>1. ServicesInit => ScanInv
  <2> SUFFICES ASSUME ServicesInit PROVE ScanInv
    OBVIOUS
  <2>1. scan = [t \in Scanners |-> Scans!Resting]
    BY DEF ServicesInit, Scans!InitScan
  <2>2. Scanning(Scans!Resting)
    BY DEF Scanning, Scans!Resting, ScanFields
  <2> QED
    BY <2>1, <2>2 DEF ScanInv
<1>2. ScanInv /\ habit \in Habits /\ [ServicesNext]_allVars => ScanInv'
  <2> SUFFICES ASSUME ScanInv, habit \in Habits, [ServicesNext]_allVars PROVE ScanInv'
    OBVIOUS
  <2>1. CASE UNCHANGED scanVars
    BY <2>1 DEF scanVars, ScanInv
  <2>2. CASE Scans!ScanNext
    BY <2>2, ScanStep
  <2> QED
    BY <2>1, <2>2, OneService
<1> QED
  BY <1>1, <1>2, ScanHolds, HabitKept, PTL DEF ServicesSpec, allVars

==============================================================================
