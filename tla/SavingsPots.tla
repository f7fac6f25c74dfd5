---------------------------- MODULE SavingsPots ----------------------------
(***************************************************************************)
(* Savings goals (api/v1/savings_goals/service.py).  A request loads the   *)
(* goal, and commits the columns that differ from what it loaded; a        *)
(* contribution adds to the amount it loaded.                              *)
(***************************************************************************)
EXTENDS Naturals, FiniteSets

CONSTANTS Goals, Targets, MaxSaved, Savers, NoGoal, Unborn, Gone

VARIABLES
  goals, \* savings_goals; Unborn before and Gone after
  till,  \* what each thread is doing
  given  \* history: the amounts paid in, the first one included

potVars == <<goals, till, given>>

Goal == [saved : 0..MaxSaved, target : Targets, done : BOOLEAN]
Idle == [at |-> "idle", goal |-> NoGoal]
Live == {g \in Goals : goals[g] \in Goal}

PotsInit ==
  /\ goals = [g \in Goals |-> Unborn]
  /\ till = [p \in Savers |-> Idle]
  /\ given = [g \in Goals |-> 0]

Create(g, t, a) ==
  /\ goals[g] = Unborn
  /\ goals' = [goals EXCEPT ![g] = [saved |-> a, target |-> t, done |-> FALSE]]
  /\ given' = [given EXCEPT ![g] = a]
  /\ UNCHANGED till

Busy(p, at, g, new) ==
  /\ till[p] = Idle /\ g \in Live
  /\ till' = [till EXCEPT ![p] = [at |-> at, goal |-> g, old |-> goals[g], new |-> new]]
  /\ UNCHANGED <<goals, given>>

WrittenWhole(now, old, new) == new       \* mutant: all columns are written

\* What it has become, with the columns that differ between old and new.
Written(now, old, new) ==
  [f \in DOMAIN now |-> IF new[f] # old[f] THEN new[f] ELSE now[f]]

Contribute(p, g, a) ==
  LET saved == goals[g].saved + a
  IN  /\ g \in Live /\ a > 0 /\ given[g] + a <= MaxSaved
      /\ Busy(p, "contribute", g,
              [goals[g] EXCEPT !.saved = saved, !.done = @ \/ saved >= goals[g].target])

\* Of a change of name, target and date, the target is what counts here.
Update(p, g, t) ==
  g \in Live /\ Busy(p, "update", g, [goals[g] EXCEPT !.target = t])

Commit(p) ==
  LET j == till[p]
  IN  /\ j.at # "idle"
      /\ IF j.goal \in Live
         THEN /\ goals' = [goals EXCEPT ![j.goal] = Written(@, j.old, j.new)]
              /\ given' = [given EXCEPT ![j.goal] = @ + j.new.saved - j.old.saved]
         ELSE UNCHANGED <<goals, given>>
      /\ till' = [till EXCEPT ![p] = Idle]

Delete(g) ==
  /\ g \in Live
  /\ goals' = [goals EXCEPT ![g] = Gone]
  /\ UNCHANGED <<till, given>>

PotsNext ==
  \/ \E g \in Goals : \/ \E t \in Targets, a \in 0..1 : Create(g, t, a)
                      \/ Delete(g)
  \/ \E p \in Savers, g \in Goals : \/ \E a \in 1..MaxSaved : Contribute(p, g, a)
                                    \/ \E t \in Targets : Update(p, g, t)
  \/ \E p \in Savers : Commit(p)
-----------------------------------------------------------------------------
\* A goal holds what was paid into it.
SavedIsGiven == \A g \in Live : goals[g].saved = given[g]

=============================================================================
