------------------------- MODULE MCSpendingFigures -------------------------
(* Three kinds of behaviour: time passes and start days change; categories    *)
(* are dragged and deleted below the rows; incomes and amounts vary.          *)
EXTENDS SpendingFigures, TLC

CONSTANTS ana, ben, food, milk, fun
VARIABLE habit

D(y, m, d) == [year |-> y, month |-> m, day |-> d]
AroundLeap == {D(2023, 12, 31), D(2024, 1, 8), D(2024, 2, 7), D(2024, 2, 28), D(2024, 3, 8)}
StartOfTime == D(2024, 2, 28)
EndOfTime == D(2024, 3, 9)
Names == food :> "food" @@ milk :> "milk" @@ fun :> "milk"
HealthNames == {"milk"}

Posted == {rows'[i] : i \in {i \in Ids : rows'[i] # NoRow}}
HabitInit ==
  /\ Init /\ habit \in {"time", "tree", "score"}
  /\ habit # "score" => income = [u \in Users |-> 12]
  /\ habit = "tree" => startDay = [u \in Users |-> 8]
HabitNext ==
  /\ Next /\ UNCHANGED habit
  /\ habit = "time" => /\ UNCHANGED <<parent, income>>
                       /\ \A r \in Posted : r.cat = NoCat /\ r.amount = 10
                                            /\ (r.by = ben => r.book = "family")
  /\ habit = "tree" => /\ UNCHANGED <<today, startDay, income>>
                       /\ \A r \in Posted : r.date = D(2024, 2, 28) /\ r.amount = 10
  /\ habit = "score" => /\ UNCHANGED <<parent, today, startDay>>
                        /\ \A r \in Posted : r.cat = NoCat /\ r.by = ana
HabitSpec == HabitInit /\ [][HabitNext]_<<vars, habit>>

Symmetry == Permutations(Ids)
=============================================================================
