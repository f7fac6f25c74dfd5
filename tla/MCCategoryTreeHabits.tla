------------------------ MODULE MCCategoryTreeHabits ------------------------
(* CategoryTree under three kinds of behaviour: one user's requests overlap;  *)
(* requests come one at a time and clients drag categories; they come one at  *)
(* a time and users share a family tree.  A drag checks no names and leaves   *)
(* budgets where they are, and a category created below a family one is in    *)
(* the family's tree but in its creator's list; what holds apart from that is *)
(* checked apart.                                                             *)
EXTENDS MCCategoryTree

VARIABLE habit
Within(p) ==
  /\ habit # "drag" /\ sess'[p].at = "update" => sess'[p].new.parent = sess'[p].snap.parent
  /\ habit # "share" => sess'[p].group = NoGroup
  /\ IF habit = "overlap" THEN sess'[p].user \in {u1, NoUser}
     ELSE sess'[p] = Idle \/ \A q \in Sessions \ {p} : sess'[q] = Idle
HabitInit == Init /\ habit \in {"overlap", "drag", "share"}
HabitSpec == HabitInit
             /\ [][Next /\ UNCHANGED habit /\ \A p \in Sessions : Within(p)]_<<vars, habit>>

\* Siblings of one scope have different names where requests do not overlap
\* and nobody drags.
SiblingsDifferShared == habit = "share" => SiblingsDiffer

\* Budgets are on main categories where nobody drags one below another.
BudgetOnMainUndragged == habit # "drag" => BudgetOnMain

\* The flat list and the tree of a scope agree where no family tree is shared.
ListMatchesTreeUnshared == habit # "share" => ListMatchesTree
=============================================================================
