--------------------------- MODULE MCExpenseLedger ---------------------------
(* Instances of ExpenseLedger for TLC. *)
EXTENDS ExpenseLedger, TLC

CONSTANTS u1, k1, main, sub, food, b1,
          asked     \* the category the client gives with a single expense

OneSave  == [user |-> u1, endpoint |-> "expenses.create", key |-> k1]
BulkSave == [user |-> u1, endpoint |-> "expenses.bulk_create", key |-> k1]

\* The same key sent to both endpoints.
OneAndBulk == {OneSave, BulkSave}
JustOne    == {OneSave}

Milk(cat) == [cat |-> cat, topic |-> food, amount |-> 1]
Bought == [s \in Saves |-> IF s = OneSave THEN <<Milk(asked)>> ELSE <<Milk(sub), Milk(sub)>>]

MainCategory == [c \in Cats |-> main]
Owned        == [b \in Budgets |-> u1]

\* Bounds of the passing runs.  Ids are taken in order, an edit leaves the text
\* as it is, and a budget has a category or a name that says what it is for.
Bounded ==
  /\ \A i, j \in Ids : i < j /\ ledger'[i] = Unborn => ledger'[j] = Unborn
  /\ \A p \in Threads : /\ \A d \in sess'[p].edits : d.new.topic = d.loaded.topic
                        /\ calc'[p].new.cat # NoCat => calc'[p].new.topic = NoTopic
  /\ \A b \in LiveBudgets' : budgets'[b].cat # NoCat => budgets'[b].topic = NoTopic
InTurnSpec ==
  /\ Init /\ [][Next /\ Bounded]_vars
  /\ \A p \in Threads : ThreadFairness(p)
  /\ \A w \in Workers : WorkerFairness(w)
=============================================================================
