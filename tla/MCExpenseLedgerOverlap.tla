------------------------ MODULE MCExpenseLedgerOverlap ------------------------
(* ExpenseLedger with overlapping requests, under three kinds of traffic:      *)
(* saves that the client retries; a thread that edits a budget and deletes     *)
(* expenses while another writes expenses; budgets created and deleted while   *)
(* all of them are being summed.                                               *)
EXTENDS MCExpenseLedger

CONSTANTS p1, b2
VARIABLE traffic

MayStart(p, place) ==
  CASE traffic = "retries" -> place = "save.insert"
    [] traffic = "budgets" -> IF p = p1 THEN place \in {"save.insert", "edit.commit"}
                              ELSE place \in {"recalc", "budget.commit", "delete.commit"}
    [] traffic = "lists"   -> place = IF p = p1 THEN "recalc.list" ELSE "recalc"
Within ==
  /\ \A p \in Threads :
       /\ sess[p].at = "idle" /\ sess'[p].at # "idle" => MayStart(p, sess'[p].at)
       /\ sess'[p].save = BulkSave => traffic = "retries"
  /\ traffic = "retries" => UNCHANGED budgets
  /\ traffic # "lists" => budgets'[b2] = Unborn
  /\ traffic = "budgets" =>
       /\ ledger'[2] = Unborn
       /\ \A b \in LiveBudgets' : budgets'[b].active
       /\ \A p \in Threads : calc'[p].new.topic = NoTopic
OverlapInit == Init /\ traffic \in {"retries", "budgets", "lists"}
OverlapSpec == /\ OverlapInit
               /\ [][Next /\ Bounded /\ Within /\ UNCHANGED traffic]_<<vars, traffic>>
=============================================================================
