------------------------ MODULE ExpenseLedger_proofs ------------------------
(***************************************************************************)
(* Proofs about saves, budgets and alerts, for any number of users, keys,  *)
(* threads and workers and saves of any length:                            *)
(*   - whatever runs at the same time, every answer to a save, made or     *)
(*     replayed, names one expense per item, made for that item;           *)
(*   - while requests do not overlap, a save retried under its key is in   *)
(*     the ledger once, unless a request for it died halfway;              *)
(*   - one worker alerts once a day about a budget;                        *)
(*   - every variable keeps its type, the sums of budgets included;        *)
(*   - while requests do not overlap, a budget shows what the ledger holds *)
(*     on it, unless a request died before it had summed.                  *)
(***************************************************************************)
EXTENDS ExpenseLedger, Sums_proofs, SequenceTheorems

-----------------------------------------------------------------------------
(* The inductive invariants *)

\* The types the argument needs; those of budgets and alerts play no part.
Types ==
  /\ ledger \in [Ids -> Expense \union {Unborn, Gone}]
  /\ stored \subseteq StoredRow
  /\ sess \in [Threads -> SessionType]
  /\ origin \in [Ids -> (Saves \union {NoSave}) \X Nat]
  /\ replies \subseteq Saves \X Seq(Ids)

\* m lists expenses made for the first items of save s, in order; none of
\* them is an id still to be taken, so no later insert can take it over.
MadeFor(l, o, s, m) ==
  /\ Len(m) <= Len(Items[s])
  /\ \A n \in 1..Len(m) : o[m[n]] = <<s, n>> /\ l[m[n]] # Unborn
Complete(l, o, s, m) == s \in Saves /\ Len(m) = Len(Items[s]) /\ MadeFor(l, o, s, m)

GoodSession(l, o, x) ==
  /\ x.save # NoSave => MadeFor(l, o, x.save, x.made)
  /\ x.at = "save.insert" => x.save # NoSave /\ Len(x.made) < Len(Items[x.save])
  /\ x.at = "save.store" => x.save # NoSave /\ Len(x.made) = Len(Items[x.save])
  /\ x.at = "save.notify" => x.save # NoSave
SameKey(r, s) == r.user = s.user /\ r.endpoint = s.endpoint /\ r.key = s.key

SaveInv ==
  /\ \A p \in Threads : GoodSession(ledger, origin, sess[p])
  /\ \A r \in stored, s \in Saves :
       SameKey(r, s) => Complete(ledger, origin, s, r.response)
  /\ \A r \in replies : Complete(ledger, origin, r[1], r[2])

Safe == Types /\ SaveInv

-----------------------------------------------------------------------------
(* What steps do to it *)

\* A row that exists stays (or is Gone), and keeps the save it was made for.
Grows(l, o, l2, o2) == \A i \in Ids : l[i] # Unborn => l2[i] # Unborn /\ o2[i] = o[i]

\* A list of expenses made for a save remains one.
LEMMA Kept ==
  ASSUME NEW l, NEW o, NEW l2, NEW o2, NEW s, NEW m \in Seq(Ids),
         Grows(l, o, l2, o2), MadeFor(l, o, s, m)
  PROVE  MadeFor(l2, o2, s, m)
<1>1. \A n \in 1..Len(m) : m[n] \in Ids
  BY ElementOfSeq
<1> QED
  BY <1>1 DEF Grows, MadeFor

\* A session that is good stays good.
LEMMA KeptSession ==
  ASSUME NEW l, NEW o, NEW l2, NEW o2, NEW x \in SessionType,
         Grows(l, o, l2, o2), GoodSession(l, o, x)
  PROVE  GoodSession(l2, o2, x)
<1>1. x.made \in Seq(Ids)
  BY DEF SessionType
<1> QED
  BY <1>1, Kept DEF GoodSession

\* Replacing one session by a good one while the ledger grows.
LEMMA SetSession ==
  ASSUME Safe, NEW p \in Threads, NEW x \in SessionType,
         sess' = [sess EXCEPT ![p] = x],
         ledger' \in [Ids -> Expense \union {Unborn, Gone}],
         origin' \in [Ids -> (Saves \union {NoSave}) \X Nat],
         Grows(ledger, origin, ledger', origin'), GoodSession(ledger', origin', x),
         UNCHANGED <<stored, replies>>
  PROVE  Safe'
<1>1. sess' \in [Threads -> SessionType] /\ sess'[p] = x
      /\ \A q \in Threads : q # p => sess'[q] = sess[q]
  BY DEF Safe, Types
<1>2. Types'
  BY <1>1 DEF Safe, Types
<1>3. ASSUME NEW q \in Threads PROVE GoodSession(ledger', origin', sess'[q])
  <2>1. CASE q = p
    BY <1>1, <2>1
  <2>2. CASE q # p
    BY <1>1, <2>2, KeptSession DEF Safe, Types, SaveInv
  <2> QED
    BY <2>1, <2>2
<1>4. ASSUME NEW r \in stored, NEW s \in Saves, SameKey(r, s)
      PROVE  Complete(ledger', origin', s, r.response)
  <2>1. r.response \in Seq(Ids)
    BY DEF Safe, Types, StoredRow
  <2> QED
    BY <1>4, <2>1, Kept DEF Safe, SaveInv, Complete
<1>5. ASSUME NEW r \in replies PROVE Complete(ledger', origin', r[1], r[2])
  <2>1. r[2] \in Seq(Ids)
    BY DEF Safe, Types
  <2> QED
    BY <1>5, <2>1, Kept DEF Safe, SaveInv, Complete
<1>6. SaveInv'
  BY <1>3, <1>4, <1>5 DEF SaveInv
<1> QED
  BY <1>2, <1>6 DEF Safe

\* Nothing but one session changes.
LEMMA OnlySession ==
  ASSUME Safe, NEW p \in Threads, NEW x \in SessionType,
         sess' = [sess EXCEPT ![p] = x], GoodSession(ledger, origin, x),
         UNCHANGED <<ledger, origin, stored, replies>>
  PROVE  Safe'
<1>1. Grows(ledger, origin, ledger', origin')
  BY DEF Grows
<1> QED
  BY <1>1, SetSession DEF Safe, Types

\* Nothing the invariant speaks of changes.
LEMMA Untouched ==
  ASSUME Safe, UNCHANGED <<ledger, stored, sess, origin, replies>>
  PROVE  Safe'
BY DEF Safe, Types, SaveInv

\* An idle session is good.
LEMMA IdleGood ==
  /\ Idle \in SessionType
  /\ \A l, o : GoodSession(l, o, Idle)
<1>1. <<>> \in Seq(Ids) /\ {} \in SUBSET Edit
  OBVIOUS
<1> QED
  BY <1>1 DEF Idle, SessionType, Places, GoodSession

\* A session moves on to a place where no more is asked of it than before.
LEMMA Moved ==
  ASSUME Safe, NEW p \in Threads, NEW place \in Places, Goto(p, place),
         place \notin {"save.insert", "save.store"},
         place = "save.notify" => sess[p].save # NoSave,
         ledger' \in [Ids -> Expense \union {Unborn, Gone}],
         \A i \in Ids : ledger[i] # Unborn => ledger'[i] # Unborn,
         UNCHANGED <<origin, stored, replies>>
  PROVE  Safe'
<1> DEFINE x == [sess[p] EXCEPT !.at = place]
<1>1. sess[p] \in SessionType /\ GoodSession(ledger, origin, sess[p])
  BY DEF Safe, Types, SaveInv
<1>2. x \in SessionType /\ x.at = place /\ x.save = sess[p].save /\ x.made = sess[p].made
  BY <1>1 DEF SessionType
<1>3. sess' = [sess EXCEPT ![p] = x]
  BY DEF Goto
<1>4. sess[p].made \in Seq(Ids)
  BY <1>1 DEF SessionType
<1> HIDE DEF x
<1>5. Grows(ledger, origin, ledger', origin')
  BY DEF Grows
<1>6. GoodSession(ledger', origin', x)
  BY <1>1, <1>2, <1>4, <1>5, Kept DEF GoodSession
<1> QED
  BY <1>2, <1>3, <1>5, <1>6, SetSession DEF Safe, Types

\* A session ends.
LEMMA Ended ==
  ASSUME Safe, NEW p \in Threads, Finish(p), UNCHANGED <<ledger, origin, stored, replies>>
  PROVE  Safe'
BY IdleGood, OnlySession DEF Finish

\* A request other than a save begins.
LEMMA Begun ==
  ASSUME Safe, NEW p \in Threads, NEW x \in SessionType, Begin(p, x), x.save = NoSave,
         x.at \notin {"save.insert", "save.store", "save.notify"},
         UNCHANGED <<ledger, origin, stored, replies>>
  PROVE  Safe'
<1>1. GoodSession(ledger, origin, x)
  BY DEF GoodSession
<1> QED
  BY <1>1, OnlySession DEF Begin

-----------------------------------------------------------------------------
(* Saves *)

\* A save begins with nothing made.
LEMMA StartSafe ==
  ASSUME Safe, NEW p \in Threads, NEW s \in Saves, SaveStart(p, s)
  PROVE  Safe'
<1> DEFINE place == IF Items[s] = <<>> THEN "save.store" ELSE "save.insert"
           x == [at |-> place, user |-> s.user, save |-> s, made |-> <<>>, edits |-> {}]
<1>1. s.user \in Users /\ Items[s] \in Seq(Purchase)
  BY LedgerAssumption
<1>2. <<>> \in Seq(Ids) /\ {} \in SUBSET Edit /\ Len(<<>>) = 0
  OBVIOUS
<1>3. x \in SessionType
  BY <1>1, <1>2 DEF SessionType, Places
<1>4. /\ Len(Items[s]) \in Nat
      /\ place = "save.store" => Len(Items[s]) = 0
      /\ place = "save.insert" => 0 < Len(Items[s])
  BY <1>1, EmptySeq
<1>5. sess' = [sess EXCEPT ![p] = x] /\ UNCHANGED <<ledger, origin, stored, replies>>
  BY DEF SaveStart, Begin, dbVars, history
<1>6. x.at = place /\ x.save = s /\ x.made = <<>> /\ place \in {"save.store", "save.insert"}
  OBVIOUS
<1> HIDE DEF x, place
<1>7. Len(x.made) = 0 /\ 1..Len(x.made) = {}
  BY <1>2, <1>6
<1>8. MadeFor(ledger, origin, s, x.made)
  <2>1. Len(x.made) <= Len(Items[s])
    BY <1>1, <1>7
  <2> QED
    BY <1>7, <2>1 DEF MadeFor
<1>9. GoodSession(ledger, origin, x)
  BY <1>4, <1>6, <1>7, <1>8, LedgerAssumption DEF GoodSession
<1> QED
  BY <1>3, <1>5, <1>9, OnlySession

\* An insert takes an unused id, and records the item it is for.
LEMMA InsertSafe ==
  ASSUME Safe, NEW p \in Threads, SaveInsert(p)
  PROVE  Safe'
<1> DEFINE s == sess[p].save
           m == sess[p].made
           n == Len(m) + 1
<1>1. sess[p] \in SessionType /\ GoodSession(ledger, origin, sess[p]) /\ sess[p].at = "save.insert"
  BY DEF Safe, Types, SaveInv, SaveInsert
<1>2. s \in Saves /\ m \in Seq(Ids) /\ Len(m) < Len(Items[s]) /\ MadeFor(ledger, origin, s, m)
  BY <1>1 DEF SessionType, GoodSession
<1>3. Items[s] \in Seq(Purchase) /\ s.user \in Users /\ Len(m) \in Nat /\ Len(Items[s]) \in Nat
  BY <1>2, LedgerAssumption
<1>4. n \in 1..Len(Items[s])
  BY <1>2, <1>3
<1>5. Items[s][n] \in Purchase
  BY <1>3, <1>4, ElementOfSeq
<1>6. PICK i \in Ids, c \in Resolved(Items[s][n]) :
        /\ ledger[i] = Unborn
        /\ ledger' = [ledger EXCEPT ![i] = [user |-> s.user, cat |-> c,
                         topic |-> Items[s][n].topic, amount |-> Items[s][n].amount]]
        /\ origin' = [origin EXCEPT ![i] = <<s, n>>]
        /\ sess' = [sess EXCEPT ![p].at = "recalc.list", ![p].made = Append(@, i)]
  BY DEF SaveInsert
<1> DEFINE row == [user |-> s.user, cat |-> c,
                   topic |-> Items[s][n].topic, amount |-> Items[s][n].amount]
           x == [sess[p] EXCEPT !.at = "recalc.list", !.made = Append(m, i)]
<1>7. row \in Expense
  BY <1>3, <1>5, <1>6 DEF Resolved, Purchase, Expense
<1>8. Append(m, i) \in Seq(Ids)
  BY <1>2
<1>9. x \in SessionType /\ x.at = "recalc.list" /\ x.save = s /\ x.made = Append(m, i)
  BY <1>1, <1>8 DEF SessionType, Places
<1>10. sess' = [sess EXCEPT ![p] = x]
  BY <1>6
<1>11. UNCHANGED <<stored, replies>>
  BY DEF SaveInsert
<1>12. ledger' = [ledger EXCEPT ![i] = row] /\ origin' = [origin EXCEPT ![i] = <<s, n>>]
  BY <1>6
<1>13. n \in Nat /\ <<s, n>> \in (Saves \union {NoSave}) \X Nat
  BY <1>2, <1>3
<1>14. row # Unborn
  BY <1>7, LedgerAssumption
<1> HIDE DEF x, row
<1>15. /\ ledger' \in [Ids -> Expense \union {Unborn, Gone}]
       /\ origin' \in [Ids -> (Saves \union {NoSave}) \X Nat]
       /\ ledger'[i] # Unborn /\ origin'[i] = <<s, n>>
  BY <1>7, <1>12, <1>13, <1>14 DEF Safe, Types
<1>16. Grows(ledger, origin, ledger', origin')
  BY <1>6, <1>12 DEF Grows, Safe, Types
<1>17. MadeFor(ledger', origin', s, m)
  BY <1>2, <1>16, Kept
<1>18. /\ Len(Append(m, i)) = n /\ Append(m, i)[n] = i
       /\ \A k \in 1..Len(m) : Append(m, i)[k] = m[k]
  BY <1>2, AppendProperties
<1>19. MadeFor(ledger', origin', s, Append(m, i))
  <2>1. n <= Len(Items[s])
    BY <1>4
  <2>2. ASSUME NEW k \in 1..n
        PROVE  origin'[Append(m, i)[k]] = <<s, k>> /\ ledger'[Append(m, i)[k]] # Unborn
    <3>1. CASE k = n
      BY <1>15, <1>18, <3>1
    <3>2. CASE k # n
      <4>1. k \in 1..Len(m)
        BY <1>3, <3>2
      <4> QED
        BY <1>17, <1>18, <4>1 DEF MadeFor
    <3> QED
      BY <3>1, <3>2
  <2> QED
    BY <1>18, <2>1, <2>2 DEF MadeFor
<1>20. GoodSession(ledger', origin', x)
  BY <1>9, <1>19 DEF GoodSession
<1> QED
  BY <1>9, <1>10, <1>11, <1>15, <1>16, <1>20, SetSession

\* A save that goes on to its next item has one, and one that does not has
\* made them all.
LEMMA NotifySafe ==
  ASSUME Safe, NEW p \in Threads, SaveNotify(p)
  PROVE  Safe'
<1> DEFINE more == Len(sess[p].made) < Len(Items[sess[p].save])
           place == IF more THEN "save.insert" ELSE "save.store"
           x == [sess[p] EXCEPT !.at = place]
<1>1. sess[p] \in SessionType /\ GoodSession(ledger, origin, sess[p]) /\ sess[p].at = "save.notify"
  BY DEF Safe, Types, SaveInv, SaveNotify
<1>2. sess[p].save \in Saves /\ sess[p].made \in Seq(Ids) /\ sess[p].save # NoSave
      /\ MadeFor(ledger, origin, sess[p].save, sess[p].made)
  BY <1>1 DEF SessionType, GoodSession
<1>3. Len(sess[p].made) \in Nat /\ Len(Items[sess[p].save]) \in Nat
  BY <1>2, LedgerAssumption
<1>4. Len(sess[p].made) <= Len(Items[sess[p].save])
  BY <1>2 DEF MadeFor
<1>5. x \in SessionType /\ x.at = place /\ x.save = sess[p].save /\ x.made = sess[p].made
  BY <1>1 DEF SessionType, Places
<1>6. sess' = [sess EXCEPT ![p] = x] /\ UNCHANGED <<ledger, origin, stored, replies>>
  BY DEF SaveNotify, Goto, history
<1>7. /\ place = "save.insert" => Len(sess[p].made) < Len(Items[sess[p].save])
      /\ place = "save.store" => Len(sess[p].made) = Len(Items[sess[p].save])
      /\ place # "save.notify"
  BY <1>3, <1>4
<1> HIDE DEF x, place, more
<1>8. GoodSession(ledger, origin, x)
  BY <1>2, <1>5, <1>7 DEF GoodSession
<1> QED
  BY <1>5, <1>6, <1>8, OnlySession

\* What a finished save stores and answers is complete.
LEMMA StoreSafe ==
  ASSUME Safe, NEW p \in Threads, SaveStore(p)
  PROVE  Safe'
<1> DEFINE s == sess[p].save
           m == sess[p].made
           row == [user |-> s.user, endpoint |-> s.endpoint, key |-> s.key, response |-> m]
<1>1. sess[p] \in SessionType /\ GoodSession(ledger, origin, sess[p]) /\ sess[p].at = "save.store"
  BY DEF Safe, Types, SaveInv, SaveStore
<1>2. s \in Saves /\ m \in Seq(Ids) /\ Len(m) = Len(Items[s]) /\ MadeFor(ledger, origin, s, m)
  BY <1>1 DEF SessionType, GoodSession
<1>3. Complete(ledger, origin, s, m)
  BY <1>2 DEF Complete
<1>4. s \in [user : Users, endpoint : Endpoints, key : Keys \union {NoKey}]
  BY <1>2, LedgerAssumption
<1>5. Idle \in SessionType /\ GoodSession(ledger, origin, Idle)
  BY IdleGood
<1>6. /\ UNCHANGED <<ledger, origin>> /\ sess' = [sess EXCEPT ![p] = Idle]
      /\ replies' = replies \union {<<s, m>>}
      /\ stored' = stored \/ (s.key # NoKey /\ stored' = stored \union {row})
  BY DEF SaveStore, Finish
<1>7. Types'
  <2>1. s.key # NoKey => row \in StoredRow
    BY <1>2, <1>4 DEF StoredRow
  <2> HIDE DEF row
  <2>2. stored' \subseteq StoredRow
    BY <1>6, <2>1 DEF Safe, Types
  <2>3. replies' \subseteq Saves \X Seq(Ids)
    BY <1>2, <1>6 DEF Safe, Types
  <2>4. sess' \in [Threads -> SessionType]
    BY <1>5, <1>6 DEF Safe, Types
  <2> QED
    BY <1>6, <2>2, <2>3, <2>4 DEF Safe, Types
<1>8. ASSUME NEW q \in Threads PROVE GoodSession(ledger', origin', sess'[q])
  BY <1>5, <1>6 DEF Safe, Types, SaveInv
<1>9. ASSUME NEW r \in stored', NEW t \in Saves, SameKey(r, t)
      PROVE  Complete(ledger', origin', t, r.response)
  <2>1. CASE r \in stored
    BY <1>6, <1>9, <2>1 DEF Safe, SaveInv
  <2>2. CASE r = row
    <3>1. t \in [user : Users, endpoint : Endpoints, key : Keys \union {NoKey}]
      BY LedgerAssumption
    <3>2. t.user = s.user /\ t.endpoint = s.endpoint /\ t.key = s.key
      BY <1>9, <2>2 DEF SameKey
    <3>3. t = s
      BY <1>4, <3>1, <3>2
    <3> QED
      BY <1>3, <1>6, <2>2, <3>3
  <2> HIDE DEF row
  <2> QED
    BY <1>6, <2>1, <2>2
<1>10. ASSUME NEW r \in replies' PROVE Complete(ledger', origin', r[1], r[2])
  BY <1>3, <1>6 DEF Safe, SaveInv
<1> QED
  BY <1>7, <1>8, <1>9, <1>10 DEF Safe, SaveInv

\* A replayed answer is the stored one of the same save.
LEMMA ReplaySafe ==
  ASSUME Safe, NEW p \in Threads, NEW s \in Saves, SaveReplay(p, s)
  PROVE  Safe'
<1>1. PICK r \in Saved(s) : replies' = replies \union {<<s, r.response>>}
  BY DEF SaveReplay
<1>2. r \in stored /\ SameKey(r, s)
  BY <1>1 DEF Saved, SameKey
<1>3. Complete(ledger, origin, s, r.response) /\ r.response \in Seq(Ids)
  BY <1>2 DEF Safe, SaveInv, Types, StoredRow
<1>4. UNCHANGED <<ledger, stored, sess, origin>>
  BY DEF SaveReplay, dbVars
<1>5. Types'
  BY <1>1, <1>3, <1>4 DEF Safe, Types
<1>6. ASSUME NEW t \in replies' PROVE Complete(ledger', origin', t[1], t[2])
  BY <1>1, <1>3, <1>4 DEF Safe, SaveInv
<1> QED
  BY <1>4, <1>5, <1>6 DEF Safe, SaveInv

-----------------------------------------------------------------------------
(* The other requests *)

\* A session that has just begun a request other than a save.
LEMMA JustBegun ==
  ASSUME NEW place \in Places, NEW u \in Users, NEW edits \in SUBSET Edit
  PROVE  /\ Doing(place, u, edits) \in SessionType
         /\ Doing(place, u, edits).at = place /\ Doing(place, u, edits).save = NoSave
BY IdleGood DEF Doing, SessionType, Idle

\* Requests load rows that are there and set typed values.
LEMMA LoadSafe ==
  ASSUME Safe, NEW p \in Threads, NEW u \in Users,
         UpdateLoad(p, u) \/ RecategorizeLoad(p, u) \/ DeleteLoad(p, u) \/ RecalcRequest(p, u)
  PROVE  Safe'
<1>1. \A i \in LiveIds : ledger[i] \in Expense
  BY DEF Safe, Types, LiveIds
<1>2. ASSUME NEW place \in {"edit.commit", "delete.commit", "recalc.list"},
             NEW edits \in SUBSET Edit, Begin(p, Doing(place, u, edits)),
             UNCHANGED <<ledger, origin, stored, replies>>
      PROVE  Safe'
  <2>1. place \in Places
    BY DEF Places
  <2> QED
    BY <1>2, <2>1, JustBegun, Begun
<1>3. ASSUME NEW edits \in SUBSET Edit, EditStart(p, u, edits) PROVE Safe'
  BY <1>2, <1>3 DEF EditStart, dbVars, history
<1>4. CASE UpdateLoad(p, u)
  <2>1. PICK i \in LiveIds, c \in Purchase :
          EditStart(p, u, {[id |-> i, loaded |-> ledger[i],
            new |-> [user |-> u, cat |-> c.cat, topic |-> c.topic, amount |-> c.amount]]})
    BY <1>4 DEF UpdateLoad
  <2> DEFINE new == [user |-> u, cat |-> c.cat, topic |-> c.topic, amount |-> c.amount]
  <2>2. new \in Expense
    BY DEF Purchase, Expense
  <2>3. i \in Ids /\ ledger[i] \in Expense
    BY <1>1 DEF LiveIds
  <2>4. EditStart(p, u, {[id |-> i, loaded |-> ledger[i], new |-> new]})
    BY <2>1
  <2> HIDE DEF new
  <2>5. {[id |-> i, loaded |-> ledger[i], new |-> new]} \in SUBSET Edit
    BY <2>2, <2>3 DEF Edit
  <2> QED
    BY <1>3, <2>4, <2>5
<1>5. CASE RecategorizeLoad(p, u)
  <2> DEFINE todo == {i \in LiveIds : ledger[i].user = u /\ ledger[i].cat = NoCat}
  <2>1. PICK choice \in [todo -> Cats \union {NoCat}] :
          EditStart(p, u, {[id |-> i, loaded |-> ledger[i],
                            new |-> [ledger[i] EXCEPT !.cat = choice[i]]] :
                           i \in {j \in todo : choice[j] # NoCat}})
    BY <1>5 DEF RecategorizeLoad
  <2>2. ASSUME NEW i \in todo PROVE [id |-> i, loaded |-> ledger[i],
                            new |-> [ledger[i] EXCEPT !.cat = choice[i]]] \in Edit
    <3>1. ledger[i] \in Expense /\ i \in Ids /\ choice[i] \in Cats \union {NoCat}
      BY <1>1 DEF LiveIds
    <3>2. [ledger[i] EXCEPT !.cat = choice[i]] \in Expense
      BY <3>1 DEF Expense
    <3> QED
      BY <3>1, <3>2 DEF Edit
  <2> QED
    BY <1>3, <2>1, <2>2
<1>6. CASE DeleteLoad(p, u)
  <2>1. PICK i \in LiveIds :
          /\ Begin(p, Doing("delete.commit", u,
                            {[id |-> i, loaded |-> ledger[i], new |-> ledger[i]]}))
          /\ UNCHANGED <<dbVars, calc, picked, history>>
    BY <1>6 DEF DeleteLoad
  <2>2. [id |-> i, loaded |-> ledger[i], new |-> ledger[i]] \in Edit
    BY <1>1 DEF Edit, LiveIds
  <2> QED
    BY <1>2, <2>1, <2>2 DEF dbVars, history
<1>7. CASE RecalcRequest(p, u)
  <2>1. {} \in SUBSET Edit
    OBVIOUS
  <2> QED
    BY <1>2, <1>7, <2>1 DEF RecalcRequest, dbVars, history
<1> QED
  BY <1>4, <1>5, <1>6, <1>7

\* An edit and a delete leave every row that exists a row, or Gone.
LEMMA EditSafe ==
  ASSUME Safe, NEW p \in Threads, EditCommit(p) \/ DeleteCommit(p)
  PROVE  Safe'
<1>1. sess[p].edits \subseteq Edit /\ "recalc.list" \in Places
  BY DEF Safe, Types, SessionType, Places
<1>2. CASE EditCommit(p)
  <2>1. ASSUME NEW i \in Ids
        PROVE  /\ ledger'[i] \in Expense \union {Unborn, Gone}
               /\ ledger[i] # Unborn => ledger'[i] # Unborn
    <3>1. CASE \E d \in sess[p].edits : d.id = i
      <4> DEFINE e == CHOOSE d \in sess[p].edits : d.id = i
      <4>1. e \in sess[p].edits /\ e.id = i
        BY <3>1
      <4>2. e \in Edit /\ i \in LiveIds
        BY <1>1, <1>2, <4>1 DEF EditCommit
      <4>3. ledger'[i] = Edited(ledger[i], e)
        BY <1>2, <3>1 DEF EditCommit
      <4> HIDE DEF e
      <4>4. ledger[i] \in Expense /\ e.loaded \in Expense /\ e.new \in Expense
        BY <4>2 DEF Edit, Safe, Types, LiveIds
      <4>5. Edited(ledger[i], e) \in Expense
        BY <4>4 DEF Edited, Net, Expense
      <4> QED
        BY <4>3, <4>5, LedgerAssumption
    <3>2. CASE ~ \E d \in sess[p].edits : d.id = i
      BY <1>2, <3>2 DEF EditCommit, Safe, Types
    <3> QED
      BY <3>1, <3>2
  <2>2. ledger' \in [Ids -> Expense \union {Unborn, Gone}]
    <3>1. ledger' = [i \in Ids |-> ledger'[i]]
      BY <1>2 DEF EditCommit
    <3> QED
      BY <2>1, <3>1
  <2>3. Goto(p, "recalc.list") /\ UNCHANGED <<origin, stored, replies>>
    BY <1>2 DEF EditCommit, history
  <2> QED
    BY <1>1, <2>1, <2>2, <2>3, Moved
<1>3. CASE DeleteCommit(p)
  <2>1. /\ ledger' \in [Ids -> Expense \union {Unborn, Gone}]
        /\ \A i \in Ids : ledger[i] # Unborn => ledger'[i] # Unborn
    BY <1>3, LedgerAssumption DEF DeleteCommit, Safe, Types
  <2>2. Goto(p, "recalc.list") /\ UNCHANGED <<origin, stored, replies>>
    BY <1>3 DEF DeleteCommit, history
  <2> QED
    BY <1>1, <2>1, <2>2, Moved
<1> QED
  BY <1>2, <1>3

\* So do the steps that sum budgets and those of budget requests, which do not
\* touch the ledger at all.
LEMMA BudgetSafe ==
  ASSUME Safe, NEW p \in Threads,
         \/ RecalcList(p) \/ RecalcLoad(p) \/ RecalcGone(p) \/ RecalcSum(p)
         \/ RecalcWrite(p) \/ RecalcDone(p)
         \/ BudgetCommit(p) \/ MonthlyCommit(p) \/ BudgetFails(p)
         \/ \E b \in Budgets : \/ BudgetCreate(p, b) \/ BudgetDelete(p, b)
                               \/ \E place \in {"budget.commit", "budget.monthly"} :
                                    BudgetLoad(p, b, place)
  PROVE  Safe'
<1>1. UNCHANGED <<ledger, origin, stored, replies>>
  BY DEF RecalcList, RecalcLoad, RecalcGone, RecalcSum, RecalcWrite, RecalcDone,
         BudgetCommit, MonthlyCommit, BudgetFails, BudgetCreate, BudgetDelete, BudgetLoad,
         dbVars, history
<1>2. ledger' \in [Ids -> Expense \union {Unborn, Gone}]
  BY <1>1 DEF Safe, Types
<1>3. ASSUME NEW place \in {"recalc", "recalc.sum", "recalc.write"}, Goto(p, place) PROVE Safe'
  <2>1. place \in Places
    BY DEF Places
  <2> QED
    BY <1>1, <1>2, <1>3, <2>1, Moved
<1>4. ASSUME Goto(p, "save.notify"), sess[p].save # NoSave PROVE Safe'
  <2>1. "save.notify" \in Places
    BY DEF Places
  <2> QED
    BY <1>1, <1>2, <1>4, <2>1, Moved
<1>5. ASSUME UNCHANGED sess PROVE Safe'
  BY <1>1, <1>5, Untouched
<1>6. ASSUME Finish(p) PROVE Safe'
  BY <1>1, <1>6, Ended
<1>7. ASSUME NEW b \in Budgets, NEW place \in {"recalc", "budget.commit", "budget.monthly"},
             Begin(p, Doing(place, BudgetOwner[b], {}))
      PROVE  Safe'
  <2>1. BudgetOwner[b] \in Users /\ place \in Places
    BY LedgerAssumption DEF Places
  <2>2. {} \in SUBSET Edit
    OBVIOUS
  <2> QED
    BY <1>1, <1>7, <2>1, <2>2, JustBegun, Begun
<1>8. CASE RecalcList(p)
  BY <1>3, <1>8 DEF RecalcList
<1>9. CASE RecalcLoad(p)
  BY <1>3, <1>5, <1>9 DEF RecalcLoad
<1>10. CASE RecalcGone(p)
  BY <1>5, <1>10 DEF RecalcGone
<1>11. CASE RecalcSum(p)
  BY <1>3, <1>11 DEF RecalcSum
<1>12. CASE RecalcWrite(p)
  BY <1>3, <1>12 DEF RecalcWrite
<1>13. CASE RecalcDone(p)
  BY <1>4, <1>6, <1>13 DEF RecalcDone
<1>14. CASE BudgetCommit(p)
  BY <1>3, <1>14 DEF BudgetCommit
<1>15. CASE MonthlyCommit(p) \/ BudgetFails(p)
  BY <1>6, <1>15 DEF MonthlyCommit, BudgetFails
<1>16. ASSUME NEW b \in Budgets, BudgetCreate(p, b) PROVE Safe'
  BY <1>7, <1>16 DEF BudgetCreate
<1>17. ASSUME NEW b \in Budgets, BudgetDelete(p, b) PROVE Safe'
  BY <1>5, <1>17 DEF BudgetDelete
<1>18. ASSUME NEW b \in Budgets, NEW place \in {"budget.commit", "budget.monthly"},
              BudgetLoad(p, b, place)
       PROVE  Safe'
  BY <1>7, <1>18 DEF BudgetLoad
<1> QED
  BY <1>8, <1>9, <1>10, <1>11, <1>12, <1>13, <1>14, <1>15, <1>16, <1>17, <1>18

-----------------------------------------------------------------------------
(* Every step, and the theorem *)

\* Nothing has been saved yet.
LEMMA SafeInit == Init => Safe
<1> SUFFICES ASSUME Init PROVE Safe
  OBVIOUS
<1>1. Types
  BY IdleGood DEF Init, Types
<1>2. SaveInv
  BY IdleGood DEF Init, SaveInv
<1> QED
  BY <1>1, <1>2 DEF Safe

\* Every step keeps the invariant.
LEMMA SafeStep == Safe /\ [Next]_vars => Safe'
<1> SUFFICES ASSUME Safe, [Next]_vars PROVE Safe'
  OBVIOUS
<1>1. CASE UNCHANGED vars
  BY <1>1, Untouched DEF vars, dbVars, history
<1>2. ASSUME NEW p \in Threads, Request(p) PROVE Safe'
  <2>1. ASSUME NEW s \in Saves, SaveReplay(p, s) \/ SaveStart(p, s) PROVE Safe'
    BY <2>1, ReplaySafe, StartSafe
  <2>2. ASSUME NEW u \in Users,
               \/ UpdateLoad(p, u) \/ RecategorizeLoad(p, u)
               \/ DeleteLoad(p, u) \/ RecalcRequest(p, u)
        PROVE  Safe'
    BY <2>2, LoadSafe
  <2>3. ASSUME NEW b \in Budgets,
               \/ BudgetCreate(p, b) \/ BudgetDelete(p, b)
               \/ BudgetLoad(p, b, "budget.commit") \/ BudgetLoad(p, b, "budget.monthly")
        PROVE  Safe'
    BY <2>3, BudgetSafe
  <2> QED
    BY <1>2, <2>1, <2>2, <2>3 DEF Request
<1>3. ASSUME NEW p \in Threads, Continue(p) PROVE Safe'
  <2>1. ASSUME Dies(p), UNCHANGED <<dbVars, picked>> PROVE Safe'
    BY <2>1, Ended DEF Dies, dbVars
  <2>2. CASE SaveInsert(p) \/ SaveNotify(p) \/ SaveStore(p)
    BY <2>2, InsertSafe, NotifySafe, StoreSafe
  <2>3. CASE SaveLost(p) \/ EditFails(p) \/ RecalcFails(p)
    BY <2>1, <2>3 DEF SaveLost, EditFails, RecalcFails
  <2>4. CASE EditCommit(p) \/ DeleteCommit(p)
    BY <2>4, EditSafe
  <2> QED
    BY <1>3, <2>2, <2>3, <2>4, BudgetSafe DEF Continue
<1>4. ASSUME NEW p \in Threads, Crash(p) PROVE Safe'
  BY <1>4, Ended DEF Crash, Dies, dbVars
<1>5. ASSUME NEW w \in Workers, Work(w) PROVE Safe'
  BY <1>5, Untouched DEF Work, WorkerSelect, WorkerCommit, WorkerDies, dbVars, history
<1>6. ASSUME NEW b \in Budgets, NEW by \in {"inline", "worker"}, AlertsAge(b, by) PROVE Safe'
  BY <1>6, Untouched DEF AlertsAge, history
<1> QED
  BY <1>1, <1>2, <1>3, <1>4, <1>5, <1>6 DEF Next

\* Whatever overlaps, fails or is retried, a client that gets an answer to a
\* save has all its items in the ledger, and the answer names them in order:
\* never those of another user, another endpoint or another key.
THEOREM RepliesAreTruthful == Spec => []RepliesTruthful
<1>1. Safe => RepliesTruthful
  BY DEF Safe, SaveInv, Complete, MadeFor, RepliesTruthful
<1> QED
  BY <1>1, SafeInit, SafeStep, PTL DEF Spec

-----------------------------------------------------------------------------
(* Saves that do not overlap *)

OneThread == \A p, q \in Threads : p = q

\* Every expense of a keyed save is accounted for: the save is being made, or
\* its response is stored, or a request for it has died.
Listed(i, m) == \E n \in 1..Len(m) : m[n] = i
Accounted(i) ==
  \/ origin[i][1] \in broken
  \/ \E p \in Threads : sess[p].save = origin[i][1] /\ Listed(i, sess[p].made)
  \/ \E r \in stored : SameKey(r, origin[i][1]) /\ Listed(i, r.response)

KeyInv ==
  /\ \A i \in Ids : Keyed(i) => Accounted(i)
  /\ \A r, t \in stored : SameKey(r, t) => r = t
  /\ \A p \in Threads, r \in stored : sess[p].save # NoSave => ~SameKey(r, sess[p].save)
  /\ \A p \in Threads : sess[p].at \in {"idle", "budget.commit", "budget.monthly"}
                        => sess[p].save = NoSave

\* Nothing changes but budgets, alerts and rows of expenses.
LEMMA KeyUntouched ==
  ASSUME KeyInv, UNCHANGED <<stored, sess, origin, broken>>
  PROVE  KeyInv'
BY DEF KeyInv, Keyed, Accounted

\* One session changes and keeps its save, or begins one that is not stored, or
\* is left without one that had nothing made or has died.
LEMMA KeyKept ==
  ASSUME OneThread, Safe, KeyInv, NEW p \in Threads, NEW x,
         sess' = [sess EXCEPT ![p] = x],
         UNCHANGED <<stored, origin>>, broken \subseteq broken',
         \/ x.save = sess[p].save /\ x.made = sess[p].made
         \/ sess[p].save = NoSave \/ sess[p].made = <<>> \/ sess[p].save \in broken',
         x.save = NoSave \/ x.save = sess[p].save
           \/ \A r \in stored : ~SameKey(r, x.save),
         x.at \in {"idle", "budget.commit", "budget.monthly"} => x.save = NoSave
  PROVE  KeyInv'
<1>1. sess'[p] = x /\ \A q \in Threads : q = p
  BY DEF OneThread, Safe, Types
<1>2. ASSUME NEW i \in Ids, Keyed(i)' PROVE Accounted(i)'
  <2>1. Keyed(i) /\ origin'[i] = origin[i] /\ Accounted(i) /\ origin[i][1] # NoSave
    BY <1>2 DEF Keyed, KeyInv
  <2>2. CASE origin[i][1] \in broken
    BY <2>1, <2>2 DEF Accounted
  <2>3. CASE sess[p].save = origin[i][1] /\ Listed(i, sess[p].made)
    <3>1. sess[p].made # <<>>
      BY <2>3 DEF Listed
    <3>2. CASE x.save = sess[p].save /\ x.made = sess[p].made
      BY <1>1, <2>1, <2>3, <3>2 DEF Accounted
    <3>3. CASE sess[p].save \in broken'
      BY <2>1, <2>3, <3>3 DEF Accounted
    <3> QED
      BY <2>1, <2>3, <3>1, <3>2, <3>3
  <2>4. CASE \E r \in stored : SameKey(r, origin[i][1]) /\ Listed(i, r.response)
    BY <2>1, <2>4 DEF Accounted
  <2> QED
    BY <1>1, <2>1, <2>2, <2>3, <2>4 DEF Accounted
<1>3. \A q \in Threads, r \in stored' : sess'[q].save # NoSave => ~SameKey(r, sess'[q].save)
  BY <1>1 DEF KeyInv
<1> QED
  BY <1>1, <1>2, <1>3 DEF KeyInv

\* A request other than a save begins.
LEMMA KeyBegun ==
  ASSUME OneThread, Safe, KeyInv, NEW p \in Threads, NEW place, NEW u, NEW edits,
         Begin(p, Doing(place, u, edits)), UNCHANGED <<stored, origin, broken>>
  PROVE  KeyInv'
<1>1. Doing(place, u, edits).save = NoSave /\ sess[p].save = NoSave
  BY DEF Doing, Idle, Begin, KeyInv
<1> QED
  BY <1>1, KeyKept DEF Begin

\* A session moves on.
LEMMA KeyMoved ==
  ASSUME OneThread, Safe, KeyInv, NEW p \in Threads, NEW place, Goto(p, place),
         place \notin {"idle", "budget.commit", "budget.monthly"},
         UNCHANGED <<stored, origin, broken>>
  PROVE  KeyInv'
<1> DEFINE x == [sess[p] EXCEPT !.at = place]
<1>1. sess[p] \in SessionType
  BY DEF Safe, Types
<1>2. x.at = place /\ x.save = sess[p].save /\ x.made = sess[p].made
  BY <1>1 DEF SessionType
<1>3. sess' = [sess EXCEPT ![p] = x]
  BY DEF Goto
<1> HIDE DEF x
<1> QED
  BY <1>2, <1>3, KeyKept

\* A session without a save ends.
LEMMA KeyEnded ==
  ASSUME OneThread, Safe, KeyInv, NEW p \in Threads, Finish(p), sess[p].save = NoSave,
         UNCHANGED <<stored, origin, broken>>
  PROVE  KeyInv'
BY KeyKept DEF Finish, Idle

\* A session dies, leaving its save to the broken ones if it had made something.
LEMMA KeyDied ==
  ASSUME OneThread, Safe, KeyInv, NEW p \in Threads, Dies(p), UNCHANGED stored
  PROVE  KeyInv'
<1>1. /\ sess' = [sess EXCEPT ![p] = Idle] /\ UNCHANGED <<stored, origin>>
      /\ broken \subseteq broken'
      /\ sess[p].made = <<>> \/ sess[p].save \in broken'
  BY DEF Dies, Finish
<1>2. Idle.save = NoSave
  BY DEF Idle
<1> QED
  BY <1>1, <1>2, KeyKept

\* A save begins only when its key is not stored.
LEMMA KeyStart ==
  ASSUME OneThread, Safe, KeyInv, NEW p \in Threads, NEW s \in Saves, SaveStart(p, s)
  PROVE  KeyInv'
<1> DEFINE x == [at |-> IF Items[s] = <<>> THEN "save.store" ELSE "save.insert",
                 user |-> s.user, save |-> s, made |-> <<>>, edits |-> {}]
<1>1. sess[p].save = NoSave /\ sess' = [sess EXCEPT ![p] = x]
      /\ UNCHANGED <<stored, origin, broken>>
  BY DEF SaveStart, Begin, KeyInv, dbVars, history
<1>2. ASSUME NEW r \in stored PROVE ~SameKey(r, s)
  <2>1. r.key \in Keys /\ r \notin Saved(s)
    BY DEF Safe, Types, StoredRow, SaveStart
  <2> QED
    BY <2>1, LedgerAssumption DEF Saved, SameKey
<1>3. x.save = s /\ x.at \in {"save.store", "save.insert"}
  OBVIOUS
<1> HIDE DEF x
<1> QED
  BY <1>1, <1>2, <1>3, KeyKept

\* The id an insert takes is listed by the session.
LEMMA KeyInsert ==
  ASSUME OneThread, Safe, KeyInv, NEW p \in Threads, SaveInsert(p)
  PROVE  KeyInv'
<1> DEFINE s == sess[p].save
           m == sess[p].made
<1>1. sess[p] \in SessionType /\ sess[p].at = "save.insert" /\ GoodSession(ledger, origin, sess[p])
  BY DEF Safe, Types, SaveInv, SaveInsert
<1>2. m \in Seq(Ids) /\ s # NoSave
  BY <1>1 DEF SessionType, GoodSession
<1>3. PICK i \in Ids :
        /\ origin' = [origin EXCEPT ![i] = <<s, Len(m) + 1>>]
        /\ sess' = [sess EXCEPT ![p].at = "recalc.list", ![p].made = Append(@, i)]
  BY DEF SaveInsert
<1>4. /\ sess'[p].at = "recalc.list" /\ sess'[p].save = s /\ sess'[p].made = Append(m, i)
      /\ \A q \in Threads : q = p
  BY <1>1, <1>3 DEF SessionType, OneThread, Safe, Types
<1>5. UNCHANGED <<stored, broken>>
  BY DEF SaveInsert
<1>6. /\ Len(Append(m, i)) = Len(m) + 1 /\ Append(m, i)[Len(m) + 1] = i /\ Len(m) \in Nat
      /\ \A k \in 1..Len(m) : Append(m, i)[k] = m[k]
  BY <1>2, AppendProperties
<1>7. ASSUME NEW j \in Ids, j = i \/ Listed(j, m) PROVE Listed(j, Append(m, i))
  <2>1. CASE j = i
    BY <1>6, <2>1 DEF Listed
  <2>2. CASE Listed(j, m)
    <3>1. PICK k \in 1..Len(m) : m[k] = j
      BY <2>2 DEF Listed
    <3>2. k \in 1..Len(Append(m, i)) /\ Append(m, i)[k] = j
      BY <1>6, <3>1
    <3> QED
      BY <3>2 DEF Listed
  <2> QED
    BY <1>7, <2>1, <2>2
<1>8. ASSUME NEW j \in Ids, Keyed(j)' PROVE Accounted(j)'
  <2>1. CASE j = i
    <3>1. origin'[j][1] = s
      BY <1>3, <2>1 DEF Safe, Types
    <3> QED
      BY <1>4, <1>7, <2>1, <3>1 DEF Accounted
  <2>2. CASE j # i
    <3>1. origin'[j] = origin[j] /\ Keyed(j) /\ Accounted(j)
      BY <1>3, <1>8, <2>2 DEF Safe, Types, Keyed, KeyInv
    <3>2. CASE \E q \in Threads : sess[q].save = origin[j][1] /\ Listed(j, sess[q].made)
      BY <1>4, <1>7, <3>1, <3>2 DEF Accounted
    <3> QED
      BY <1>5, <3>1, <3>2 DEF Accounted
  <2> QED
    BY <2>1, <2>2
<1> QED
  BY <1>2, <1>4, <1>5, <1>8 DEF KeyInv

\* What the session lists is listed by the row it stores.
LEMMA KeyStore ==
  ASSUME OneThread, Safe, KeyInv, NEW p \in Threads, SaveStore(p)
  PROVE  KeyInv'
<1> DEFINE s == sess[p].save
           m == sess[p].made
           row == [user |-> s.user, endpoint |-> s.endpoint, key |-> s.key, response |-> m]
<1>1. sess[p] \in SessionType /\ sess[p].at = "save.store" /\ GoodSession(ledger, origin, sess[p])
  BY DEF Safe, Types, SaveInv, SaveStore
<1>2. s # NoSave
  BY <1>1 DEF GoodSession
<1>3. \A r \in stored : ~SameKey(r, s)
  BY <1>2 DEF KeyInv
<1>4. Saved(s) = {}
  BY <1>3 DEF Saved, SameKey
<1>5. /\ stored' = IF s.key = NoKey THEN stored ELSE stored \union {row}
      /\ UNCHANGED <<origin, broken>>
  BY <1>4 DEF SaveStore
<1>6. sess'[p] = Idle /\ \A q \in Threads : q = p
  BY DEF SaveStore, Finish, OneThread, Safe, Types
<1>7. Idle.save = NoSave
  BY DEF Idle
<1>8. row.response = m /\ SameKey(row, s) /\ \A r : SameKey(r, row) \/ SameKey(row, r) => SameKey(r, s)
  BY DEF SameKey
<1> HIDE DEF row
<1>9. ASSUME NEW i \in Ids, Keyed(i)' PROVE Accounted(i)'
  <2>1. Keyed(i) /\ origin'[i] = origin[i] /\ Accounted(i) /\ origin[i][1].key # NoKey
    BY <1>5, <1>9 DEF Keyed, KeyInv
  <2>2. CASE \E q \in Threads : sess[q].save = origin[i][1] /\ Listed(i, sess[q].made)
    <3>1. s = origin[i][1] /\ Listed(i, m)
      BY <1>6, <2>2
    <3>2. row \in stored' /\ SameKey(row, origin'[i][1]) /\ Listed(i, row.response)
      BY <1>5, <1>8, <2>1, <3>1
    <3> QED
      BY <3>2 DEF Accounted
  <2> QED
    BY <1>5, <2>1, <2>2 DEF Accounted
<1>10. \A r, t \in stored' : SameKey(r, t) => r = t
  BY <1>3, <1>5, <1>8 DEF KeyInv
<1> QED
  BY <1>6, <1>7, <1>9, <1>10 DEF KeyInv

\* Requests other than saves have no save.
LEMMA KeyRequest ==
  ASSUME OneThread, Safe, KeyInv, NEW p \in Threads, Request(p)
  PROVE  KeyInv'
<1>1. ASSUME NEW place, NEW u, NEW edits, Begin(p, Doing(place, u, edits)),
             UNCHANGED <<stored, origin, broken>>
      PROVE  KeyInv'
  BY <1>1, KeyBegun
<1>2. ASSUME NEW s \in Saves, SaveReplay(p, s) PROVE KeyInv'
  BY <1>2, KeyUntouched DEF SaveReplay, dbVars
<1>3. ASSUME NEW s \in Saves, SaveStart(p, s) PROVE KeyInv'
  BY <1>3, KeyStart
<1>4. ASSUME NEW u \in Users, UpdateLoad(p, u) PROVE KeyInv'
  <2>1. PICK edits : EditStart(p, u, edits)
    BY <1>4 DEF UpdateLoad
  <2> QED
    BY <1>1, <2>1 DEF EditStart, dbVars, history
<1>5. ASSUME NEW u \in Users, RecategorizeLoad(p, u) PROVE KeyInv'
  <2>1. PICK edits : EditStart(p, u, edits)
    BY <1>5 DEF RecategorizeLoad
  <2> QED
    BY <1>1, <2>1 DEF EditStart, dbVars, history
<1>6. ASSUME NEW u \in Users, DeleteLoad(p, u) PROVE KeyInv'
  <2>1. PICK edits : Begin(p, Doing("delete.commit", u, edits))
    BY <1>6 DEF DeleteLoad
  <2> QED
    BY <1>1, <1>6, <2>1 DEF DeleteLoad, dbVars, history
<1>7. ASSUME NEW u \in Users, RecalcRequest(p, u) PROVE KeyInv'
  BY <1>1, <1>7 DEF RecalcRequest, dbVars, history
<1>8. ASSUME NEW b \in Budgets, BudgetCreate(p, b) PROVE KeyInv'
  BY <1>1, <1>8 DEF BudgetCreate, history
<1>9. ASSUME NEW b \in Budgets, BudgetDelete(p, b) PROVE KeyInv'
  BY <1>9, KeyUntouched DEF BudgetDelete, history
<1>10. ASSUME NEW b \in Budgets, NEW place, BudgetLoad(p, b, place) PROVE KeyInv'
  BY <1>1, <1>10 DEF BudgetLoad, dbVars, history
<1> QED
  BY <1>2, <1>3, <1>4, <1>5, <1>6, <1>7, <1>8, <1>9, <1>10 DEF Request

\* Steps inside a request keep its save until it is stored.
LEMMA KeyContinue ==
  ASSUME OneThread, Safe, KeyInv, NEW p \in Threads, Continue(p)
  PROVE  KeyInv'
<1>1. ASSUME NEW place \in {"recalc.list", "recalc", "recalc.sum", "recalc.write",
                           "save.notify", "save.insert", "save.store"},
             Goto(p, place), UNCHANGED <<stored, origin, broken>>
      PROVE  KeyInv'
  BY <1>1, KeyMoved
<1>2. CASE SaveInsert(p)
  BY <1>2, KeyInsert
<1>3. CASE SaveNotify(p)
  BY <1>1, <1>3 DEF SaveNotify, history
<1>4. CASE SaveStore(p)
  BY <1>4, KeyStore
<1>5. CASE EditCommit(p) \/ DeleteCommit(p)
  BY <1>1, <1>5 DEF EditCommit, DeleteCommit, history
<1>6. CASE RecalcList(p) \/ RecalcSum(p) \/ RecalcWrite(p) \/ BudgetCommit(p)
  BY <1>1, <1>6 DEF RecalcList, RecalcSum, RecalcWrite, BudgetCommit, dbVars, history
<1>7. CASE RecalcLoad(p)
  BY <1>1, <1>7, KeyUntouched DEF RecalcLoad, dbVars, history
<1>8. CASE RecalcGone(p)
  BY <1>8, KeyUntouched DEF RecalcGone, dbVars
<1>9. CASE RecalcDone(p)
  BY <1>1, <1>9, KeyEnded DEF RecalcDone, dbVars
<1>10. CASE MonthlyCommit(p) \/ BudgetFails(p)
  <2>1. sess[p].save = NoSave
    BY <1>10 DEF KeyInv, MonthlyCommit, BudgetFails
  <2> QED
    BY <1>10, <2>1, KeyEnded DEF MonthlyCommit, BudgetFails, dbVars, history
<1>11. CASE SaveLost(p) \/ EditFails(p) \/ RecalcFails(p)
  BY <1>11, KeyDied DEF SaveLost, EditFails, RecalcFails, dbVars
<1> QED
  BY <1>2, <1>3, <1>4, <1>5, <1>6, <1>7, <1>8, <1>9, <1>10, <1>11 DEF Continue

\* Every step of requests that do not overlap keeps account of the expenses.
LEMMA KeyStep == OneThread /\ Safe /\ KeyInv /\ [Next]_vars => KeyInv'
<1> SUFFICES ASSUME OneThread, Safe, KeyInv, [Next]_vars PROVE KeyInv'
  OBVIOUS
<1>1. CASE UNCHANGED vars
  BY <1>1, KeyUntouched DEF vars, dbVars, history
<1>2. ASSUME NEW p \in Threads, Crash(p) PROVE KeyInv'
  BY <1>2, KeyDied DEF Crash, dbVars
<1>3. ASSUME NEW w \in Workers, Work(w) PROVE KeyInv'
  BY <1>3, KeyUntouched DEF Work, WorkerSelect, WorkerCommit, WorkerDies, dbVars, history
<1>4. ASSUME NEW b \in Budgets, NEW by \in {"inline", "worker"}, AlertsAge(b, by) PROVE KeyInv'
  BY <1>4, KeyUntouched DEF AlertsAge, history
<1> QED
  BY <1>1, <1>2, <1>3, <1>4, KeyRequest, KeyContinue DEF Next

\* No expense is of a save yet.
LEMMA KeyInit == Init => KeyInv
<1> SUFFICES ASSUME Init PROVE KeyInv
  OBVIOUS
<1>1. \A i \in Ids : ~Keyed(i)
  BY DEF Init, Keyed
<1> QED
  BY <1>1 DEF Init, KeyInv, Idle

\* Two expenses of one item of a keyed save, not broken, are the same.
LEMMA AccountedOnce ==
  ASSUME OneThread, Safe, KeyInv, NEW i \in Ids, NEW j \in Ids, Keyed(i),
         origin[i] = origin[j], origin[i][1] \notin broken
  PROVE  i = j
<1> DEFINE s == origin[i][1]
<1>1. Keyed(j) /\ Accounted(i) /\ Accounted(j) /\ s # NoSave /\ s \in Saves /\ s = origin[j][1]
  BY DEF Keyed, KeyInv, Safe, Types
<1>2. ASSUME NEW m, Listed(i, m), Listed(j, m), MadeFor(ledger, origin, s, m) PROVE i = j
  <2>1. PICK a \in 1..Len(m) : m[a] = i
    BY <1>2 DEF Listed
  <2>2. PICK b \in 1..Len(m) : m[b] = j
    BY <1>2 DEF Listed
  <2>3. origin[i] = <<s, a>> /\ origin[j] = <<s, b>>
    BY <1>2, <2>1, <2>2 DEF MadeFor
  <2>4. a = b
    BY <2>3
  <2> QED
    BY <2>1, <2>2, <2>4
<1>3. ASSUME NEW p \in Threads, sess[p].save = s
      PROVE  MadeFor(ledger, origin, s, sess[p].made) /\ \A r \in stored : ~SameKey(r, s)
  BY <1>1, <1>3 DEF Safe, SaveInv, GoodSession, KeyInv
<1>4. ASSUME NEW r \in stored, SameKey(r, s) PROVE MadeFor(ledger, origin, s, r.response)
  BY <1>1, <1>4 DEF Safe, SaveInv, Complete
<1>5. ASSUME NEW r \in stored, NEW t \in stored, SameKey(r, s), SameKey(t, s) PROVE r = t
  BY <1>5 DEF KeyInv, SameKey
<1> HIDE DEF s
<1>6. CASE \E p \in Threads : sess[p].save = s /\ Listed(i, sess[p].made)
  <2>1. PICK p \in Threads : sess[p].save = s /\ Listed(i, sess[p].made)
    BY <1>6
  <2>2. Listed(j, sess[p].made)
    BY <1>1, <1>3, <2>1 DEF Accounted, OneThread, s
  <2> QED
    BY <1>2, <1>3, <2>1, <2>2
<1>7. CASE \E r \in stored : SameKey(r, s) /\ Listed(i, r.response)
  <2>1. PICK r \in stored : SameKey(r, s) /\ Listed(i, r.response)
    BY <1>7
  <2>2. PICK t \in stored : SameKey(t, s) /\ Listed(j, t.response)
    BY <1>1, <1>3, <2>1 DEF Accounted, s
  <2>3. r = t
    BY <1>5, <2>1, <2>2
  <2> QED
    BY <1>2, <1>4, <2>1, <2>2, <2>3
<1> QED
  BY <1>1, <1>6, <1>7 DEF Accounted, s

\* Where requests do not overlap, a client may retry a save under its key as
\* often as it likes, before, between and after crashes: no item of it is in
\* the ledger twice, unless a request for it died after inserting something.
THEOREM RetriesSaveOnce ==
  ASSUME OneThread
  PROVE  Spec => []OnceUnlessBroken
<1>1. Safe /\ KeyInv => OnceUnlessBroken
  BY AccountedOnce DEF OnceUnlessBroken
<1>2. Safe /\ KeyInv /\ [Next]_vars => KeyInv'
  BY KeyStep
<1> QED
  BY <1>1, <1>2, SafeInit, SafeStep, KeyInit, PTL DEF Spec

-----------------------------------------------------------------------------
(* The hourly alert task                                                    *)

OneWorker == \A v, w \in Workers : v = w

\* What the one worker has picked it has not alerted about.
AlertInv ==
  /\ alerts \in [Budgets -> [inline : 0..1, worker : 0..1]]
  /\ picked \in [Workers -> SUBSET Budgets]
  /\ \A w \in Workers : \A b \in picked[w] : alerts[b].worker = 0

\* Every step but those of the worker leaves the counts as they are, or lower.
LEMMA AlertLess ==
  ASSUME AlertInv, alerts' \in [Budgets -> [inline : 0..1, worker : 0..1]],
         \A b \in Budgets : alerts'[b].worker <= alerts[b].worker, picked' = picked
  PROVE  AlertInv'
<1>1. ASSUME NEW w \in Workers, NEW b \in picked[w] PROVE alerts'[b].worker = 0
  <2>1. b \in Budgets /\ alerts[b].worker = 0
    BY DEF AlertInv
  <2>2. alerts'[b].worker \in 0..1 /\ alerts'[b].worker <= 0
    BY <2>1
  <2> QED
    BY <2>2
<1> QED
  BY <1>1 DEF AlertInv

\* No step of the one worker, or of anybody else, makes a second alert in a day.
LEMMA AlertStep == OneWorker /\ AlertInv /\ [Next]_vars => AlertInv'
<1> SUFFICES ASSUME OneWorker, AlertInv, [Next]_vars PROVE AlertInv'
  OBVIOUS
<1>1. ASSUME UNCHANGED <<alerts, picked>> PROVE AlertInv'
  BY <1>1 DEF AlertInv
<1>2. CASE UNCHANGED vars
  BY <1>1, <1>2 DEF vars, dbVars
<1>3. ASSUME NEW p \in Threads, SaveNotify(p) PROVE AlertInv'
  <2>1. CASE UNCHANGED alerts
    BY <1>1, <1>3, <2>1 DEF SaveNotify
  <2>2. ASSUME NEW b \in OverOn(sess[p].user, sess[p].made[Len(sess[p].made)]),
               alerts' = [alerts EXCEPT ![b].inline = 1]
        PROVE  AlertInv'
    <3>1. b \in Budgets /\ alerts[b] \in [inline : 0..1, worker : 0..1]
      BY DEF OverOn, ActiveOf, LiveBudgets, AlertInv
    <3>2. [alerts[b] EXCEPT !.inline = 1] \in [inline : 0..1, worker : 0..1]
          /\ [alerts[b] EXCEPT !.inline = 1].worker = alerts[b].worker
      BY <3>1
    <3>3. /\ alerts' \in [Budgets -> [inline : 0..1, worker : 0..1]]
          /\ \A d \in Budgets : alerts'[d].worker = alerts[d].worker
      BY <2>2, <3>1, <3>2 DEF AlertInv
    <3>4. \A d \in Budgets : alerts'[d].worker <= alerts[d].worker
      BY <3>3 DEF AlertInv
    <3> QED
      BY <1>3, <3>3, <3>4, AlertLess DEF SaveNotify
  <2> QED
    BY <1>3, <2>1, <2>2 DEF SaveNotify
<1>4. ASSUME NEW p \in Threads, Request(p) \/ Continue(p) \/ Crash(p) PROVE AlertInv'
  <2>1. CASE Request(p)
    BY <1>1, <2>1 DEF Request, SaveReplay, SaveStart, UpdateLoad, RecategorizeLoad, EditStart,
       DeleteLoad, RecalcRequest, BudgetCreate, BudgetDelete, BudgetLoad, dbVars
  <2>2. CASE Continue(p)
    <3>1. SaveNotify(p) \/ UNCHANGED <<alerts, picked>>
      BY <2>2 DEF Continue, SaveInsert, SaveLost, SaveStore, EditCommit, EditFails, DeleteCommit,
         RecalcList, RecalcLoad, RecalcGone, RecalcSum, RecalcWrite, RecalcFails, RecalcDone,
         BudgetCommit, MonthlyCommit, BudgetFails, dbVars
    <3> QED
      BY <1>1, <1>3, <3>1
  <2>3. CASE Crash(p)
    BY <1>1, <2>3 DEF Crash, dbVars
  <2> QED
    BY <1>4, <2>1, <2>2, <2>3
<1>5. ASSUME NEW w \in Workers, Work(w) PROVE AlertInv'
  <2>0. \A v \in Workers : v = w
    BY DEF OneWorker
  <2>1. CASE WorkerSelect(w)
    <3>1. AtRisk \subseteq Budgets /\ \A b \in AtRisk : alerts[b].worker = 0
      BY DEF AtRisk, LiveBudgets
    <3>2. alerts' = alerts /\ picked' = [picked EXCEPT ![w] = AtRisk]
      BY <2>1 DEF WorkerSelect, dbVars
    <3> QED
      BY <2>0, <3>1, <3>2 DEF AlertInv
  <2>2. CASE WorkerDies(w)
    <3>1. alerts' = alerts /\ picked' = [picked EXCEPT ![w] = {}]
      BY <2>2 DEF WorkerDies, dbVars
    <3> QED
      BY <2>0, <3>1 DEF AlertInv
  <2>3. CASE WorkerCommit(w)
    <3>1. /\ alerts' = [b \in Budgets |-> IF b \in picked[w]
                  THEN [alerts[b] EXCEPT !.worker = OneMore(@)] ELSE alerts[b]]
          /\ picked' = [picked EXCEPT ![w] = {}]
      BY <2>3 DEF WorkerCommit
    <3>2. ASSUME NEW b \in Budgets PROVE alerts'[b] \in [inline : 0..1, worker : 0..1]
      <4>1. CASE b \in picked[w]
        <5>1. alerts'[b] = [alerts[b] EXCEPT !.worker = OneMore(0)]
          BY <3>1, <4>1 DEF AlertInv
        <5>2. OneMore(0) \in 0..1
          BY DEF OneMore
        <5> QED
          BY <5>1, <5>2 DEF AlertInv
      <4>2. CASE b \notin picked[w]
        BY <3>1, <4>2 DEF AlertInv
      <4> QED
        BY <4>1, <4>2
    <3>3. alerts' \in [Budgets -> [inline : 0..1, worker : 0..1]]
      BY <3>1, <3>2
    <3>4. picked' \in [Workers -> SUBSET Budgets] /\ \A v \in Workers : picked'[v] = {}
      BY <2>0, <3>1 DEF AlertInv
    <3> QED
      BY <3>3, <3>4 DEF AlertInv
  <2> QED
    BY <1>5, <2>1, <2>2, <2>3 DEF Work
<1>6. ASSUME NEW b \in Budgets, NEW by \in {"inline", "worker"}, AlertsAge(b, by) PROVE AlertInv'
  <2>1. alerts' = [alerts EXCEPT ![b][by] = 0] /\ picked' = picked
    BY <1>6 DEF AlertsAge
  <2>2. alerts[b] \in [inline : 0..1, worker : 0..1]
    BY DEF AlertInv
  <2>3. /\ [alerts[b] EXCEPT ![by] = 0] \in [inline : 0..1, worker : 0..1]
        /\ [alerts[b] EXCEPT ![by] = 0].worker <= alerts[b].worker
    <3>1. CASE by = "inline"
      BY <2>2, <3>1
    <3>2. CASE by = "worker"
      BY <2>2, <3>2
    <3> QED
      BY <3>1, <3>2
  <2>4. /\ alerts' \in [Budgets -> [inline : 0..1, worker : 0..1]]
        /\ \A d \in Budgets : alerts'[d] = IF d = b THEN [alerts[b] EXCEPT ![by] = 0] ELSE alerts[d]
    BY <2>1, <2>3 DEF AlertInv
  <2>5. \A d \in Budgets : alerts'[d].worker <= alerts[d].worker
    BY <2>3, <2>4 DEF AlertInv
  <2> QED
    BY <2>1, <2>4, <2>5, AlertLess
<1> QED
  BY <1>2, <1>4, <1>5, <1>6 DEF Next

\* With one worker, however often it dies and whatever is saved meanwhile, a
\* budget is alerted about once within 24 hours by the hourly task.
THEOREM WorkerAlertsOnce ==
  ASSUME OneWorker
  PROVE  Spec => []WorkerAlertsOnceADay
<1>1. Init => AlertInv
  BY DEF Init, AlertInv
<1>2. AlertInv => WorkerAlertsOnceADay
  <2> SUFFICES ASSUME AlertInv, NEW b \in Budgets PROVE alerts[b].worker <= 1
    BY DEF WorkerAlertsOnceADay
  <2>1. alerts[b].worker \in 0..1
    BY DEF AlertInv
  <2> QED
    BY <2>1
<1> QED
  BY <1>1, <1>2, AlertStep, PTL DEF Spec

-----------------------------------------------------------------------------
(* The totals of budgets                                                    *)

\* What a user spent on what a budget row counts, by the rows of ledger l.
CountedIn(l, u, row) ==
  {i \in Ids : l[i] \notin {Unborn, Gone} /\ l[i].user = u /\ Counts(row, l[i])}
AmountsIn(l) == [i \in Ids |-> l[i].amount]
TotalIn(l, u, row) == SumOf(AmountsIn(l), CountedIn(l, u, row))

\* What a budget counts, as a sum over the rows it counts.
LEMMA TotalIs == \A u, row : Total(u, row) = TotalIn(ledger, u, row)
<1> TAKE u, row
<1> DEFINE S == CountedIn(ledger, u, row)
           f == AmountsIn(ledger)
           A(g) == [U \in SUBSET S |-> IF U = {} THEN 0
                      ELSE ledger[Chosen(U)].amount + g[U \ {Chosen(U)}]]
<1>1. {i \in LiveIds : ledger[i].user = u /\ Counts(row, ledger[i])} = S
  BY DEF LiveIds, CountedIn
<1>2. Total(u, row) = MapThenSumSet(LAMBDA i : ledger[i].amount, S)
  BY <1>1 DEF Total
<1> HIDE DEF S
<1>3. Total(u, row) = (CHOOSE g : g = A(g))[S]
  BY <1>2, Zenon DEF MapThenSumSet, MapThenFoldSet, Chosen
<1>4. TotalIn(ledger, u, row) = (CHOOSE g : g = Unfolded(f, S, g))[S]
  BY Zenon DEF TotalIn, SumOf, MapThenSumSet, MapThenFoldSet, Unfolded, Chosen, S
<1>5. ASSUME NEW g PROVE A(g) = Unfolded(f, S, g)
  <2>1. ASSUME NEW U \in SUBSET S, U # {} PROVE ledger[Chosen(U)].amount = f[Chosen(U)]
    <3>1. Chosen(U) \in Ids
      BY <2>1, ChosenIn DEF S, CountedIn
    <3> QED
      BY <3>1 DEF AmountsIn
  <2> HIDE DEF f
  <2> QED
    BY <2>1 DEF Unfolded
<1> HIDE DEF A, f
<1>6. (CHOOSE g : g = A(g)) = (CHOOSE g : g = Unfolded(f, S, g))
  BY <1>5, Zenon
<1> QED
  BY <1>3, <1>4, <1>6

\* A total depends on what the budget counts, and on the rows that it counts.
LEMMA TotalSame ==
  ASSUME NEW l, NEW k, NEW u, NEW row, NEW x, row.cat = x.cat, row.topic = x.topic,
         \A i \in Ids : (l[i] \notin {Unborn, Gone} /\ l[i].user = u)
                          \/ (k[i] \notin {Unborn, Gone} /\ k[i].user = u) => l[i] = k[i]
  PROVE  TotalIn(l, u, row) = TotalIn(k, u, x)
<1>1. CountedIn(l, u, row) = CountedIn(k, u, x)
  BY DEF CountedIn, Counts
<1>2. \A i \in CountedIn(l, u, row) : AmountsIn(l)[i] = AmountsIn(k)[i]
  BY DEF CountedIn, AmountsIn
<1> QED
  BY <1>1, <1>2, SumSame DEF TotalIn

\* Only finitely many expenses have been saved, so totals are numbers.
LEMMA TotalNat ==
  ASSUME ledger \in [Ids -> Expense \union {Unborn, Gone}], IsFiniteSet(LiveIds), NEW u, NEW row
  PROVE  Total(u, row) \in Nat
<1>1. CountedIn(ledger, u, row) \subseteq LiveIds
  BY DEF CountedIn, LiveIds
<1>2. IsFiniteSet(CountedIn(ledger, u, row))
  BY <1>1, FS_Subset
<1>3. \A i \in CountedIn(ledger, u, row) : AmountsIn(ledger)[i] \in Nat
  BY LedgerAssumption DEF CountedIn, AmountsIn, Expense
<1> QED
  BY <1>2, <1>3, SumNat, TotalIs DEF TotalIn

-----------------------------------------------------------------------------
(* Types of the rest                                                        *)

SessionTyped(x, c) ==
  /\ x.at # "idle" => x.user \in Users
  /\ x.save = NoSave => x.made = <<>>
  /\ x.at \in {"budget.commit", "budget.monthly"} => c.snap \in Budget /\ c.new \in Budget
RestTypes ==
  /\ budgets \in [Budgets -> Budget \union {Unborn, Gone}]
  /\ alerts \in [Budgets -> [inline : 0..1, worker : 0..MaxAlerts]]
  /\ calc \in [Threads -> CalcType]
  /\ picked \in [Workers -> SUBSET Budgets]
  /\ broken \subseteq Saves /\ owed \subseteq Users
  /\ IsFiniteSet(LiveIds)
  /\ \A p \in Threads : SessionTyped(sess[p], calc[p])

\* A request starts with nothing to sum.
LEMMA NoCalcTyped == NoCalc \in CalcType /\ NoCalc.queue = {}
<1>1. NoRow \in Budget \union {NoRow}
  OBVIOUS
<1> QED
  BY <1>1 DEF NoCalc, CalcType

\* One thread's session and its calculation change.
LEMMA RestSet ==
  ASSUME Safe, RestTypes, NEW p \in Threads, NEW x, NEW c \in CalcType,
         sess' = [sess EXCEPT ![p] = x], calc' = [calc EXCEPT ![p] = c], SessionTyped(x, c),
         budgets' \in [Budgets -> Budget \union {Unborn, Gone}],
         alerts' \in [Budgets -> [inline : 0..1, worker : 0..MaxAlerts]],
         picked' = picked, broken' \subseteq Saves, owed' \subseteq Users, IsFiniteSet(LiveIds')
  PROVE  RestTypes'
<1>1. calc' \in [Threads -> CalcType]
  BY DEF RestTypes
<1>2. ASSUME NEW q \in Threads PROVE SessionTyped(sess'[q], calc'[q])
  <2>1. CASE q = p
    BY <2>1 DEF Safe, Types, RestTypes
  <2>2. CASE q # p
    <3>1. sess'[q] = sess[q] /\ calc'[q] = calc[q]
      BY <2>2 DEF Safe, Types, RestTypes
    <3> QED
      BY <3>1 DEF RestTypes
  <2> QED
    BY <2>1, <2>2
<1> QED
  BY <1>1, <1>2 DEF RestTypes

\* A session moves on: nothing more is asked of it.
LEMMA RestMoved ==
  ASSUME Safe, RestTypes, NEW p \in Threads, NEW place, Goto(p, place), NEW c \in CalcType,
         calc' = [calc EXCEPT ![p] = c], place \notin {"budget.commit", "budget.monthly"},
         sess[p].at # "idle",
         budgets' \in [Budgets -> Budget \union {Unborn, Gone}],
         alerts' \in [Budgets -> [inline : 0..1, worker : 0..MaxAlerts]],
         picked' = picked, broken' \subseteq Saves, owed' \subseteq Users, IsFiniteSet(LiveIds')
  PROVE  RestTypes'
<1> DEFINE x == [sess[p] EXCEPT !.at = place]
<1>1. sess[p] \in SessionType /\ SessionTyped(sess[p], calc[p])
  BY DEF Safe, Types, RestTypes
<1>2. x.at = place /\ x.user = sess[p].user /\ x.save = sess[p].save /\ x.made = sess[p].made
  BY <1>1 DEF SessionType
<1>3. sess' = [sess EXCEPT ![p] = x]
  BY DEF Goto
<1> HIDE DEF x
<1>4. SessionTyped(x, c)
  BY <1>1, <1>2 DEF SessionTyped
<1> QED
  BY <1>3, <1>4, RestSet

\* A session ends.
LEMMA RestEnded ==
  ASSUME Safe, RestTypes, NEW p \in Threads, Finish(p),
         budgets' \in [Budgets -> Budget \union {Unborn, Gone}],
         alerts' = alerts, picked' = picked, ledger' = ledger,
         broken' \subseteq Saves, owed' \subseteq Users
  PROVE  RestTypes'
<1>1. SessionTyped(Idle, NoCalc)
  BY DEF SessionTyped, Idle
<1>2. LiveIds' = LiveIds
  BY DEF LiveIds
<1>3. alerts' \in [Budgets -> [inline : 0..1, worker : 0..MaxAlerts]] /\ IsFiniteSet(LiveIds')
  BY <1>2 DEF RestTypes
<1> HIDE DEF LiveIds
<1> QED
  BY <1>1, <1>3, NoCalcTyped, RestSet DEF Finish

\* A session dies: it had a save if it had made something, and a user.
LEMMA RestDied ==
  ASSUME Safe, RestTypes, NEW p \in Threads, Dies(p), sess[p].at # "idle",
         UNCHANGED <<dbVars, picked>>
  PROVE  RestTypes'
<1>1. sess[p] \in SessionType /\ SessionTyped(sess[p], calc[p])
  BY DEF Safe, Types, RestTypes
<1>2. sess[p].user \in Users /\ (sess[p].made # <<>> => sess[p].save \in Saves)
  BY <1>1 DEF SessionTyped, SessionType
<1>3. broken' \subseteq Saves /\ owed' \subseteq Users
  BY <1>2 DEF Dies, RestTypes
<1>4. UNCHANGED <<budgets, alerts, picked, ledger>> /\ Finish(p)
  BY DEF dbVars, Dies
<1>5. budgets' \in [Budgets -> Budget \union {Unborn, Gone}]
  BY <1>4 DEF RestTypes
<1> QED
  BY <1>3, <1>4, <1>5, RestEnded

\* A request other than a save begins.
LEMMA RestBegun ==
  ASSUME Safe, RestTypes, NEW p \in Threads, NEW place, NEW u \in Users, NEW edits,
         Begin(p, Doing(place, u, edits)), NEW c \in CalcType,
         calc' = [calc EXCEPT ![p] = c],
         place \in {"budget.commit", "budget.monthly"} => c.snap \in Budget /\ c.new \in Budget,
         budgets' \in [Budgets -> Budget \union {Unborn, Gone}],
         UNCHANGED <<ledger, alerts, picked, broken, owed>>
  PROVE  RestTypes'
<1> DEFINE x == Doing(place, u, edits)
<1>1. x.at = place /\ x.user = u /\ x.save = NoSave /\ x.made = <<>>
  BY DEF Doing, Idle
<1>2. sess' = [sess EXCEPT ![p] = x]
  BY DEF Begin
<1> HIDE DEF x
<1>3. SessionTyped(x, c)
  BY <1>1 DEF SessionTyped
<1>4. LiveIds' = LiveIds
  BY DEF LiveIds
<1>5. /\ alerts' \in [Budgets -> [inline : 0..1, worker : 0..MaxAlerts]] /\ IsFiniteSet(LiveIds')
      /\ broken' \subseteq Saves /\ owed' \subseteq Users
  BY <1>4 DEF RestTypes
<1> HIDE DEF LiveIds
<1> QED
  BY <1>2, <1>3, <1>5, RestSet

\* The same, for requests that leave the calculation as it is.
LEMMA RestAsked ==
  ASSUME Safe, RestTypes, NEW p \in Threads, NEW place, NEW u \in Users, NEW edits,
         Begin(p, Doing(place, u, edits)), place \notin {"budget.commit", "budget.monthly"},
         UNCHANGED <<dbVars, calc, picked, history>>
  PROVE  RestTypes'
<1>1. calc[p] \in CalcType /\ calc' = [calc EXCEPT ![p] = calc[p]]
  BY DEF RestTypes
<1>2. UNCHANGED <<ledger, alerts, picked, broken, owed, budgets>>
  BY DEF dbVars, history
<1>3. budgets' \in [Budgets -> Budget \union {Unborn, Gone}]
  BY <1>2 DEF RestTypes
<1> QED
  BY <1>1, <1>2, <1>3, RestBegun

\* Nothing of it changes but rows of budgets, alerts and what workers picked.
LEMMA RestUntouched ==
  ASSUME RestTypes, UNCHANGED <<ledger, sess, calc, broken, owed>>,
         budgets' \in [Budgets -> Budget \union {Unborn, Gone}],
         alerts' \in [Budgets -> [inline : 0..1, worker : 0..MaxAlerts]],
         picked' \in [Workers -> SUBSET Budgets]
  PROVE  RestTypes'
<1>1. LiveIds' = LiveIds
  BY DEF LiveIds
<1> HIDE DEF LiveIds
<1> QED
  BY <1>1 DEF RestTypes

\* Every request starts with typed budgets, alerts and sums.
LEMMA RestRequest ==
  ASSUME Safe, RestTypes, NEW p \in Threads, Request(p)
  PROVE  RestTypes'
<1>0. /\ budgets \in [Budgets -> Budget \union {Unborn, Gone}] /\ calc[p] \in CalcType
      /\ \A b \in LiveBudgets : b \in Budgets /\ budgets[b] \in Budget
      /\ \A b \in Budgets : BudgetOwner[b] \in Users
  BY LedgerAssumption DEF RestTypes, LiveBudgets
<1>1. ASSUME NEW s \in Saves, SaveReplay(p, s) PROVE RestTypes'
  BY <1>1, RestUntouched DEF SaveReplay, dbVars, RestTypes
<1>2. ASSUME NEW s \in Saves, SaveStart(p, s) PROVE RestTypes'
  <2> DEFINE x == [at |-> IF Items[s] = <<>> THEN "save.store" ELSE "save.insert",
                   user |-> s.user, save |-> s, made |-> <<>>, edits |-> {}]
  <2>1. s.user \in Users
    BY LedgerAssumption
  <2>2. SessionTyped(x, calc[p])
    BY <2>1 DEF SessionTyped
  <2>3. sess' = [sess EXCEPT ![p] = x] /\ calc' = [calc EXCEPT ![p] = calc[p]]
        /\ UNCHANGED <<ledger, budgets, alerts, picked, broken, owed>>
    BY <1>2 DEF SaveStart, Begin, dbVars, history, RestTypes
  <2> HIDE DEF x
  <2>4. LiveIds' = LiveIds
    BY <2>3 DEF LiveIds
  <2>5. /\ budgets' \in [Budgets -> Budget \union {Unborn, Gone}]
        /\ alerts' \in [Budgets -> [inline : 0..1, worker : 0..MaxAlerts]] /\ IsFiniteSet(LiveIds')
        /\ broken' \subseteq Saves /\ owed' \subseteq Users
    BY <2>3, <2>4 DEF RestTypes
  <2> QED
    BY <1>0, <2>2, <2>3, <2>5, RestSet
<1>3. ASSUME NEW u \in Users, UpdateLoad(p, u) \/ RecategorizeLoad(p, u) PROVE RestTypes'
  <2>1. PICK edits : EditStart(p, u, edits)
    BY <1>3 DEF UpdateLoad, RecategorizeLoad
  <2> QED
    BY <2>1, RestAsked DEF EditStart
<1>4. ASSUME NEW u \in Users, DeleteLoad(p, u) PROVE RestTypes'
  <2>1. PICK edits : /\ Begin(p, Doing("delete.commit", u, edits))
                     /\ UNCHANGED <<dbVars, calc, picked, history>>
    BY <1>4 DEF DeleteLoad
  <2> QED
    BY <2>1, RestAsked
<1>5. ASSUME NEW u \in Users, RecalcRequest(p, u) PROVE RestTypes'
  BY <1>5, RestAsked DEF RecalcRequest
<1>6. ASSUME NEW b \in Budgets, BudgetCreate(p, b) PROVE RestTypes'
  <2>1. PICK s \in Settings : budgets' = [budgets EXCEPT ![b] = WithSpent(s, 0)]
    BY <1>6 DEF BudgetCreate
  <2>2. WithSpent(s, 0) \in Budget
    BY LedgerAssumption DEF WithSpent, Settings, Budget
  <2>3. budgets' \in [Budgets -> Budget \union {Unborn, Gone}]
    BY <1>0, <2>1, <2>2
  <2> DEFINE c == [NoCalc EXCEPT !.queue = {b}]
  <2>4. c \in CalcType
    BY NoCalcTyped DEF CalcType
  <2>5. calc' = [calc EXCEPT ![p] = c] /\ Begin(p, Doing("recalc", BudgetOwner[b], {}))
        /\ UNCHANGED <<ledger, alerts, picked, broken, owed>>
    BY <1>6 DEF BudgetCreate, history
  <2>6. BudgetOwner[b] \in Users /\ "recalc" \notin {"budget.commit", "budget.monthly"}
    BY <1>0
  <2> HIDE DEF c
  <2>7. "recalc" \in {"budget.commit", "budget.monthly"} => c.snap \in Budget /\ c.new \in Budget
    BY <2>6
  <2> QED
    BY ONLY Safe, RestTypes, p \in Threads, <2>3, <2>4, <2>5, <2>6, <2>7, RestBegun
<1>7. ASSUME NEW b \in Budgets, BudgetDelete(p, b) PROVE RestTypes'
  BY <1>7, RestUntouched DEF BudgetDelete, history, RestTypes
<1>8. ASSUME NEW b \in Budgets, NEW place, BudgetLoad(p, b, place) PROVE RestTypes'
  <2>1. PICK s \in Settings :
          calc' = [calc EXCEPT ![p] = [NoCalc EXCEPT !.budget = b, !.snap = budgets[b],
            !.new = IF place = "budget.monthly" THEN [budgets[b] EXCEPT !.limit = s.limit]
                    ELSE WithSpent(s, budgets[b].spent)]]
    BY <1>8 DEF BudgetLoad
  <2> DEFINE new == IF place = "budget.monthly" THEN [budgets[b] EXCEPT !.limit = s.limit]
                    ELSE WithSpent(s, budgets[b].spent)
             c == [NoCalc EXCEPT !.budget = b, !.snap = budgets[b], !.new = new]
  <2>2. budgets[b] \in Budget
    BY <1>0, <1>8 DEF BudgetLoad
  <2>3. new \in Budget
    <3>1. s.limit \in Limits /\ s.cat \in Cats \union {NoCat} /\ s.topic \in Topics \union {NoTopic}
          /\ s.active \in BOOLEAN
      BY LedgerAssumption DEF Settings
    <3>2. [budgets[b] EXCEPT !.limit = s.limit] \in Budget
      BY <2>2, <3>1 DEF Budget
    <3>3. WithSpent(s, budgets[b].spent) \in Budget
      BY <2>2, <3>1 DEF Budget, WithSpent
    <3> QED
      BY <3>2, <3>3
  <2> HIDE DEF new
  <2>4. c \in CalcType /\ c.snap \in Budget /\ c.new \in Budget
    BY <2>2, <2>3, NoCalcTyped DEF CalcType
  <2>5. calc' = [calc EXCEPT ![p] = c]
    BY <2>1 DEF new
  <2> HIDE DEF c
  <2>6. /\ Begin(p, Doing(place, BudgetOwner[b], {})) /\ budgets' = budgets
        /\ UNCHANGED <<ledger, alerts, picked, broken, owed>>
    BY <1>8 DEF BudgetLoad, history, dbVars
  <2> QED
    BY <1>0, <2>4, <2>5, <2>6, RestBegun
<1> QED
  BY <1>1, <1>2, <1>3, <1>4, <1>5, <1>6, <1>7, <1>8 DEF Request

\* Spending is written back, or a budget's own columns.
LEMMA NetIn == ASSUME NEW T, NEW a \in T, NEW b, NEW c \in T PROVE Net(a, b, c) \in T
BY DEF Net

\* Every later step of a request leaves them typed.
LEMMA RestContinue ==
  ASSUME Safe, RestTypes, NEW p \in Threads, Continue(p)
  PROVE  RestTypes'
<1> DEFINE B == [Budgets -> Budget \union {Unborn, Gone}]
           A == [Budgets -> [inline : 0..1, worker : 0..MaxAlerts]]
           S == {"budget.commit", "budget.monthly"}
<1>0. /\ budgets \in B /\ alerts \in A /\ calc[p] \in CalcType
      /\ broken \subseteq Saves /\ owed \subseteq Users /\ IsFiniteSet(LiveIds)
      /\ ledger \in [Ids -> Expense \union {Unborn, Gone}]
      /\ sess[p] \in SessionType /\ SessionTyped(sess[p], calc[p])
  BY DEF Safe, Types, RestTypes
<1>00. calc = [calc EXCEPT ![p] = calc[p]]
  BY DEF RestTypes
<1>01. ledger' = ledger => IsFiniteSet(LiveIds')
  BY <1>0 DEF LiveIds
<1>02. \A d \in LiveBudgets : d \in Budgets /\ budgets[d] \in Budget
  BY <1>0 DEF LiveBudgets
<1>03. sess[p].at # "idle" => sess[p].user \in Users
  BY <1>0 DEF SessionTyped
<1> HIDE DEF A, B, S
<1>1. ASSUME SaveInsert(p) PROVE RestTypes'
  <2> DEFINE s == sess[p].save
             n == Len(sess[p].made) + 1
             item == Items[s][n]
  <2>1. PICK i \in Ids, c \in Resolved(item) :
          /\ ledger' = [ledger EXCEPT ![i] = [user |-> s.user, cat |-> c,
                                   topic |-> item.topic, amount |-> item.amount]]
          /\ sess' = [sess EXCEPT ![p].at = "recalc.list", ![p].made = Append(@, i)]
    BY <1>1 DEF SaveInsert
  <2>2. LiveIds' \subseteq LiveIds \union {i}
    BY <1>0, <2>1 DEF LiveIds
  <2>3. IsFiniteSet(LiveIds')
    BY <1>0, <2>2, FS_AddElement, FS_Subset
  <2> DEFINE x == [sess[p] EXCEPT !.at = "recalc.list", !.made = Append(@, i)]
  <2>4. sess' = [sess EXCEPT ![p] = x]
    BY <2>1
  <2>5. sess[p].at = "save.insert" /\ sess[p].save # NoSave
    BY <1>1 DEF SaveInsert, Safe, SaveInv, GoodSession
  <2>6. x.at = "recalc.list" /\ x.user = sess[p].user /\ x.save = sess[p].save
    BY <1>0 DEF SessionType
  <2> HIDE DEF x
  <2>7. SessionTyped(x, calc[p])
    BY <1>03, <2>5, <2>6 DEF SessionTyped
  <2>8. budgets' \in B /\ alerts' \in A /\ picked' = picked /\ broken' \subseteq Saves
        /\ owed' \subseteq Users /\ calc' = [calc EXCEPT ![p] = calc[p]]
    BY <1>0, <1>00, <1>1 DEF SaveInsert
  <2> QED
    BY <1>0, <2>3, <2>4, <2>7, <2>8, RestSet DEF A, B
<1>2. ASSUME SaveNotify(p) PROVE RestTypes'
  <2>1. alerts' \in A
    <3>1. CASE UNCHANGED alerts
      BY <1>0, <3>1
    <3>2. ASSUME NEW b \in OverOn(sess[p].user, sess[p].made[Len(sess[p].made)]),
                 alerts' = [alerts EXCEPT ![b].inline = 1]
          PROVE  alerts' \in A
      <4>1. b \in Budgets /\ alerts[b] \in [inline : 0..1, worker : 0..MaxAlerts]
        BY <1>0 DEF OverOn, ActiveOf, LiveBudgets, A
      <4>2. [alerts[b] EXCEPT !.inline = 1] \in [inline : 0..1, worker : 0..MaxAlerts]
        BY <4>1
      <4> QED
        BY <1>0, <3>2, <4>1, <4>2 DEF A
    <3> QED
      BY <1>2, <3>1, <3>2 DEF SaveNotify
  <2> DEFINE place == IF Len(sess[p].made) < Len(Items[sess[p].save])
                 THEN "save.insert" ELSE "save.store"
  <2>2. /\ Goto(p, place) /\ place \notin S /\ sess[p].at # "idle"
        /\ calc' = [calc EXCEPT ![p] = calc[p]]
        /\ budgets' \in B /\ picked' = picked /\ broken' \subseteq Saves /\ owed' \subseteq Users
        /\ IsFiniteSet(LiveIds')
    BY <1>0, <1>00, <1>01, <1>2 DEF SaveNotify, history, S
  <2> HIDE DEF place
  <2> QED
    BY <1>0, <2>1, <2>2, RestMoved DEF A, B, S
<1>3. ASSUME Dies(p), UNCHANGED <<dbVars, picked>>, sess[p].at # "idle" PROVE RestTypes'
  BY <1>3, RestDied
<1>4. ASSUME SaveLost(p) \/ EditFails(p) \/ RecalcFails(p) PROVE RestTypes'
  BY <1>3, <1>4 DEF SaveLost, EditFails, RecalcFails
<1>5. ASSUME SaveStore(p) PROVE RestTypes'
  <2>1. /\ Finish(p) /\ budgets' \in B /\ alerts' = alerts /\ picked' = picked
        /\ ledger' = ledger /\ broken' \subseteq Saves /\ owed' \subseteq Users
    BY <1>0, <1>5 DEF SaveStore
  <2> QED
    BY <2>1, RestEnded DEF B
<1>6. ASSUME BudgetFails(p) PROVE RestTypes'
  <2>1. /\ Finish(p) /\ budgets' \in B /\ alerts' = alerts /\ picked' = picked
        /\ ledger' = ledger /\ broken' \subseteq Saves /\ owed' \subseteq Users
    BY <1>0, <1>6 DEF BudgetFails, dbVars, history
  <2> QED
    BY <2>1, RestEnded DEF B
<1>7. ASSUME EditCommit(p) \/ DeleteCommit(p) PROVE RestTypes'
  <2>1. LiveIds' \subseteq LiveIds
    BY <1>0, <1>7 DEF LiveIds, EditCommit, DeleteCommit
  <2>2. /\ Goto(p, "recalc.list") /\ "recalc.list" \notin S /\ sess[p].at # "idle"
        /\ calc' = [calc EXCEPT ![p] = calc[p]]
        /\ budgets' \in B /\ alerts' \in A /\ picked' = picked /\ broken' \subseteq Saves
        /\ owed' \subseteq Users
    BY <1>0, <1>00, <1>7 DEF EditCommit, DeleteCommit, history, S
  <2>3. IsFiniteSet(LiveIds')
    BY <1>0, <2>1, FS_Subset
  <2> QED
    BY <1>0, <2>2, <2>3, RestMoved DEF A, B, S
<1>8. ASSUME NEW place, Goto(p, place), place \notin S, sess[p].at # "idle", NEW c \in CalcType,
             calc' = [calc EXCEPT ![p] = c], budgets' \in B, owed' \subseteq Users,
             UNCHANGED <<ledger, alerts, picked, broken>>
      PROVE  RestTypes'
  <2>1. /\ alerts' \in A /\ picked' = picked /\ broken' \subseteq Saves /\ IsFiniteSet(LiveIds')
    BY <1>0, <1>01, <1>8
  <2> QED
    BY <1>8, <2>1, RestMoved DEF A, B, S
<1>9. sess[p].at = "recalc" /\ sess' = sess => Goto(p, "recalc")
  BY <1>0 DEF Goto, SessionType, Safe, Types
<1>10. ASSUME RecalcList(p) PROVE RestTypes'
  <2> DEFINE c == [NoCalc EXCEPT !.queue = ActiveOf(sess[p].user), !.every = TRUE]
  <2>1. ActiveOf(sess[p].user) \subseteq Budgets
    BY DEF ActiveOf, LiveBudgets
  <2>2. c \in CalcType
    BY <2>1, NoCalcTyped DEF CalcType
  <2>3. /\ Goto(p, "recalc") /\ "recalc" \notin S /\ sess[p].at # "idle"
        /\ calc' = [calc EXCEPT ![p] = c] /\ budgets' \in B /\ owed' \subseteq Users
        /\ UNCHANGED <<ledger, alerts, picked, broken>>
    BY <1>0, <1>10 DEF RecalcList, dbVars, history, S
  <2> HIDE DEF c
  <2> QED
    BY <1>8, <2>2, <2>3
<1>11. ASSUME RecalcLoad(p) PROVE RestTypes'
  <2>1. PICK b \in calc[p].queue \intersect LiveBudgets :
          IF Tracked(budgets[b])
          THEN /\ calc' = [calc EXCEPT ![p].budget = b, ![p].snap = budgets[b]]
               /\ Goto(p, "recalc.sum")
          ELSE calc' = [calc EXCEPT ![p].queue = @ \ {b}] /\ UNCHANGED sess
    BY <1>11 DEF RecalcLoad
  <2>2. /\ sess[p].at = "recalc" /\ budgets' \in B /\ owed' \subseteq Users
        /\ UNCHANGED <<ledger, alerts, picked, broken>>
    BY <1>0, <1>11 DEF RecalcLoad, dbVars, history
  <2>3. CASE Tracked(budgets[b])
    <3> DEFINE c == [calc[p] EXCEPT !.budget = b, !.snap = budgets[b]]
    <3>1. c \in CalcType
      BY <1>0, <1>02 DEF CalcType
    <3>2. calc' = [calc EXCEPT ![p] = c] /\ Goto(p, "recalc.sum")
      BY <2>1, <2>3
    <3> HIDE DEF c
    <3>3. "recalc.sum" \notin S /\ sess[p].at # "idle"
      BY <2>2 DEF S
    <3> QED
      BY <1>8, <2>2, <3>1, <3>2, <3>3
  <2>4. CASE ~Tracked(budgets[b])
    <3> DEFINE c == [calc[p] EXCEPT !.queue = @ \ {b}]
    <3>1. c \in CalcType
      BY <1>0 DEF CalcType
    <3>2. calc' = [calc EXCEPT ![p] = c] /\ Goto(p, "recalc")
      BY <1>9, <2>1, <2>2, <2>4
    <3> HIDE DEF c
    <3>3. "recalc" \notin S /\ sess[p].at # "idle"
      BY <2>2 DEF S
    <3> QED
      BY <1>8, <2>2, <3>1, <3>2, <3>3
  <2> QED
    BY <2>3, <2>4
<1>12. ASSUME RecalcGone(p) PROVE RestTypes'
  <2>1. PICK b \in calc[p].queue \ LiveBudgets :
          IF calc[p].expired
          THEN /\ calc' = [calc EXCEPT ![p].queue = {}, ![p].every = FALSE]
               /\ owed' = owed \union {sess[p].user}
          ELSE calc' = [calc EXCEPT ![p].queue = @ \ {b}] /\ UNCHANGED owed
    BY <1>12 DEF RecalcGone
  <2>2. /\ sess[p].at = "recalc" /\ budgets' \in B /\ sess' = sess
        /\ UNCHANGED <<ledger, alerts, picked, broken>>
    BY <1>0, <1>12 DEF RecalcGone, dbVars
  <2>3. "recalc" \notin S /\ sess[p].at # "idle" /\ Goto(p, "recalc") /\ sess[p].user \in Users
    BY <1>03, <1>9, <2>2 DEF S
  <2>4. [calc[p] EXCEPT !.queue = {}, !.every = FALSE] \in CalcType
        /\ [calc[p] EXCEPT !.queue = @ \ {b}] \in CalcType
    BY <1>0 DEF CalcType
  <2>5. PICK c \in CalcType : calc' = [calc EXCEPT ![p] = c]
    <3>1. calc' = [calc EXCEPT ![p] = [calc[p] EXCEPT !.queue = {}, !.every = FALSE]]
          \/ calc' = [calc EXCEPT ![p] = [calc[p] EXCEPT !.queue = @ \ {b}]]
      BY <2>1
    <3> QED
      BY <2>4, <3>1
  <2>6. owed' \subseteq Users
    BY <1>0, <2>1, <2>3
  <2> QED
    BY <1>8, <2>2, <2>3, <2>5, <2>6
<1>13. ASSUME RecalcSum(p) PROVE RestTypes'
  <2> DEFINE t == Total(BudgetOwner[calc[p].budget], calc[p].snap)
             c == [calc[p] EXCEPT !.total = t]
  <2>1. t \in Nat
    BY <1>0, TotalNat
  <2> HIDE DEF t
  <2>2. c \in CalcType
    BY <1>0, <2>1 DEF CalcType
  <2>3. /\ Goto(p, "recalc.write") /\ "recalc.write" \notin S /\ sess[p].at # "idle"
        /\ calc' = [calc EXCEPT ![p] = c] /\ budgets' \in B /\ owed' \subseteq Users
        /\ UNCHANGED <<ledger, alerts, picked, broken>>
    BY <1>0, <1>13 DEF RecalcSum, dbVars, history, S, t
  <2> HIDE DEF c
  <2> QED
    BY <1>8, <2>2, <2>3
<1>14. ASSUME RecalcWrite(p) PROVE RestTypes'
  <2> DEFINE b == calc[p].budget
             c == [calc[p] EXCEPT !.queue = @ \ {b}, !.expired = TRUE]
  <2>1. c \in CalcType
    BY <1>0 DEF CalcType
  <2>2. budgets' \in B
    <3>1. CASE b \notin LiveBudgets
      BY <1>0, <1>14, <3>1 DEF RecalcWrite
    <3>2. CASE b \in LiveBudgets
      <4>1. budgets' = [budgets EXCEPT ![b] =
              [budgets[b] EXCEPT !.spent = Net(@, calc[p].snap.spent, calc[p].total)]]
        BY <1>14, <3>2 DEF RecalcWrite
      <4>2. b \in Budgets /\ budgets[b] \in Budget /\ calc[p].total \in Nat
        BY <1>0, <1>02, <3>2 DEF CalcType
      <4>3. Net(budgets[b].spent, calc[p].snap.spent, calc[p].total) \in Nat
        BY <4>2, NetIn DEF Budget
      <4>4. [budgets[b] EXCEPT !.spent = Net(@, calc[p].snap.spent, calc[p].total)] \in Budget
        BY <4>2, <4>3 DEF Budget
      <4> QED
        BY <1>0, <4>1, <4>2, <4>4 DEF B
    <3> QED
      BY <3>1, <3>2
  <2>3. /\ Goto(p, "recalc") /\ "recalc" \notin S /\ sess[p].at # "idle"
        /\ calc' = [calc EXCEPT ![p] = c] /\ owed' \subseteq Users
        /\ UNCHANGED <<ledger, alerts, picked, broken>>
    BY <1>0, <1>14 DEF RecalcWrite, history, S
  <2> HIDE DEF c
  <2> QED
    BY <1>8, <2>1, <2>2, <2>3
<1>15. ASSUME RecalcDone(p) PROVE RestTypes'
  <2>1. /\ sess[p].at # "idle" /\ budgets' \in B /\ owed' \subseteq Users
        /\ UNCHANGED <<ledger, alerts, picked, broken>>
    BY <1>0, <1>15 DEF RecalcDone, dbVars
  <2>2. CASE Finish(p)
    <3>1. alerts' = alerts /\ picked' = picked /\ ledger' = ledger /\ broken' \subseteq Saves
      BY <1>0, <2>1
    <3> QED
      BY <2>1, <2>2, <3>1, RestEnded DEF B
  <2>3. CASE Goto(p, "save.notify") /\ UNCHANGED calc
    <3>1. "save.notify" \notin S
      BY DEF S
    <3> QED
      BY <1>0, <1>00, <1>8, <2>1, <2>3, <3>1
  <2> QED
    BY <1>15, <2>2, <2>3 DEF RecalcDone
<1>16. ASSUME sess[p].at \in S, calc[p].budget \in LiveBudgets, BudgetWrite(p)
       PROVE  budgets' \in B
  <2> DEFINE b == calc[p].budget
             old == calc[p].snap
             new == calc[p].new
             y == [budgets[b] EXCEPT !.cat = Net(@, old.cat, new.cat),
                                     !.topic = Net(@, old.topic, new.topic),
                                     !.limit = Net(@, old.limit, new.limit),
                                     !.active = Net(@, old.active, new.active)]
  <2>1. b \in Budgets /\ budgets[b] \in Budget /\ new \in Budget
    BY <1>0, <1>02, <1>16 DEF SessionTyped, S
  <2>2. /\ Net(budgets[b].cat, old.cat, new.cat) \in Cats \union {NoCat}
        /\ Net(budgets[b].topic, old.topic, new.topic) \in Topics \union {NoTopic}
        /\ Net(budgets[b].limit, old.limit, new.limit) \in Limits
        /\ Net(budgets[b].active, old.active, new.active) \in BOOLEAN
    <3> HIDE DEF b, old, new
    <3>1. /\ budgets[b].cat \in Cats \union {NoCat} /\ new.cat \in Cats \union {NoCat}
          /\ budgets[b].topic \in Topics \union {NoTopic} /\ new.topic \in Topics \union {NoTopic}
          /\ budgets[b].limit \in Limits /\ new.limit \in Limits
      BY <2>1 DEF Budget
    <3>2. budgets[b].active \in BOOLEAN /\ new.active \in BOOLEAN
      BY <2>1 DEF Budget
    <3> QED
      BY <3>1, <3>2, NetIn
  <2> HIDE DEF old, new
  <2>3. y \in Budget
    BY <2>1, <2>2 DEF Budget
  <2>4. budgets' = [budgets EXCEPT ![b] = y]
    BY <1>0, <1>16, <2>1 DEF BudgetWrite, B, old, new
  <2> QED
    BY <1>0, <2>1, <2>3, <2>4 DEF B
<1>17. ASSUME BudgetCommit(p) PROVE RestTypes'
  <2> DEFINE c == [NoCalc EXCEPT !.queue = {calc[p].budget}]
  <2>1. calc[p].budget \in Budgets
    BY <1>02, <1>17 DEF BudgetCommit
  <2>2. c \in CalcType
    BY <2>1, NoCalcTyped DEF CalcType
  <2>3. budgets' \in B
    BY <1>16, <1>17 DEF BudgetCommit, S
  <2>4. /\ Goto(p, "recalc") /\ "recalc" \notin S /\ sess[p].at # "idle"
        /\ calc' = [calc EXCEPT ![p] = c] /\ owed' \subseteq Users
        /\ UNCHANGED <<ledger, alerts, picked, broken>>
    BY <1>0, <1>17 DEF BudgetCommit, history, S
  <2> HIDE DEF c
  <2> QED
    BY <1>8, <2>2, <2>3, <2>4
<1>18. ASSUME MonthlyCommit(p) PROVE RestTypes'
  <2>1. budgets' \in B
    BY <1>16, <1>18 DEF MonthlyCommit, S
  <2>2. /\ Finish(p) /\ alerts' = alerts /\ picked' = picked
        /\ ledger' = ledger /\ broken' \subseteq Saves /\ owed' \subseteq Users
    BY <1>0, <1>18 DEF MonthlyCommit, history
  <2> QED
    BY <2>1, <2>2, RestEnded DEF B
<1> QED
  BY <1>1, <1>2, <1>4, <1>5, <1>6, <1>7, <1>10, <1>11, <1>12, <1>13, <1>14, <1>15, <1>17, <1>18
     DEF Continue

\* They are typed at the start.
LEMMA RestInit == Init => RestTypes
<1> SUFFICES ASSUME Init PROVE RestTypes
  OBVIOUS
<1>1. LiveIds = {}
  BY DEF Init, LiveIds
<1>2. \A p \in Threads : SessionTyped(sess[p], calc[p])
  BY DEF Init, SessionTyped, Idle
<1>3. IsFiniteSet(LiveIds)
  BY <1>1, FS_EmptySet
<1>4. calc \in [Threads -> CalcType]
  BY NoCalcTyped DEF Init
<1>5. alerts \in [Budgets -> [inline : 0..1, worker : 0..MaxAlerts]]
  BY LedgerAssumption DEF Init
<1>6. budgets \in [Budgets -> Budget \union {Unborn, Gone}]
  BY DEF Init
<1> QED
  BY <1>2, <1>3, <1>4, <1>5, <1>6 DEF Init, RestTypes

\* No step of the system breaks those types.
LEMMA RestStep == Safe /\ RestTypes /\ [Next]_vars => RestTypes'
<1> SUFFICES ASSUME Safe, RestTypes, [Next]_vars PROVE RestTypes'
  OBVIOUS
<1> DEFINE B == [Budgets -> Budget \union {Unborn, Gone}]
           A == [Budgets -> [inline : 0..1, worker : 0..MaxAlerts]]
           K == [Workers -> SUBSET Budgets]
<1>0. budgets \in B /\ alerts \in A /\ picked \in K
  BY DEF RestTypes
<1>1. ASSUME UNCHANGED <<ledger, budgets, sess, calc, broken, owed>>,
             alerts' \in A, picked' \in K
      PROVE  RestTypes'
  BY <1>0, <1>1, RestUntouched
<1> HIDE DEF A, K
<1>2. CASE UNCHANGED vars
  BY <1>0, <1>1, <1>2 DEF vars, dbVars, history
<1>3. ASSUME NEW p \in Threads, Request(p) \/ Continue(p) \/ Crash(p) PROVE RestTypes'
  <2>1. CASE Request(p)
    BY <2>1, RestRequest
  <2>2. CASE Continue(p)
    BY <2>2, RestContinue
  <2>3. CASE Crash(p)
    BY <2>3, RestDied DEF Crash
  <2> QED
    BY <1>3, <2>1, <2>2, <2>3
<1>4. ASSUME NEW w \in Workers, Work(w) PROVE RestTypes'
  <2>1. CASE WorkerSelect(w)
    <3>1. AtRisk \subseteq Budgets
      BY DEF AtRisk, LiveBudgets
    <3>2. picked' \in K /\ UNCHANGED <<ledger, budgets, alerts, sess, calc, broken, owed>>
      BY <1>0, <2>1, <3>1 DEF WorkerSelect, dbVars, history, K
    <3> QED
      BY <1>0, <1>1, <3>2
  <2>2. CASE WorkerDies(w)
    <3>1. picked' \in K /\ UNCHANGED <<ledger, budgets, alerts, sess, calc, broken, owed>>
      BY <1>0, <2>2 DEF WorkerDies, dbVars, history, K
    <3> QED
      BY <1>0, <1>1, <3>1
  <2>3. CASE WorkerCommit(w)
    <3>1. ASSUME NEW b \in Budgets
          PROVE  [alerts[b] EXCEPT !.worker = OneMore(@)] \in [inline : 0..1, worker : 0..MaxAlerts]
      <4>1. alerts[b] \in [inline : 0..1, worker : 0..MaxAlerts]
        BY <1>0 DEF A
      <4>2. OneMore(alerts[b].worker) \in 0..MaxAlerts
        BY <4>1, LedgerAssumption DEF OneMore
      <4> QED
        BY <4>1, <4>2
    <3>2. alerts' \in A
      BY <1>0, <2>3, <3>1 DEF WorkerCommit, A
    <3>3. picked' \in K /\ UNCHANGED <<ledger, budgets, sess, calc, broken, owed>>
      BY <1>0, <2>3 DEF WorkerCommit, history, K
    <3> QED
      BY <1>1, <3>2, <3>3
  <2> QED
    BY <1>4, <2>1, <2>2, <2>3 DEF Work
<1>5. ASSUME NEW b \in Budgets, NEW by \in {"inline", "worker"}, AlertsAge(b, by) PROVE RestTypes'
  <2>1. alerts[b] \in [inline : 0..1, worker : 0..MaxAlerts]
    BY <1>0 DEF A
  <2>2. [alerts[b] EXCEPT ![by] = 0] \in [inline : 0..1, worker : 0..MaxAlerts]
    <3>1. 0 \in 0..1 /\ 0 \in 0..MaxAlerts
      BY LedgerAssumption
    <3>2. CASE by = "inline"
      BY <2>1, <3>1, <3>2
    <3>3. CASE by = "worker"
      BY <2>1, <3>1, <3>3
    <3> QED
      BY <3>2, <3>3
  <2>3. alerts' \in A
    BY <1>0, <1>5, <2>2 DEF AlertsAge, A
  <2>4. picked' \in K /\ UNCHANGED <<ledger, budgets, sess, calc, broken, owed>>
    BY <1>0, <1>5 DEF AlertsAge, history
  <2> QED
    BY <1>1, <2>3, <2>4
<1> QED
  BY <1>2, <1>3, <1>4, <1>5 DEF Next

\* Whatever runs at the same time, every table, session and half-done sum of
\* budgets keeps its type; sums stay numbers, as only finitely many expenses
\* have been saved.
THEOREM TypeCorrect == Spec => []TypeOK
<1>1. Init => Safe /\ RestTypes
  BY SafeInit, RestInit
<1>2. (Safe /\ RestTypes) /\ [Next]_vars => (Safe /\ RestTypes)'
  BY SafeStep, RestStep
<1>3. Safe /\ RestTypes => TypeOK
  BY DEF Safe, Types, RestTypes, TypeOK
<1> QED
  BY <1>1, <1>2, <1>3, PTL DEF Spec

-----------------------------------------------------------------------------
(* What budgets show, while requests do not overlap                         *)

Summing    == {"recalc", "recalc.sum", "recalc.write"}
LiveRow(r) == r \notin {Unborn, Gone}

\* What the session x and the calculation c of the only thread promise, over
\* the ledger l and the budgets bs: nothing was changed behind their back.
Turn(l, bs, x, c) ==
  /\ x.at \notin Summing => c.queue = {}
  /\ x.save # NoSave => x.user = x.save.user
  /\ x.at \in {"edit.commit", "delete.commit"} =>
       \A d \in x.edits : LiveRow(l[d.id]) /\ l[d.id].user = x.user
  /\ \A b \in c.queue : BudgetOwner[b] = x.user
  /\ x.at \in {"recalc.sum", "recalc.write"} => c.budget \in c.queue
  /\ x.at \in {"recalc.sum", "recalc.write", "budget.commit", "budget.monthly"} =>
       /\ c.budget \in Budgets /\ LiveRow(bs[c.budget])
       /\ c.snap = bs[c.budget] /\ BudgetOwner[c.budget] = x.user
  /\ x.at = "recalc.write" => c.total = TotalIn(l, BudgetOwner[c.budget], c.snap)
  /\ x.at = "budget.monthly" =>
       c.new.cat = c.snap.cat /\ c.new.topic = c.snap.topic /\ c.new.active = c.snap.active

\* A budget whose figure is not what the ledger says is about to be summed, or
\* its owner is owed a sum that the one going on will not take back.
Shown(bs, b)    == LiveRow(bs[b]) /\ bs[b].active /\ Tracked(bs[b])
Fresh(l, bs, b) == bs[b].spent = TotalIn(l, BudgetOwner[b], bs[b])
Due(b, x, c)    == (x.at = "recalc.list" /\ x.user = BudgetOwner[b]) \/ b \in c.queue
Excused(o, b, x, c) ==
  BudgetOwner[b] \in o /\ ~(x.at \in Summing /\ c.every /\ x.user = BudgetOwner[b])
Accounts(l, bs, o, x, c) ==
  \A b \in Budgets : Shown(bs, b) /\ ~Fresh(l, bs, b) => Due(b, x, c) \/ Excused(o, b, x, c)

SpentInv ==
  /\ \A p \in Threads : /\ Turn(ledger, budgets, sess[p], calc[p])
                        /\ Accounts(ledger, budgets, owed, sess[p], calc[p])
  /\ Threads = {} => \A b \in Budgets : budgets[b] = Unborn

\* At most places a session promises little.
LEMMA TurnEasily ==
  ASSUME NEW l, NEW bs, NEW x, NEW c,
         x.at \in {"idle", "save.insert", "save.notify", "save.store", "recalc.list"},
         c.queue = {}, x.save # NoSave => x.user = x.save.user
  PROVE  Turn(l, bs, x, c)
BY DEF Turn, Summing

\* The only thread's session and calculation become x and c.
LEMMA SpentSet ==
  ASSUME OneThread, Safe, RestTypes, NEW p \in Threads, NEW x, NEW c,
         sess' = [sess EXCEPT ![p] = x], calc' = [calc EXCEPT ![p] = c],
         Turn(ledger', budgets', x, c), Accounts(ledger', budgets', owed', x, c)
  PROVE  SpentInv'
<1>1. sess'[p] = x /\ calc'[p] = c /\ \A q \in Threads : q = p
  BY DEF OneThread, Safe, Types, RestTypes
<1> QED
  BY <1>1 DEF SpentInv

\* No table changes: what was due or excused remains so.
LEMMA SpentQuiet ==
  ASSUME OneThread, Safe, RestTypes, SpentInv, NEW p \in Threads, NEW x, NEW c,
         sess' = [sess EXCEPT ![p] = x], calc' = [calc EXCEPT ![p] = c],
         UNCHANGED <<ledger, budgets>>, Turn(ledger, budgets, x, c),
         \A b \in Budgets :
           Shown(budgets, b) /\ (Due(b, sess[p], calc[p]) \/ Excused(owed, b, sess[p], calc[p]))
             => Due(b, x, c) \/ Excused(owed', b, x, c)
  PROVE  SpentInv'
<1>1. Accounts(ledger, budgets, owed, sess[p], calc[p])
  BY DEF SpentInv
<1>2. Accounts(ledger, budgets, owed', x, c)
  BY <1>1 DEF Accounts
<1> QED
  BY <1>2, SpentSet

\* Expenses of one user change, and all his budgets are to be summed.
LEMMA SpentLedger ==
  ASSUME OneThread, Safe, RestTypes, SpentInv, NEW p \in Threads, NEW x,
         sess' = [sess EXCEPT ![p] = x], UNCHANGED <<calc, budgets, owed>>,
         sess[p].at \in {"save.insert", "edit.commit", "delete.commit"},
         x.at = "recalc.list", x.user = sess[p].user, x.save = sess[p].save,
         \A i \in Ids : ledger'[i] # ledger[i] =>
           /\ LiveRow(ledger[i]) => ledger[i].user = x.user
           /\ LiveRow(ledger'[i]) => ledger'[i].user = x.user
  PROVE  SpentInv'
<1>1. calc' = [calc EXCEPT ![p] = calc[p]]
  BY DEF RestTypes
<1>2. /\ Turn(ledger, budgets, sess[p], calc[p])
      /\ Accounts(ledger, budgets, owed, sess[p], calc[p])
  BY DEF SpentInv
<1>3. calc[p].queue = {} /\ (x.save # NoSave => x.user = x.save.user)
  BY <1>2 DEF Turn, Summing
<1>4. Turn(ledger', budgets', x, calc[p])
  BY <1>3, TurnEasily
<1>5. ASSUME NEW b \in Budgets, Shown(budgets', b), ~Fresh(ledger', budgets', b)
      PROVE  Due(b, x, calc[p]) \/ Excused(owed', b, x, calc[p])
  <2>1. CASE BudgetOwner[b] = x.user
    BY <2>1 DEF Due
  <2>2. CASE BudgetOwner[b] # x.user
    <3>1. TotalIn(ledger', BudgetOwner[b], budgets[b]) = TotalIn(ledger, BudgetOwner[b], budgets[b])
      <4> DEFINE u == BudgetOwner[b]
                 l == ledger
                 k == ledger'
      <4>1. \A i \in Ids : (k[i] \notin {Unborn, Gone} /\ k[i].user = u)
                             \/ (l[i] \notin {Unborn, Gone} /\ l[i].user = u) => k[i] = l[i]
        BY <2>2 DEF LiveRow
      <4> HIDE DEF u, l, k
      <4>2. TotalIn(k, u, budgets[b]) = TotalIn(l, u, budgets[b])
        BY <4>1, TotalSame
      <4> QED
        BY <4>2 DEF u, l, k
    <3>2. Shown(budgets, b) /\ ~Fresh(ledger, budgets, b)
      BY <1>5, <3>1 DEF Fresh
    <3>3. Due(b, sess[p], calc[p]) \/ Excused(owed, b, sess[p], calc[p])
      BY <1>2, <3>2 DEF Accounts
    <3>4. Excused(owed, b, sess[p], calc[p])
      BY <1>3, <3>3 DEF Due
    <3> QED
      BY <3>4 DEF Excused, Summing
  <2> QED
    BY <2>1, <2>2
<1> QED
  BY <1>1, <1>4, <1>5, SpentSet DEF Accounts

\* One budget changes; the others are due or excused as they were.
LEMMA SpentBudget ==
  ASSUME OneThread, Safe, RestTypes, SpentInv, NEW p \in Threads, NEW x, NEW c, NEW d,
         sess' = [sess EXCEPT ![p] = x], calc' = [calc EXCEPT ![p] = c],
         UNCHANGED ledger, Turn(ledger, budgets', x, c),
         \A b \in Budgets : b # d => budgets'[b] = budgets[b],
         \A b \in Budgets : b # d /\ Due(b, sess[p], calc[p]) => Due(b, x, c),
         \A b \in Budgets : Excused(owed, b, sess[p], calc[p]) => Excused(owed', b, x, c),
         Shown(budgets', d) /\ ~Fresh(ledger, budgets', d) => Due(d, x, c) \/ Excused(owed', d, x, c)
  PROVE  SpentInv'
<1>1. Accounts(ledger, budgets, owed, sess[p], calc[p])
  BY DEF SpentInv
<1>2. ASSUME NEW b \in Budgets, b # d, Shown(budgets', b), ~Fresh(ledger, budgets', b)
      PROVE  Due(b, x, c) \/ Excused(owed', b, x, c)
  <2>1. Shown(budgets, b) /\ ~Fresh(ledger, budgets, b)
    BY <1>2 DEF Shown, Fresh
  <2> QED
    BY <1>1, <1>2, <2>1 DEF Accounts
<1>3. Accounts(ledger, budgets', owed', x, c)
  BY <1>2 DEF Accounts
<1> QED
  BY <1>3, SpentSet

\* A session that ends, having nothing left to sum.
LEMMA SpentEnded ==
  ASSUME OneThread, Safe, RestTypes, SpentInv, NEW p \in Threads, Finish(p),
         UNCHANGED <<ledger, budgets>>, owed \subseteq owed',
         \A b \in Budgets : Due(b, sess[p], calc[p]) => BudgetOwner[b] \in owed'
  PROVE  SpentInv'
<1>1. Idle.at = "idle" /\ Idle.save = NoSave
  BY DEF Idle
<1>2. Turn(ledger, budgets, Idle, NoCalc)
  BY <1>1, NoCalcTyped, TurnEasily
<1>3. \A b \in Budgets : BudgetOwner[b] \in owed' => Excused(owed', b, Idle, NoCalc)
  BY <1>1 DEF Excused, Summing
<1>4. \A b \in Budgets : Excused(owed, b, sess[p], calc[p]) => BudgetOwner[b] \in owed'
  BY DEF Excused
<1> QED
  BY <1>2, <1>3, <1>4, SpentQuiet DEF Finish

\* A request that dies leaves its user owed whatever it was still to sum.
LEMMA SpentDied ==
  ASSUME OneThread, Safe, RestTypes, SpentInv, NEW p \in Threads, Dies(p),
         UNCHANGED <<dbVars, picked>>
  PROVE  SpentInv'
<1>1. Turn(ledger, budgets, sess[p], calc[p])
  BY DEF SpentInv
<1>2. ASSUME NEW b \in Budgets, Due(b, sess[p], calc[p]) PROVE BudgetOwner[b] \in owed'
  <2>1. BudgetOwner[b] = sess[p].user /\ Unsummed(p)
    BY <1>1, <1>2 DEF Due, Turn, Unsummed
  <2> QED
    BY <2>1 DEF Dies
<1>3. Finish(p) /\ owed \subseteq owed' /\ UNCHANGED <<ledger, budgets>>
  BY DEF Dies, dbVars
<1> QED
  BY <1>2, <1>3, SpentEnded

\* Nothing of it changes.
LEMMA SpentUntouched ==
  ASSUME SpentInv, UNCHANGED <<ledger, budgets, sess, calc, owed>>
  PROVE  SpentInv'
BY DEF SpentInv

\* A request begins; its sum, if there is one, comes later.
LEMMA SpentBegun ==
  ASSUME OneThread, Safe, RestTypes, SpentInv, NEW p \in Threads, NEW x, NEW c,
         Begin(p, x), calc' = [calc EXCEPT ![p] = c], UNCHANGED <<ledger, budgets, owed>>,
         Turn(ledger, budgets, x, c), x.at \notin Summing
  PROVE  SpentInv'
<1>1. Turn(ledger, budgets, sess[p], calc[p]) /\ sess[p].at = "idle"
  BY DEF SpentInv, Begin
<1>2. \A b \in Budgets : ~Due(b, sess[p], calc[p])
  BY <1>1 DEF Turn, Due, Summing
<1>3. \A b \in Budgets : Excused(owed, b, sess[p], calc[p]) => Excused(owed', b, x, c)
  BY DEF Excused
<1> QED
  BY <1>2, <1>3, SpentQuiet DEF Begin

\* A request that starts owes a sum to every budget it is about to change.
LEMMA SpentRequest ==
  ASSUME OneThread, Safe, RestTypes, SpentInv, NEW p \in Threads, Request(p)
  PROVE  SpentInv'
<1>0. /\ calc = [calc EXCEPT ![p] = calc[p]] /\ sess = [sess EXCEPT ![p] = sess[p]]
      /\ budgets \in [Budgets -> Budget \union {Unborn, Gone}]
      /\ Turn(ledger, budgets, sess[p], calc[p])
      /\ Accounts(ledger, budgets, owed, sess[p], calc[p])
  BY DEF RestTypes, Safe, Types, SpentInv
<1>00. sess[p].at = "idle" => calc[p].queue = {}
  BY <1>0 DEF Turn, Summing
<1>01. \A place, u, edits : /\ Doing(place, u, edits).at = place
                            /\ Doing(place, u, edits).user = u
                            /\ Doing(place, u, edits).save = NoSave
                            /\ Doing(place, u, edits).edits = edits
  BY DEF Doing, Idle
<1>02. sess[p].at = "idle" => \A b \in Budgets : ~Due(b, sess[p], calc[p])
  BY <1>00 DEF Due
<1>1. ASSUME NEW s \in Saves, SaveReplay(p, s) PROVE SpentInv'
  BY <1>1, SpentUntouched DEF SaveReplay, dbVars
<1>2. ASSUME NEW s \in Saves, SaveStart(p, s) PROVE SpentInv'
  <2> DEFINE x == [at |-> IF Items[s] = <<>> THEN "save.store" ELSE "save.insert",
                   user |-> s.user, save |-> s, made |-> <<>>, edits |-> {}]
  <2>1. /\ Begin(p, x) /\ calc' = [calc EXCEPT ![p] = calc[p]]
        /\ UNCHANGED <<ledger, budgets, owed>>
    BY <1>0, <1>2 DEF SaveStart, dbVars, history
  <2>2. calc[p].queue = {}
    BY <1>00, <2>1 DEF Begin
  <2>3. x.at \in {"save.store", "save.insert"} /\ x.save = s /\ x.user = s.user
    OBVIOUS
  <2> HIDE DEF x
  <2>4. Turn(ledger, budgets, x, calc[p])
    BY <2>2, <2>3, TurnEasily
  <2> QED
    BY <2>1, <2>3, <2>4, SpentBegun DEF Summing
<1>3. ASSUME NEW place \in {"edit.commit", "delete.commit", "recalc.list"}, NEW u, NEW edits,
             Begin(p, Doing(place, u, edits)), UNCHANGED <<dbVars, calc, picked, history>>,
             \A d \in edits : d.id \in LiveIds /\ ledger[d.id].user = u
      PROVE  SpentInv'
  <2>1. /\ calc' = [calc EXCEPT ![p] = calc[p]] /\ UNCHANGED <<ledger, budgets, owed>>
        /\ calc[p].queue = {}
    BY <1>0, <1>00, <1>3 DEF dbVars, history, Begin
  <2> DEFINE x == Doing(place, u, edits)
  <2>2. x.at = place /\ x.user = u /\ x.save = NoSave /\ x.edits = edits
    BY <1>01
  <2>3. Begin(p, x)
    BY <1>3
  <2> HIDE DEF x
  <2>4. Turn(ledger, budgets, x, calc[p])
    BY <1>3, <2>1, <2>2 DEF Turn, Summing, LiveIds, LiveRow
  <2>5. x.at \notin Summing
    BY <2>2 DEF Summing
  <2> QED
    BY <2>1, <2>3, <2>4, <2>5, SpentBegun
<1>4. ASSUME NEW u \in Users, UpdateLoad(p, u) PROVE SpentInv'
  <2>1. PICK i \in LiveIds, x \in Purchase :
          /\ ledger[i].user = u
          /\ EditStart(p, u, {[id |-> i, loaded |-> ledger[i],
               new |-> [user |-> u, cat |-> x.cat, topic |-> x.topic, amount |-> x.amount]]})
    BY <1>4 DEF UpdateLoad
  <2> DEFINE edits == {[id |-> i, loaded |-> ledger[i],
               new |-> [user |-> u, cat |-> x.cat, topic |-> x.topic, amount |-> x.amount]]}
  <2>2. \A d \in edits : d.id \in LiveIds /\ ledger[d.id].user = u
    BY <2>1
  <2>3. Begin(p, Doing("edit.commit", u, edits)) /\ UNCHANGED <<dbVars, calc, picked, history>>
    BY <2>1 DEF EditStart
  <2> HIDE DEF edits
  <2> QED
    BY <1>3, <2>2, <2>3
<1>5. ASSUME NEW u \in Users, RecategorizeLoad(p, u) PROVE SpentInv'
  <2> DEFINE todo == {i \in LiveIds : ledger[i].user = u /\ ledger[i].cat = NoCat}
  <2>1. PICK choice \in [todo -> Cats \union {NoCat}] :
          EditStart(p, u, {[id |-> i, loaded |-> ledger[i],
                            new |-> [ledger[i] EXCEPT !.cat = choice[i]]] :
                           i \in {j \in todo : choice[j] # NoCat}})
    BY <1>5 DEF RecategorizeLoad
  <2> DEFINE edits == {[id |-> i, loaded |-> ledger[i],
                            new |-> [ledger[i] EXCEPT !.cat = choice[i]]] :
                           i \in {j \in todo : choice[j] # NoCat}}
  <2>2. \A d \in edits : d.id \in LiveIds /\ ledger[d.id].user = u
    OBVIOUS
  <2>3. Begin(p, Doing("edit.commit", u, edits)) /\ UNCHANGED <<dbVars, calc, picked, history>>
    BY <2>1 DEF EditStart
  <2> HIDE DEF edits
  <2> QED
    BY <1>3, <2>2, <2>3
<1>6. ASSUME NEW u \in Users, DeleteLoad(p, u) PROVE SpentInv'
  <2>1. PICK i \in LiveIds :
    /\ ledger[i].user = u
    /\ Begin(p, Doing("delete.commit", u,
                      {[id |-> i, loaded |-> ledger[i], new |-> ledger[i]]}))
    /\ UNCHANGED <<dbVars, calc, picked, history>>
    BY <1>6 DEF DeleteLoad
  <2> DEFINE edits == {[id |-> i, loaded |-> ledger[i], new |-> ledger[i]]}
  <2>2. \A d \in edits : d.id \in LiveIds /\ ledger[d.id].user = u
    BY <2>1
  <2>3. Begin(p, Doing("delete.commit", u, edits)) /\ UNCHANGED <<dbVars, calc, picked, history>>
    BY <2>1
  <2> HIDE DEF edits
  <2> QED
    BY <1>3, <2>2, <2>3
<1>7. ASSUME NEW u \in Users, RecalcRequest(p, u) PROVE SpentInv'
  BY <1>3, <1>7 DEF RecalcRequest
<1>8. ASSUME NEW b \in Budgets, BudgetCreate(p, b) PROVE SpentInv'
  <2> DEFINE x == Doing("recalc", BudgetOwner[b], {})
             c == [NoCalc EXCEPT !.queue = {b}]
  <2>1. x.at = "recalc" /\ x.user = BudgetOwner[b] /\ x.save = NoSave
    BY <1>01
  <2>2. c.queue = {b} /\ c.every = FALSE
    BY DEF NoCalc
  <2>3. /\ sess' = [sess EXCEPT ![p] = x] /\ calc' = [calc EXCEPT ![p] = c] /\ UNCHANGED <<ledger, owed>>
        /\ \A d \in Budgets : d # b => budgets'[d] = budgets[d]
        /\ \A d \in Budgets : ~Due(d, sess[p], calc[p])
    BY <1>0, <1>02, <1>8 DEF BudgetCreate, Begin, history
  <2> HIDE DEF x, c
  <2>4. Turn(ledger, budgets', x, c)
    BY <2>1, <2>2 DEF Turn, Summing
  <2>5. Due(b, x, c)
    BY <2>2 DEF Due
  <2>6. \A d \in Budgets : Excused(owed, d, sess[p], calc[p]) => Excused(owed', d, x, c)
    BY <2>2, <2>3 DEF Excused
  <2>7. \A d \in Budgets : d # b /\ Due(d, sess[p], calc[p]) => Due(d, x, c)
    BY <2>3
  <2>8. /\ UNCHANGED ledger /\ \A d \in Budgets : d # b => budgets'[d] = budgets[d]
        /\ sess' = [sess EXCEPT ![p] = x] /\ calc' = [calc EXCEPT ![p] = c]
    BY <2>3
  <2> QED
    BY ONLY OneThread, Safe, RestTypes, SpentInv, p \in Threads, <2>4, <2>5, <2>6, <2>7, <2>8,
       SpentBudget
<1>9. ASSUME NEW b \in Budgets, BudgetDelete(p, b) PROVE SpentInv'
  <2>1. /\ sess[p].at = "idle" /\ sess' = [sess EXCEPT ![p] = sess[p]]
        /\ calc' = [calc EXCEPT ![p] = calc[p]] /\ UNCHANGED <<ledger, owed>>
        /\ \A d \in Budgets : d # b => budgets'[d] = budgets[d]
        /\ budgets'[b] = Gone
    BY <1>0, <1>9 DEF BudgetDelete, history
  <2>2. Turn(ledger, budgets', sess[p], calc[p])
    BY <1>0, <1>00, <2>1, TurnEasily DEF Turn
  <2>3. ~Shown(budgets', b)
    BY <2>1 DEF Shown, LiveRow
  <2>4. \A d \in Budgets : Excused(owed, d, sess[p], calc[p]) => Excused(owed', d, sess[p], calc[p])
    BY <2>1
  <2>5. \A d \in Budgets : d # b /\ Due(d, sess[p], calc[p]) => Due(d, sess[p], calc[p])
    OBVIOUS
  <2>6. /\ UNCHANGED ledger /\ \A d \in Budgets : d # b => budgets'[d] = budgets[d]
        /\ sess' = [sess EXCEPT ![p] = sess[p]] /\ calc' = [calc EXCEPT ![p] = calc[p]]
    BY <2>1
  <2> QED
    BY ONLY OneThread, Safe, RestTypes, SpentInv, p \in Threads, <2>2, <2>3, <2>4, <2>5, <2>6,
       SpentBudget
<1>10. ASSUME NEW b \in Budgets, NEW place \in {"budget.commit", "budget.monthly"},
              BudgetLoad(p, b, place)
       PROVE  SpentInv'
  <2>1. PICK s \in Settings :
          calc' = [calc EXCEPT ![p] = [NoCalc EXCEPT !.budget = b, !.snap = budgets[b],
            !.new = IF place = "budget.monthly" THEN [budgets[b] EXCEPT !.limit = s.limit]
                    ELSE WithSpent(s, budgets[b].spent)]]
    BY <1>10 DEF BudgetLoad
  <2> DEFINE new == IF place = "budget.monthly" THEN [budgets[b] EXCEPT !.limit = s.limit]
                    ELSE WithSpent(s, budgets[b].spent)
             c == [NoCalc EXCEPT !.budget = b, !.snap = budgets[b], !.new = new]
             x == Doing(place, BudgetOwner[b], {})
  <2>2. budgets[b] \in Budget /\ LiveRow(budgets[b])
    BY <1>0, <1>10 DEF BudgetLoad, LiveBudgets, LiveRow
  <2>3. place = "budget.monthly" =>
          new.cat = budgets[b].cat /\ new.topic = budgets[b].topic /\ new.active = budgets[b].active
    BY <2>2 DEF Budget
  <2> HIDE DEF new
  <2>4. c.budget = b /\ c.snap = budgets[b] /\ c.new = new /\ c.queue = {}
    BY DEF NoCalc
  <2>5. x.at = place /\ x.user = BudgetOwner[b] /\ x.save = NoSave
    BY <1>01
  <2>6. Begin(p, x) /\ calc' = [calc EXCEPT ![p] = c] /\ UNCHANGED <<ledger, budgets, owed>>
    BY <1>10, <2>1 DEF BudgetLoad, dbVars, history, new
  <2> HIDE DEF x, c
  <2>7. Turn(ledger, budgets, x, c)
    BY <2>2, <2>3, <2>4, <2>5 DEF Turn, Summing
  <2>8. x.at \notin Summing
    BY <2>5 DEF Summing
  <2> QED
    BY <2>6, <2>7, <2>8, SpentBegun
<1> QED
  BY <1>1, <1>2, <1>4, <1>5, <1>6, <1>7, <1>8, <1>9, <1>10 DEF Request

\* A row that did not change moves no sum.
LEMMA NetAll == \A a, b, c : (a = b => Net(a, b, c) = c) /\ Net(a, b, b) = a
BY DEF Net

\* Every later step pays a sum that is owed, or keeps owing it.
LEMMA SpentContinue ==
  ASSUME OneThread, Safe, RestTypes, SpentInv, NEW p \in Threads, Continue(p)
  PROVE  SpentInv'
<1> DEFINE x0 == sess[p]
           c0 == calc[p]
           T(x, c) == sess' = [sess EXCEPT ![p] = x] /\ calc' = [calc EXCEPT ![p] = c]
<1>0. /\ calc = [calc EXCEPT ![p] = c0] /\ sess = [sess EXCEPT ![p] = x0]
      /\ budgets \in [Budgets -> Budget \union {Unborn, Gone}]
      /\ ledger \in [Ids -> Expense \union {Unborn, Gone}]
      /\ x0 \in SessionType /\ c0 \in CalcType /\ GoodSession(ledger, origin, x0)
      /\ Turn(ledger, budgets, x0, c0)
      /\ Accounts(ledger, budgets, owed, x0, c0)
  BY DEF RestTypes, Safe, Types, SaveInv, SpentInv
<1>00. \A b \in LiveBudgets : b \in Budgets /\ budgets[b] \in Budget /\ LiveRow(budgets[b])
  BY <1>0 DEF LiveBudgets, LiveRow
<1>01. \A place : /\ [x0 EXCEPT !.at = place].at = place
                  /\ [x0 EXCEPT !.at = place].user = x0.user
                  /\ [x0 EXCEPT !.at = place].save = x0.save
                  /\ Goto(p, place) => sess' = [sess EXCEPT ![p] = [x0 EXCEPT !.at = place]]
  BY <1>0 DEF SessionType, Goto
<1>1. ASSUME SaveInsert(p) PROVE SpentInv'
  <2> DEFINE s == sess[p].save
             n == Len(sess[p].made) + 1
             item == Items[s][n]
  <2>1. PICK i \in Ids, c \in Resolved(item) :
          /\ ledger[i] = Unborn
          /\ ledger' = [ledger EXCEPT ![i] = [user |-> s.user, cat |-> c,
                                   topic |-> item.topic, amount |-> item.amount]]
          /\ sess' = [sess EXCEPT ![p].at = "recalc.list", ![p].made = Append(@, i)]
    BY <1>1 DEF SaveInsert
  <2> DEFINE x == [sess[p] EXCEPT !.at = "recalc.list", !.made = Append(@, i)]
  <2>2. sess' = [sess EXCEPT ![p] = x]
    BY <2>1
  <2>3. x.at = "recalc.list" /\ x.user = x0.user /\ x.save = x0.save
    BY <1>0 DEF SessionType
  <2>4. x0.at = "save.insert" /\ x0.save # NoSave /\ x0.user = s.user
    BY <1>0, <1>1 DEF SaveInsert, GoodSession, Turn
  <2> HIDE DEF x
  <2>5. \A j \in Ids : ledger'[j] # ledger[j] =>
           /\ LiveRow(ledger[j]) => ledger[j].user = x.user
           /\ LiveRow(ledger'[j]) => ledger'[j].user = x.user
    <3> HIDE DEF item, n
    <3>1. ASSUME NEW j \in Ids, ledger'[j] # ledger[j] PROVE j = i /\ ledger'[i].user = s.user
      BY <1>0, <2>1, <3>1
    <3> QED
      BY <2>1, <2>3, <2>4, <3>1 DEF LiveRow
  <2>6. UNCHANGED <<calc, budgets, owed>>
    BY <1>1 DEF SaveInsert
  <2> QED
    BY <2>2, <2>3, <2>4, <2>5, <2>6, SpentLedger
<1>2. ASSUME EditCommit(p) \/ DeleteCommit(p) PROVE SpentInv'
  <2>1. /\ Goto(p, "recalc.list") /\ x0.at \in {"edit.commit", "delete.commit"}
        /\ UNCHANGED <<calc, budgets, owed>>
    BY <1>2 DEF EditCommit, DeleteCommit, history
  <2>2. \A d \in x0.edits : LiveRow(ledger[d.id]) /\ ledger[d.id].user = x0.user
    BY <1>0, <2>1 DEF Turn
  <2>3. ASSUME NEW j \in Ids, ledger'[j] # ledger[j]
        PROVE  /\ LiveRow(ledger[j]) => ledger[j].user = x0.user
               /\ LiveRow(ledger'[j]) => ledger'[j].user = x0.user
    <3>1. \E d \in x0.edits : d.id = j
      BY <1>2, <2>3 DEF EditCommit, DeleteCommit
    <3>2. LiveRow(ledger[j]) /\ ledger[j].user = x0.user /\ ledger[j] \in Expense
      BY <1>0, <2>2, <3>1 DEF LiveRow
    <3>3. CASE EditCommit(p)
      <4>1. PICK d : ledger'[j] = Edited(ledger[j], d)
        BY <3>1, <3>3 DEF EditCommit
      <4>2. Edited(ledger[j], d).user = ledger[j].user
        BY <3>2 DEF Edited, Expense
      <4> QED
        BY <3>2, <4>1, <4>2
    <3>4. CASE DeleteCommit(p)
      BY <3>1, <3>2, <3>4 DEF DeleteCommit, LiveRow
    <3> QED
      BY <1>2, <3>3, <3>4
  <2> DEFINE x == [x0 EXCEPT !.at = "recalc.list"]
  <2>4. x.at = "recalc.list" /\ x.user = x0.user /\ x.save = x0.save /\ sess' = [sess EXCEPT ![p] = x]
    BY <1>01, <2>1
  <2> HIDE DEF x
  <2> QED
    BY <2>1, <2>3, <2>4, SpentLedger
<1>3. ASSUME SaveLost(p) \/ EditFails(p) \/ RecalcFails(p) PROVE SpentInv'
  BY <1>3, SpentDied DEF SaveLost, EditFails, RecalcFails
<1>4. ASSUME Finish(p), UNCHANGED <<ledger, budgets, owed>>,
             x0.at \in {"save.store", "budget.commit", "budget.monthly"}
      PROVE  SpentInv'
  <2>1. \A b \in Budgets : ~Due(b, x0, c0)
    BY <1>0, <1>4 DEF Turn, Due, Summing
  <2> QED
    BY <1>4, <2>1, SpentEnded
<1>5. ASSUME SaveStore(p) PROVE SpentInv'
  BY <1>4, <1>5 DEF SaveStore
<1>6. ASSUME BudgetFails(p) PROVE SpentInv'
  BY <1>4, <1>6 DEF BudgetFails, dbVars, history
<1>7. ASSUME NEW place \in {"save.insert", "save.notify", "save.store"}, Goto(p, place),
             UNCHANGED <<ledger, budgets, calc>>, c0.queue = {}, x0.at # "recalc.list",
             \A b \in Budgets : Excused(owed, b, x0, c0) => BudgetOwner[b] \in owed'
      PROVE  SpentInv'
  <2> DEFINE x == [x0 EXCEPT !.at = place]
  <2>1. x.at = place /\ x.user = x0.user /\ x.save = x0.save /\ sess' = [sess EXCEPT ![p] = x]
    BY <1>01, <1>7
  <2> HIDE DEF x
  <2>2. calc' = [calc EXCEPT ![p] = c0]
    BY <1>0, <1>7
  <2>3. Turn(ledger, budgets, x, c0)
    <3>1. x.save # NoSave => x.user = x.save.user
      BY <1>0, <2>1 DEF Turn
    <3> QED
      BY <1>7, <2>1, <3>1, TurnEasily
  <2>4. \A b \in Budgets : ~Due(b, x0, c0)
    BY <1>7 DEF Due
  <2>5. \A b \in Budgets : BudgetOwner[b] \in owed' => Excused(owed', b, x, c0)
    BY <2>1 DEF Excused, Summing
  <2> QED
    BY <1>7, <2>1, <2>2, <2>3, <2>4, <2>5, SpentQuiet
<1>8. ASSUME SaveNotify(p) PROVE SpentInv'
  <2>1. /\ x0.at = "save.notify" /\ UNCHANGED <<ledger, budgets, calc, owed>>
        /\ \E place \in {"save.insert", "save.notify", "save.store"} : Goto(p, place)
    BY <1>8 DEF SaveNotify, history
  <2>2. c0.queue = {}
    BY <1>0, <2>1 DEF Turn, Summing
  <2>3. \A b \in Budgets : Excused(owed, b, x0, c0) => BudgetOwner[b] \in owed'
    BY <2>1 DEF Excused
  <2> QED
    BY <1>7, <2>1, <2>2, <2>3
<1>9. ASSUME RecalcList(p) PROVE SpentInv'
  <2> DEFINE x == [x0 EXCEPT !.at = "recalc"]
             c == [NoCalc EXCEPT !.queue = ActiveOf(x0.user), !.every = TRUE]
  <2>1. x.at = "recalc" /\ x.user = x0.user /\ x.save = x0.save /\ sess' = [sess EXCEPT ![p] = x]
    BY <1>01, <1>9 DEF RecalcList
  <2>2. c.queue = ActiveOf(x0.user) /\ calc' = [calc EXCEPT ![p] = c]
    BY <1>9 DEF RecalcList, NoCalc
  <2>3. x0.at = "recalc.list" /\ UNCHANGED <<ledger, budgets, owed>>
    BY <1>9 DEF RecalcList, dbVars, history
  <2> HIDE DEF x, c
  <2>4. Turn(ledger, budgets, x, c)
    <3>1. \A b \in c.queue : BudgetOwner[b] = x.user
      BY <2>1, <2>2 DEF ActiveOf
    <3>2. x.save # NoSave => x.user = x.save.user
      BY <1>0, <2>1 DEF Turn
    <3> QED
      BY <2>1, <3>1, <3>2 DEF Turn, Summing
  <2>5. ASSUME NEW b \in Budgets, Shown(budgets, b), Due(b, x0, c0) \/ Excused(owed, b, x0, c0)
        PROVE  Due(b, x, c) \/ Excused(owed', b, x, c)
    <3>1. CASE BudgetOwner[b] = x.user
      BY <2>1, <2>2, <2>5, <3>1 DEF Due, ActiveOf, Shown, LiveBudgets, LiveRow
    <3>2. CASE BudgetOwner[b] # x.user
      <4>1. ~Due(b, x0, c0)
        BY <1>0, <2>1, <2>3, <3>2 DEF Due, Turn, Summing
      <4> QED
        BY <2>3, <2>5, <3>2, <4>1 DEF Excused
    <3> QED
      BY <3>1, <3>2
  <2> QED
    BY <2>1, <2>2, <2>3, <2>4, <2>5, SpentQuiet
<1>10. ASSUME RecalcLoad(p) PROVE SpentInv'
  <2>1. PICK b \in c0.queue \intersect LiveBudgets :
          IF Tracked(budgets[b])
          THEN /\ calc' = [calc EXCEPT ![p].budget = b, ![p].snap = budgets[b]]
               /\ Goto(p, "recalc.sum")
          ELSE calc' = [calc EXCEPT ![p].queue = @ \ {b}] /\ UNCHANGED sess
    BY <1>10 DEF RecalcLoad
  <2>2. x0.at = "recalc" /\ UNCHANGED <<ledger, budgets, owed>>
    BY <1>10 DEF RecalcLoad, dbVars, history
  <2>3. /\ \A d \in c0.queue : BudgetOwner[d] = x0.user
        /\ x0.save # NoSave => x0.user = x0.save.user
    BY <1>0 DEF Turn
  <2>4. CASE Tracked(budgets[b])
    <3> DEFINE x == [x0 EXCEPT !.at = "recalc.sum"]
               c == [c0 EXCEPT !.budget = b, !.snap = budgets[b]]
    <3>1. x.at = "recalc.sum" /\ x.user = x0.user /\ x.save = x0.save /\ sess' = [sess EXCEPT ![p] = x]
      BY <1>01, <2>1, <2>4
    <3>2. c.budget = b /\ c.snap = budgets[b] /\ c.queue = c0.queue /\ c.every = c0.every
      BY <1>0 DEF CalcType
    <3>3. calc' = [calc EXCEPT ![p] = c]
      BY <2>1, <2>4
    <3> HIDE DEF x, c
    <3>4. Turn(ledger, budgets, x, c)
      BY <1>00, <2>3, <3>1, <3>2 DEF Turn, Summing
    <3>5. \A d \in Budgets : Due(d, x0, c0) => Due(d, x, c)
      BY <2>2, <3>2 DEF Due
    <3>6. \A d \in Budgets : Excused(owed, d, x0, c0) => Excused(owed', d, x, c)
      BY <2>2, <3>1, <3>2 DEF Excused, Summing
    <3> QED
      BY <2>2, <3>1, <3>3, <3>4, <3>5, <3>6, SpentQuiet
  <2>5. CASE ~Tracked(budgets[b])
    <3> DEFINE c == [c0 EXCEPT !.queue = @ \ {b}]
    <3>1. c.queue = c0.queue \ {b} /\ c.every = c0.every
      BY <1>0 DEF CalcType
    <3>2. calc' = [calc EXCEPT ![p] = c] /\ sess' = [sess EXCEPT ![p] = x0]
      BY <1>0, <2>1, <2>5
    <3> HIDE DEF c
    <3>3. Turn(ledger, budgets, x0, c)
      BY <2>2, <2>3, <3>1 DEF Turn, Summing
    <3>4. ASSUME NEW d \in Budgets, Shown(budgets, d), Due(d, x0, c0) PROVE Due(d, x0, c)
      BY <2>2, <2>5, <3>1, <3>4 DEF Due, Shown
    <3>5. \A d \in Budgets : Excused(owed, d, x0, c0) => Excused(owed', d, x0, c)
      BY <2>2, <3>1 DEF Excused
    <3> QED
      BY <2>2, <3>2, <3>3, <3>4, <3>5, SpentQuiet
  <2> QED
    BY <2>4, <2>5
<1>11. ASSUME RecalcGone(p) PROVE SpentInv'
  <2>1. PICK b \in c0.queue \ LiveBudgets :
          IF c0.expired
          THEN /\ calc' = [calc EXCEPT ![p].queue = {}, ![p].every = FALSE]
               /\ owed' = owed \union {x0.user}
          ELSE calc' = [calc EXCEPT ![p].queue = @ \ {b}] /\ UNCHANGED owed
    BY <1>11 DEF RecalcGone
  <2>2. x0.at = "recalc" /\ UNCHANGED <<ledger, budgets>> /\ sess' = [sess EXCEPT ![p] = x0]
    BY <1>0, <1>11 DEF RecalcGone, dbVars
  <2>3. /\ \A d \in c0.queue : BudgetOwner[d] = x0.user
        /\ x0.save # NoSave => x0.user = x0.save.user
    BY <1>0 DEF Turn
  <2>4. CASE c0.expired
    <3> DEFINE c == [c0 EXCEPT !.queue = {}, !.every = FALSE]
    <3>1. c.queue = {} /\ c.every = FALSE
      BY <1>0 DEF CalcType
    <3>2. calc' = [calc EXCEPT ![p] = c] /\ owed' = owed \union {x0.user}
      BY <2>1, <2>4
    <3> HIDE DEF c
    <3>3. Turn(ledger, budgets, x0, c)
      BY <2>2, <2>3, <3>1 DEF Turn, Summing
    <3>4. ASSUME NEW d \in Budgets, Due(d, x0, c0) \/ Excused(owed, d, x0, c0)
          PROVE  Excused(owed', d, x0, c)
      BY <2>2, <2>3, <3>1, <3>2, <3>4 DEF Due, Excused
    <3> QED
      BY <2>2, <3>2, <3>3, <3>4, SpentQuiet
  <2>5. CASE ~c0.expired
    <3> DEFINE c == [c0 EXCEPT !.queue = @ \ {b}]
    <3>1. c.queue = c0.queue \ {b} /\ c.every = c0.every
      BY <1>0 DEF CalcType
    <3>2. calc' = [calc EXCEPT ![p] = c] /\ owed' = owed
      BY <2>1, <2>5
    <3> HIDE DEF c
    <3>3. Turn(ledger, budgets, x0, c)
      BY <2>2, <2>3, <3>1 DEF Turn, Summing
    <3>4. ASSUME NEW d \in Budgets, Shown(budgets, d), Due(d, x0, c0) PROVE Due(d, x0, c)
      <4>1. d \in LiveBudgets
        BY <3>4 DEF Shown, LiveRow, LiveBudgets
      <4> QED
        BY <2>1, <2>2, <3>1, <3>4, <4>1 DEF Due
    <3>5. \A d \in Budgets : Excused(owed, d, x0, c0) => Excused(owed', d, x0, c)
      BY <3>1, <3>2 DEF Excused
    <3> QED
      BY <2>2, <3>2, <3>3, <3>4, <3>5, SpentQuiet
  <2> QED
    BY <2>4, <2>5
<1>12. ASSUME RecalcSum(p) PROVE SpentInv'
  <2> DEFINE t == Total(BudgetOwner[c0.budget], c0.snap)
             x == [x0 EXCEPT !.at = "recalc.write"]
             c == [c0 EXCEPT !.total = t]
  <2>1. t = TotalIn(ledger, BudgetOwner[c0.budget], c0.snap)
    BY TotalIs
  <2>2. x.at = "recalc.write" /\ x.user = x0.user /\ x.save = x0.save /\ sess' = [sess EXCEPT ![p] = x]
    BY <1>01, <1>12 DEF RecalcSum
  <2> HIDE DEF t
  <2>3. /\ c.budget = c0.budget /\ c.snap = c0.snap /\ c.queue = c0.queue /\ c.every = c0.every
        /\ c.total = t
    BY <1>0 DEF CalcType
  <2>4. calc' = [calc EXCEPT ![p] = c] /\ x0.at = "recalc.sum" /\ UNCHANGED <<ledger, budgets, owed>>
    BY <1>12 DEF RecalcSum, dbVars, history, t
  <2> HIDE DEF x, c
  <2>5. Turn(ledger, budgets, x, c)
    BY <1>0, <2>1, <2>2, <2>3, <2>4 DEF Turn, Summing
  <2>6. \A d \in Budgets : Due(d, x0, c0) => Due(d, x, c)
    BY <2>3, <2>4 DEF Due
  <2>7. \A d \in Budgets : Excused(owed, d, x0, c0) => Excused(owed', d, x, c)
    BY <2>2, <2>3, <2>4 DEF Excused, Summing
  <2> QED
    BY <2>2, <2>4, <2>5, <2>6, <2>7, SpentQuiet
<1>13. ASSUME RecalcWrite(p) PROVE SpentInv'
  <2> DEFINE b == c0.budget
             x == [x0 EXCEPT !.at = "recalc"]
             c == [c0 EXCEPT !.queue = @ \ {b}, !.expired = TRUE]
  <2>1. /\ x0.at = "recalc.write" /\ b \in Budgets /\ LiveRow(budgets[b]) /\ c0.snap = budgets[b]
        /\ c0.total = TotalIn(ledger, BudgetOwner[b], budgets[b])
    BY <1>0, <1>13 DEF RecalcWrite, Turn
  <2>2. b \in LiveBudgets /\ budgets[b] \in Budget
    BY <1>0, <2>1 DEF LiveBudgets, LiveRow
  <2>3. x.at = "recalc" /\ x.user = x0.user /\ x.save = x0.save /\ sess' = [sess EXCEPT ![p] = x]
    BY <1>01, <1>13 DEF RecalcWrite
  <2>4. c.queue = c0.queue \ {b} /\ c.every = c0.every
    BY <1>0 DEF CalcType
  <2>5. calc' = [calc EXCEPT ![p] = c] /\ UNCHANGED <<ledger, owed>>
    BY <1>13 DEF RecalcWrite, history
  <2>6. budgets' = [budgets EXCEPT ![b] = [budgets[b] EXCEPT !.spent = c0.total]]
    <3>1. budgets' = [budgets EXCEPT ![b].spent = Net(@, c0.snap.spent, c0.total)]
      BY <1>13, <2>2 DEF RecalcWrite
    <3>2. Net(budgets[b].spent, c0.snap.spent, c0.total) = c0.total
      BY <2>1, NetAll
    <3> QED
      BY <3>1, <3>2
  <2>7. budgets'[b].spent = c0.total /\ budgets'[b].cat = budgets[b].cat
        /\ budgets'[b].topic = budgets[b].topic /\ \A d \in Budgets : d # b => budgets'[d] = budgets[d]
    BY <1>0, <2>1, <2>2, <2>6 DEF Budget
  <2> HIDE DEF x, c
  <2>8. Fresh(ledger, budgets', b)
    <3> DEFINE r == budgets'[b]
               q == budgets[b]
               u == BudgetOwner[b]
               l == ledger
    <3>1. r.cat = q.cat /\ r.topic = q.topic
      BY <2>7
    <3> HIDE DEF r, q, u, l
    <3>2. TotalIn(l, u, r) = TotalIn(l, u, q)
      BY <3>1, TotalSame
    <3>3. TotalIn(ledger, BudgetOwner[b], budgets'[b]) = c0.total
      BY <2>1, <3>2 DEF r, q, u, l
    <3> QED
      BY <2>7, <3>3 DEF Fresh
  <2>9. Turn(ledger, budgets', x, c)
    BY <1>0, <2>3, <2>4 DEF Turn, Summing
  <2>10. \A d \in Budgets : d # b /\ Due(d, x0, c0) => Due(d, x, c)
    BY <2>1, <2>4 DEF Due
  <2>11. \A d \in Budgets : Excused(owed, d, x0, c0) => Excused(owed', d, x, c)
    BY <2>1, <2>3, <2>4, <2>5 DEF Excused, Summing
  <2> HIDE DEF b
  <2>12. /\ UNCHANGED ledger /\ \A d \in Budgets : d # b => budgets'[d] = budgets[d]
         /\ sess' = [sess EXCEPT ![p] = x] /\ calc' = [calc EXCEPT ![p] = c]
    BY <2>3, <2>5, <2>7
  <2> QED
    BY ONLY OneThread, Safe, RestTypes, SpentInv, p \in Threads, <2>8, <2>9, <2>10, <2>11, <2>12,
       SpentBudget
<1>14. ASSUME RecalcDone(p) PROVE SpentInv'
  <2>1. /\ x0.at = "recalc" /\ c0.queue = {} /\ UNCHANGED <<ledger, budgets>>
        /\ owed' = IF c0.every THEN owed \ {x0.user} ELSE owed
    BY <1>14 DEF RecalcDone, dbVars
  <2>2. \A b \in Budgets : Excused(owed, b, x0, c0) => BudgetOwner[b] \in owed'
    BY <2>1 DEF Excused, Summing
  <2>3. CASE UNCHANGED calc /\ Goto(p, "save.notify")
    BY <1>7, <2>1, <2>2, <2>3
  <2>4. CASE Finish(p)
    <3>1. Idle.at = "idle" /\ Idle.save = NoSave
      BY DEF Idle
    <3>2. Turn(ledger, budgets, Idle, NoCalc)
      BY <3>1, NoCalcTyped, TurnEasily
    <3>3. \A b \in Budgets : BudgetOwner[b] \in owed' => Excused(owed', b, Idle, NoCalc)
      BY <3>1 DEF Excused, Summing
    <3>4. \A b \in Budgets : ~Due(b, x0, c0)
      BY <2>1 DEF Due
    <3> QED
      BY <2>1, <2>2, <2>4, <3>2, <3>3, <3>4, SpentQuiet DEF Finish
  <2> QED
    BY <1>14, <2>3, <2>4 DEF RecalcDone
<1>15. ASSUME BudgetCommit(p) PROVE SpentInv'
  <2> DEFINE b == c0.budget
             x == [x0 EXCEPT !.at = "recalc"]
             c == [NoCalc EXCEPT !.queue = {b}]
  <2>1. x0.at = "budget.commit" /\ BudgetOwner[b] = x0.user /\ c0.queue = {}
    BY <1>0, <1>15 DEF BudgetCommit, Turn, Summing
  <2>2. x.at = "recalc" /\ x.user = x0.user /\ x.save = x0.save /\ sess' = [sess EXCEPT ![p] = x]
    BY <1>01, <1>15 DEF BudgetCommit
  <2>3. c.queue = {b} /\ c.every = FALSE
    BY DEF NoCalc
  <2>4. calc' = [calc EXCEPT ![p] = c] /\ UNCHANGED <<ledger, owed>>
    BY <1>15 DEF BudgetCommit, history
  <2>5. \A d \in Budgets : d # b => budgets'[d] = budgets[d]
    BY <1>0, <1>15 DEF BudgetCommit, BudgetWrite
  <2>6. x0.save # NoSave => x0.user = x0.save.user
    BY <1>0 DEF Turn
  <2> HIDE DEF x, c
  <2>7. Turn(ledger, budgets', x, c)
    BY <2>1, <2>2, <2>3, <2>6 DEF Turn, Summing
  <2>8. Due(b, x, c)
    BY <2>3 DEF Due
  <2>9. \A d \in Budgets : ~Due(d, x0, c0)
    BY <2>1 DEF Due
  <2>10. \A d \in Budgets : Excused(owed, d, x0, c0) => Excused(owed', d, x, c)
    BY <2>3, <2>4 DEF Excused
  <2> HIDE DEF b
  <2>11. /\ UNCHANGED ledger /\ sess' = [sess EXCEPT ![p] = x] /\ calc' = [calc EXCEPT ![p] = c]
    BY <2>2, <2>4
  <2>12. \A d \in Budgets : d # b /\ Due(d, x0, c0) => Due(d, x, c)
    BY <2>9
  <2> QED
    BY ONLY OneThread, Safe, RestTypes, SpentInv, p \in Threads, <2>5, <2>7, <2>8, <2>10, <2>11,
       <2>12, SpentBudget
<1>16. ASSUME MonthlyCommit(p) PROVE SpentInv'
  <2> DEFINE b == c0.budget
             new == c0.new
             old == c0.snap
  <2>1. /\ x0.at = "budget.monthly" /\ b \in Budgets /\ LiveRow(budgets[b]) /\ old = budgets[b]
        /\ c0.queue = {} /\ BudgetWrite(p) /\ Finish(p) /\ UNCHANGED <<ledger, owed>>
        /\ new.cat = budgets[b].cat /\ new.topic = budgets[b].topic /\ new.active = budgets[b].active
    BY <1>0, <1>16 DEF MonthlyCommit, Turn, Summing, history
  <2>2. budgets[b] \in Budget
    BY <1>0, <2>1 DEF LiveRow
  <2>3. budgets' = [budgets EXCEPT ![b] = [budgets[b] EXCEPT
                                 !.cat    = Net(@, old.cat, new.cat),
                                 !.topic  = Net(@, old.topic, new.topic),
                                 !.limit  = Net(@, old.limit, new.limit),
                                 !.active = Net(@, old.active, new.active)]]
    BY <1>0, <2>1 DEF BudgetWrite
  <2>4. /\ Net(budgets[b].cat, old.cat, new.cat) = budgets[b].cat
        /\ Net(budgets[b].topic, old.topic, new.topic) = budgets[b].topic
    BY <2>1, NetAll
  <2>5. Net(budgets[b].active, old.active, new.active) = budgets[b].active
    <3>1. old.active = budgets[b].active /\ new.active = budgets[b].active
      BY ONLY <2>1, Zenon
    <3> QED
      BY ONLY <3>1, NetAll, Zenon
  <2>6. budgets'[b].spent = budgets[b].spent /\ budgets'[b].cat = budgets[b].cat
        /\ budgets'[b].topic = budgets[b].topic /\ \A d \in Budgets : d # b => budgets'[d] = budgets[d]
    BY <1>0, <2>1, <2>2, <2>3, <2>4 DEF Budget
  <2>7. budgets'[b].active = Net(budgets[b].active, old.active, new.active)
    BY <1>0, <2>1, <2>2, <2>3 DEF Budget
  <2>8. Shown(budgets', b) => Shown(budgets, b)
    BY <2>1, <2>5, <2>6, <2>7 DEF Shown, Tracked
  <2>9. Fresh(ledger, budgets, b) => Fresh(ledger, budgets', b)
    <3> DEFINE r == budgets'[b]
               q == budgets[b]
               u == BudgetOwner[b]
               l == ledger
    <3>1. r.cat = q.cat /\ r.topic = q.topic
      BY <2>6
    <3> HIDE DEF r, q, u, l
    <3>2. TotalIn(l, u, r) = TotalIn(l, u, q)
      BY <3>1, TotalSame
    <3>3. TotalIn(ledger, BudgetOwner[b], budgets'[b]) = TotalIn(ledger, BudgetOwner[b], budgets[b])
      BY <3>2 DEF r, q, u, l
    <3> QED
      BY <2>6, <3>3 DEF Fresh
  <2>10. Idle.at = "idle" /\ Idle.save = NoSave
    BY DEF Idle
  <2>11. Turn(ledger, budgets', Idle, NoCalc)
    BY <2>10, NoCalcTyped, TurnEasily
  <2>12. \A d \in Budgets : ~Due(d, x0, c0)
    BY <2>1 DEF Due
  <2>13. \A d \in Budgets : Excused(owed, d, x0, c0) => Excused(owed', d, Idle, NoCalc)
    BY <2>1, <2>10 DEF Excused, Summing
  <2>14. Shown(budgets', b) /\ ~Fresh(ledger, budgets', b) => Excused(owed', b, Idle, NoCalc)
    <3>1. Shown(budgets, b) /\ ~Fresh(ledger, budgets, b) => Excused(owed, b, x0, c0)
      BY <1>0, <2>1, <2>12 DEF Accounts
    <3> QED
      BY <2>1, <2>8, <2>9, <2>13, <3>1
  <2> HIDE DEF b
  <2>15. /\ UNCHANGED ledger /\ \A d \in Budgets : d # b => budgets'[d] = budgets[d]
         /\ sess' = [sess EXCEPT ![p] = Idle] /\ calc' = [calc EXCEPT ![p] = NoCalc]
    BY <2>1, <2>6 DEF Finish
  <2>16. \A d \in Budgets : d # b /\ Due(d, x0, c0) => Due(d, Idle, NoCalc)
    BY <2>12
  <2> QED
    BY ONLY OneThread, Safe, RestTypes, SpentInv, p \in Threads, <2>11, <2>13, <2>14, <2>15, <2>16,
       SpentBudget
<1> QED
  BY <1>1, <1>2, <1>3, <1>5, <1>6, <1>8, <1>9, <1>10, <1>11, <1>12, <1>13, <1>14, <1>15, <1>16
     DEF Continue

\* Nothing is owed at the start.
LEMMA SpentInit == Init => SpentInv
<1> SUFFICES ASSUME Init PROVE SpentInv
  OBVIOUS
<1>1. /\ \A p \in Threads : sess[p] = Idle /\ calc[p] = NoCalc
      /\ \A b \in Budgets : budgets[b] = Unborn
  BY DEF Init
<1>2. Turn(ledger, budgets, Idle, NoCalc)
  <2>1. Idle.at = "idle" /\ Idle.save = NoSave
    BY DEF Idle
  <2> QED
    BY <2>1, NoCalcTyped, TurnEasily
<1>3. Accounts(ledger, budgets, owed, Idle, NoCalc)
  BY <1>1 DEF Accounts, Shown, LiveRow
<1> QED
  BY <1>1, <1>2, <1>3 DEF SpentInv

\* No step leaves a budget whose figure is stale and that nobody owes a sum.
LEMMA SpentStep == OneThread /\ Safe /\ RestTypes /\ SpentInv /\ [Next]_vars => SpentInv'
<1> SUFFICES ASSUME OneThread, Safe, RestTypes, SpentInv, [Next]_vars PROVE SpentInv'
  OBVIOUS
<1>1. CASE UNCHANGED vars
  BY <1>1, SpentUntouched DEF vars, dbVars, history
<1>2. ASSUME NEW p \in Threads, Request(p) \/ Continue(p) \/ Crash(p) PROVE SpentInv'
  BY <1>2, SpentRequest, SpentContinue, SpentDied DEF Crash
<1>3. ASSUME NEW w \in Workers, Work(w) PROVE SpentInv'
  BY <1>3, SpentUntouched DEF Work, WorkerSelect, WorkerCommit, WorkerDies, dbVars, history
<1>4. ASSUME NEW b \in Budgets, NEW by \in {"inline", "worker"}, AlertsAge(b, by) PROVE SpentInv'
  BY <1>4, SpentUntouched DEF AlertsAge, history
<1> QED
  BY <1>1, <1>2, <1>3, <1>4 DEF Next

\* While requests do not overlap, an active budget shows, whenever nothing runs,
\* what the ledger says was spent on it, unless a request died before it had
\* summed; whatever was saved, edited, deleted or moved between categories.
THEOREM BudgetsAreExact ==
  ASSUME OneThread
  PROVE  Spec => []SpentExact
<1> DEFINE I == Safe /\ RestTypes /\ SpentInv
<1>1. Init => I
  BY SafeInit, RestInit, SpentInit
<1>2. I /\ [Next]_vars => I'
  BY SafeStep, RestStep, SpentStep
<1>3. I => SpentExact
  <2> SUFFICES ASSUME SpentInv, \A p \in Threads : sess[p].at = "idle", NEW b \in LiveBudgets,
                      budgets[b].active, Tracked(budgets[b]), BudgetOwner[b] \notin owed
               PROVE  budgets[b].spent = Total(BudgetOwner[b], budgets[b])
    BY DEF SpentExact
  <2>1. b \in Budgets /\ budgets[b] # Unborn /\ Shown(budgets, b)
    BY DEF LiveBudgets, Shown, LiveRow
  <2>2. PICK p : p \in Threads
    BY <2>1 DEF SpentInv
  <2>3. /\ sess[p].at = "idle" /\ Turn(ledger, budgets, sess[p], calc[p])
        /\ Accounts(ledger, budgets, owed, sess[p], calc[p])
    BY <2>2 DEF SpentInv
  <2>4. ~Due(b, sess[p], calc[p]) /\ ~Excused(owed, b, sess[p], calc[p])
    BY <2>3 DEF Turn, Due, Excused, Summing
  <2>5. Fresh(ledger, budgets, b)
    BY <2>1, <2>3, <2>4 DEF Accounts
  <2> QED
    BY <2>5, TotalIs DEF Fresh
<1> QED
  BY <1>1, <1>2, <1>3, PTL DEF Spec

=============================================================================
