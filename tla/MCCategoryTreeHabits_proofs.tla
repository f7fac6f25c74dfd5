--------------------- MODULE MCCategoryTreeHabits_proofs ---------------------
(***************************************************************************)
(* Proofs about the category tree, for any number of users, categories and *)
(* concurrent requests.  First of CategoryTree's own specification:        *)
(*   - rows stay well formed, whatever is moved;                           *)
(*   - as long as nobody moves a category, the level column is the depth,  *)
(*     every category rolls up to the main category whose descendants it   *)
(*     is among, and budgets stay on main categories.                      *)
(* Then under the three habits of MCCategoryTreeHabits:                    *)
(*   - budgets stay on main categories where nobody drags one;             *)
(*   - a delete reaches its own user's personal categories only;           *)
(*   - levels stay depths where leaves are dragged, one request at a time, *)
(*     so the flat list and the tree show the same where nothing is shared;*)
(*   - siblings of one scope have different names where users share a      *)
(*     family tree and requests come one at a time.                        *)
(***************************************************************************)
EXTENDS MCCategoryTreeHabits, TLAPS

-----------------------------------------------------------------------------
(* What the sessions hold *)

SessionType ==
  [at : Places, user : Users \union {NoUser}, cat : Cats \union {NoCat},
   snap : Node \union {NoNode}, new : Node \union {NoNode},
   rows : SUBSET [id : Cats, node : Node], done : Nat,
   group : Groups \union {NoGroup}, doomed : SUBSET Cats,
   budget : Budgets \union {NoBudget}]

\* The fields a step reads are set, by what the session is doing.
GoodSession(s) ==
  /\ s \in SessionType
  /\ s.at = "update" => s.cat \in Cats /\ s.snap \in Node /\ s.new \in Node
  /\ s.at = "budget" => s.cat \in Cats /\ s.budget \in Budgets
  /\ s.at = "seed" => s.user \in Users /\ s.done < Len(DefaultPath)
SessionShape == \A p \in Sessions : GoodSession(sess[p])
TypeInv == TypeOK /\ SessionShape

\* An idle session is well formed.
LEMMA IdleGood == GoodSession(Idle)
<1>1. NoNode \in Node \union {NoNode} /\ {} \in SUBSET [id : Cats, node : Node]
  OBVIOUS
<1> HIDE DEF NoNode
<1> QED
  BY <1>1 DEF GoodSession, SessionType, Idle, Places

\* Replacing one session by a well-formed one, all else equal, keeps types.
LEMMA SetSession ==
  ASSUME TypeInv, NEW p \in Sessions, NEW s, GoodSession(s),
         sess' = [sess EXCEPT ![p] = s], UNCHANGED <<tree, budgetOn>>
  PROVE  TypeInv'
<1>1. /\ DOMAIN sess' = Sessions /\ sess'[p] = s
      /\ \A q \in Sessions : q # p => sess'[q] = sess[q]
  BY DEF TypeInv, TypeOK
<1>2. TypeOK'
  BY <1>1 DEF TypeInv, TypeOK, GoodSession, SessionType
<1>3. SessionShape'
  BY <1>1 DEF TypeInv, SessionShape, GoodSession
<1> QED
  BY <1>2, <1>3 DEF TypeInv

\* So does finishing a request, whatever well-formed tree it commits.
LEMMA Finished ==
  ASSUME TypeInv, NEW p \in Sessions, Finish(p),
         tree' \in [Cats -> Node \union {Unborn, Gone}],
         budgetOn' \in [Budgets -> Cats \union {NoCat}]
  PROVE  TypeInv'
<1>1. /\ DOMAIN sess' = Sessions /\ sess'[p] = Idle
      /\ \A q \in Sessions : q # p => sess'[q] = sess[q]
  BY DEF TypeInv, TypeOK, Finish
<1>2. \A q \in Sessions : GoodSession(sess'[q])
  BY <1>1, IdleGood DEF TypeInv, SessionShape
<1>3. SessionShape'
  BY <1>2 DEF SessionShape, GoodSession
<1>4. TypeOK'
  BY <1>1, <1>2 DEF TypeOK, GoodSession, SessionType
<1> QED
  BY <1>3, <1>4 DEF TypeInv

\* The default path has at most one name per level (DEFAULT_TREE has three).
LEMMA PathLength == Len(DefaultPath) \in 1..3
BY TreeAssumption DEF MAX_LEVEL

\* Every position on the default path has a name and a legal level.
LEMMA PathFits ==
  ASSUME NEW k \in Nat, k < Len(DefaultPath)
  PROVE  /\ DefaultPath[k + 1] \in Names
         /\ k \in 0..MAX_LEVEL
         /\ k + 1 # Len(DefaultPath) => k + 1 < Len(DefaultPath)
<1>1. DefaultPath \in Seq(Names) /\ Len(DefaultPath) \in 1..3
  BY TreeAssumption DEF MAX_LEVEL
<1>4. PICK n \in 1..3 : n = Len(DefaultPath)
  BY <1>1
<1>5. k < n
  BY <1>4
<1>6. k + 1 \in 1..n /\ k \in 0..2 /\ (k + 1 # n => k + 1 < n)
  BY <1>5
<1>2. k + 1 \in 1..Len(DefaultPath) /\ k \in 0..2 /\ (k + 1 # n => k + 1 < n)
  BY <1>4, <1>6
<1>3. \A names : \A i \in 1..Len(names) : names \in Seq(Names) => names[i] \in Names
  OBVIOUS
<1> QED
  BY <1>1, <1>2, <1>3, <1>4 DEF MAX_LEVEL

\* Initially no row exists and nobody is at work.
THEOREM TypeInit == Init => TypeInv
BY IdleGood DEF Init, TypeInv, TypeOK, SessionShape, GoodSession, SessionType

\* Every step keeps rows, budgets and sessions well formed.
THEOREM TypeStep == TypeInv /\ [Next]_vars => TypeInv'
<1> SUFFICES ASSUME TypeInv, [Next]_vars PROVE TypeInv'
  OBVIOUS
<1> USE DEF Live
<1>1. CASE UNCHANGED vars
  BY <1>1 DEF vars, TypeInv, TypeOK, SessionShape
<1>2. ASSUME NEW p \in Sessions, InsertCommit(p) PROVE TypeInv'
  <2>1. \A c \in Cats : c \in IdsOf(p) =>
          (CHOOSE r \in sess[p].rows : r.id = c).node \in Node
    <3> SUFFICES ASSUME NEW c \in Cats, c \in IdsOf(p)
                 PROVE  (CHOOSE r \in sess[p].rows : r.id = c).node \in Node
      OBVIOUS
    <3>1. \E r \in sess[p].rows : r.id = c
      BY DEF IdsOf
    <3>2. (CHOOSE r \in sess[p].rows : r.id = c) \in sess[p].rows
      BY <3>1
    <3> QED
      BY <3>2 DEF TypeInv, TypeOK
  <2>2. tree' \in [Cats -> Node \union {Unborn, Gone}]
    BY <1>2, <2>1 DEF InsertCommit, TypeInv, TypeOK
  <2> QED
    BY <1>2, <2>2, Finished DEF InsertCommit, TypeInv, TypeOK
<1>3. ASSUME NEW p \in Sessions, UpdateCommit(p) PROVE TypeInv'
  <2>1. tree' \in [Cats -> Node \union {Unborn, Gone}]
    <3> DEFINE c == sess[p].cat   snap == sess[p].snap   new == sess[p].new
               next == [tree[c] EXCEPT !.parent = Net(@, snap.parent, new.parent),
                                       !.name   = Net(@, snap.name, new.name),
                                       !.level  = Net(@, snap.level, new.level)]
    <3>1. c \in Cats /\ snap \in Node /\ new \in Node
      BY <1>3 DEF UpdateCommit, TypeInv, SessionShape, GoodSession
    <3>2. tree' = tree \/ (c \in Live /\ tree' = [tree EXCEPT ![c] = next])
      BY <1>3 DEF UpdateCommit
    <3>3. c \in Live => next \in Node
      BY <3>1 DEF Net, Node
    <3> QED
      BY <3>2, <3>3 DEF TypeInv, TypeOK
  <2> QED
    BY <1>3, <2>1, Finished DEF UpdateCommit, TypeInv, TypeOK
<1>4. ASSUME NEW p \in Sessions, DeleteCommit(p) PROVE TypeInv'
  <2>1. tree' \in [Cats -> Node \union {Unborn, Gone}]
    BY <1>4 DEF DeleteCommit, TypeInv, TypeOK
  <2>2. budgetOn' \in [Budgets -> Cats \union {NoCat}]
    BY <1>4 DEF DeleteCommit, TypeInv, TypeOK
  <2> QED
    BY <1>4, <2>1, <2>2, Finished DEF DeleteCommit
<1>5. ASSUME NEW p \in Sessions, BudgetCommit(p) PROVE TypeInv'
  <2>1. budgetOn' \in [Budgets -> Cats \union {NoCat}]
    BY <1>5 DEF BudgetCommit, TypeInv, TypeOK, SessionShape, GoodSession
  <2> QED
    BY <1>5, <2>1, Finished DEF BudgetCommit, TypeInv, TypeOK
<1>6. ASSUME NEW p \in Sessions, SeedNode(p) PROVE TypeInv'
  <2> DEFINE k    == sess[p].done
             name == DefaultPath[k + 1]
             to   == IF k + 1 = Len(DefaultPath) THEN "insert" ELSE "seed"
             row(c) == [id |-> c, node |-> [user |-> sess[p].user, group |-> sess[p].group,
                          parent |-> sess[p].cat, name |-> name, level |-> k]]
  <2>1. /\ k \in Nat /\ k < Len(DefaultPath) /\ sess[p].user \in Users
        /\ sess[p].group \in Groups \union {NoGroup} /\ sess[p].cat \in Cats \union {NoCat}
    BY <1>6 DEF SeedNode, TypeInv, SessionShape, GoodSession, SessionType
  <2>2. name \in Names /\ k \in 0..MAX_LEVEL /\ (to = "seed" => k + 1 < Len(DefaultPath))
    BY <2>1, PathFits
  <2>3. PICK c \in Cats : \E rows \in SUBSET {row(c)} :
          sess' = [sess EXCEPT ![p].at = to, ![p].done = k + 1, ![p].cat = c,
                               ![p].rows = @ \union rows]
    <3>1. CASE \E c \in Found(p, name) :
                 sess' = [sess EXCEPT ![p].at = to, ![p].done = k + 1, ![p].cat = c]
      <4>1. PICK c \in Cats :
                 sess' = [sess EXCEPT ![p].at = to, ![p].done = k + 1, ![p].cat = c]
        BY <3>1 DEF Found
      <4>2. sess[p].rows \union {} = sess[p].rows /\ {} \in SUBSET {row(c)}
        OBVIOUS
      <4>3. sess' = [sess EXCEPT ![p] = [sess[p] EXCEPT !.at = to, !.done = k + 1, !.cat = c]]
        BY <4>1
      <4>4. [sess[p] EXCEPT !.at = to, !.done = k + 1, !.cat = c]
            = [sess[p] EXCEPT !.at = to, !.done = k + 1, !.cat = c, !.rows = @ \union {}]
        <5>1. PICK old \in SessionType : old = sess[p]
          BY DEF TypeInv, SessionShape, GoodSession
        <5> HIDE DEF to, k
        <5>2. [old EXCEPT !.at = to, !.done = k + 1, !.cat = c]
              = [old EXCEPT !.at = to, !.done = k + 1, !.cat = c, !.rows = @ \union {}]
          BY DEF SessionType
        <5> QED
          BY <5>1, <5>2
      <4>5. sess' = [sess EXCEPT ![p].at = to, ![p].done = k + 1, ![p].cat = c,
                               ![p].rows = @ \union {}]
        BY <4>3, <4>4
      <4> HIDE DEF row, to
      <4> QED
        BY <4>2, <4>5
    <3>2. CASE \E c \in Fresh :
                 sess' = [sess EXCEPT ![p].at = to, ![p].done = k + 1, ![p].cat = c,
                                      ![p].rows = @ \union {row(c)}]
      <4>1. PICK c \in Cats :
                 sess' = [sess EXCEPT ![p].at = to, ![p].done = k + 1, ![p].cat = c,
                                      ![p].rows = @ \union {row(c)}]
        BY <3>2 DEF Fresh
      <4>2. {row(c)} \in SUBSET {row(c)}
        OBVIOUS
      <4> HIDE DEF row, to
      <4> QED
        BY <4>1, <4>2
    <3>3. (k + 1) - 1 = k
      BY <2>1
    <3> QED
      BY <1>6, <3>1, <3>2, <3>3 DEF SeedNode
  <2>4. row(c).id \in Cats /\ row(c).node \in Node
    BY <2>1, <2>2 DEF Node
  <2>5. PICK rows \in SUBSET {row(c)} :
          sess' = [sess EXCEPT ![p].at = to, ![p].done = k + 1, ![p].cat = c,
                               ![p].rows = @ \union rows]
    BY <2>3
  <2> QED
    <3> DEFINE s == [sess[p] EXCEPT !.at = to, !.done = k + 1, !.cat = c, !.rows = @ \union rows]
    <3>9. UNCHANGED <<tree, budgetOn>>
      BY <1>6 DEF SeedNode
    <3>10. sess' = [sess EXCEPT ![p] = s]
      <4> HIDE DEF to, row
      <4> QED
        BY <2>5
    <3>1. sess' = [sess EXCEPT ![p] = s] /\ UNCHANGED <<tree, budgetOn>>
      BY <3>9, <3>10
    <3>2. PICK old \in SessionType : old = sess[p]
      BY DEF TypeInv, SessionShape, GoodSession
    <3>3. rows \in SUBSET [id : Cats, node : Node]
      BY <2>4
    <3>5. to \in {"insert", "seed"} /\ k + 1 \in Nat
      BY <2>1
    <3>6. s = [old EXCEPT !.at = to, !.done = k + 1, !.cat = c, !.rows = @ \union rows]
      BY <3>2
    <3>7. old.user = sess[p].user
      BY <3>2
    <3> HIDE DEF to, k, s
    <3>8. s \in SessionType /\ s.at = to /\ s.user = old.user /\ s.done = k + 1
      BY <3>2, <3>3, <3>5, <3>6 DEF SessionType, Places
    <3>4. GoodSession(s)
      BY <2>1, <2>2, <3>5, <3>7, <3>8 DEF GoodSession
    <3> QED
      BY <3>1, <3>4, SetSession
<1>7. ASSUME NEW p \in Sessions, NEW u \in Users, Request(p, u) PROVE TypeInv'
  <2>1. ASSUME NEW parent \in Cats \union {NoCat}, NEW name \in Names,
               CreateLoad(p, u, parent, name)
        PROVE  TypeInv'
    <3>1. PICK c \in Cats :
            Begin(p, [Idle EXCEPT !.at = "insert", !.user = u,
              !.rows = {[id |-> c, node |-> [user |-> u, group |-> NoGroup, parent |-> parent,
                                             name |-> name, level |-> LevelUnder(parent)]]}])
      BY <2>1 DEF CreateLoad, Fresh
    <3>2. LevelUnder(parent) \in 0..MAX_LEVEL
      BY <2>1 DEF CreateLoad, OwnParent, Fits, LevelUnder, TypeInv, TypeOK, Node, MAX_LEVEL
    <3>3. [user |-> u, group |-> NoGroup, parent |-> parent, name |-> name,
           level |-> LevelUnder(parent)] \in Node
      BY <3>2 DEF Node
    <3> DEFINE node == [user |-> u, group |-> NoGroup, parent |-> parent, name |-> name,
                        level |-> LevelUnder(parent)]
               s == [Idle EXCEPT !.at = "insert", !.user = u, !.rows = {[id |-> c, node |-> node]}]
    <3>4. GoodSession(s)
      <4>1. node \in Node
        BY <3>3
      <4>2. {[id |-> c, node |-> node]} \in SUBSET [id : Cats, node : Node]
        BY <4>1
      <4> HIDE DEF node
      <4>3. s \in SessionType /\ s.at = "insert" /\ s.user = u
        BY <4>2, IdleGood DEF GoodSession, SessionType, Places
      <4> HIDE DEF s
      <4> QED
        BY <4>3 DEF GoodSession
    <3>5. sess' = [sess EXCEPT ![p] = s] /\ UNCHANGED <<tree, budgetOn>>
      BY <2>1, <3>1 DEF CreateLoad, Begin
    <3> QED
      BY <3>4, <3>5, SetSession
  <2>2. ASSUME NEW c \in Cats, UpdateLoad(p, u, c) PROVE TypeInv'
    <3>1. tree[c] \in Node
      BY <2>2 DEF UpdateLoad
    <3>2. \A parent \in Cats \union {NoCat} :
            MayMove(u, c, parent) => MovedTo(c, parent) \in Node
      <4> SUFFICES ASSUME NEW parent \in Cats \union {NoCat}, MayMove(u, c, parent)
                   PROVE  MovedTo(c, parent) \in Node
        OBVIOUS
      <4>1. LevelUnder(parent) \in 0..MAX_LEVEL
        BY DEF MayMove, OwnParent, LevelUnder, Node, MAX_LEVEL
      <4> QED
        BY <3>1, <4>1 DEF MovedTo, Node
    <3>3. PICK moved \in Node :
            \/ UpdateStart(p, u, c, moved)
            \/ \E name \in Names : UpdateStart(p, u, c, [moved EXCEPT !.name = name])
      BY <2>2, <3>1, <3>2 DEF UpdateLoad
    <3>4. \A name \in Names : [moved EXCEPT !.name = name] \in Node
      BY DEF Node
    <3>5. PICK new \in Node : UpdateStart(p, u, c, new)
      BY <3>3, <3>4
    <3> DEFINE s == [Idle EXCEPT !.at = "update", !.user = u, !.cat = c,
                                 !.snap = tree[c], !.new = new]
    <3>6. GoodSession(s)
      BY <3>1, IdleGood DEF GoodSession, SessionType, Places
    <3>7. sess' = [sess EXCEPT ![p] = s] /\ UNCHANGED <<tree, budgetOn>>
      BY <2>2, <3>5 DEF UpdateLoad, UpdateStart, Begin
    <3> QED
      BY <3>6, <3>7, SetSession
  <2>3. ASSUME NEW c \in Cats, DeleteLoad(p, u, c) PROVE TypeInv'
    <3>1. Cascade({c}) \subseteq Cats
      BY DEF Cascade
    <3> QED
      <4> DEFINE s == [Idle EXCEPT !.at = "delete", !.user = u, !.cat = c, !.doomed = Cascade({c})]
      <4>1. s \in SessionType /\ s.at = "delete" /\ s.user = u
        BY <3>1, IdleGood DEF GoodSession, SessionType, Places
      <4>2. sess' = [sess EXCEPT ![p] = s] /\ UNCHANGED <<tree, budgetOn>>
        BY <2>3 DEF DeleteLoad, Begin
      <4> HIDE DEF s
      <4>3. GoodSession(s)
        BY <4>1 DEF GoodSession
      <4> QED
        BY <4>2, <4>3, SetSession
  <2>4. ASSUME NEW g \in Groups \union {NoGroup}, SeedStart(p, u, g) PROVE TypeInv'
    <3> DEFINE s == [Idle EXCEPT !.at = "seed", !.user = u, !.group = g]
    <3>1. GoodSession(s)
      <4>1. s \in SessionType /\ s.at = "seed" /\ s.user = u /\ s.done = 0
        BY IdleGood DEF GoodSession, SessionType, Places, Idle
      <4>2. PICK n \in 1..3 : n = Len(DefaultPath)
        BY PathLength
      <4> HIDE DEF s
      <4>3. s.done < n
        BY <4>1, <4>2
      <4>4. s.done < Len(DefaultPath)
        BY <4>2, <4>3, Zenon
      <4> QED
        BY <4>1, <4>4, Zenon DEF GoodSession
    <3> QED
      BY <2>4, <3>1, SetSession DEF SeedStart, Begin
  <2>5. ASSUME NEW b \in Budgets, NEW c \in Cats, BudgetLoad(p, u, b, c) PROVE TypeInv'
    <3>1. RootOf(c) \in Cats
      BY DEF RootOf, Up
    <3> QED
      <4> DEFINE s == [Idle EXCEPT !.at = "budget", !.user = u, !.budget = b, !.cat = RootOf(c)]
      <4>1. /\ s \in SessionType /\ s.at = "budget"
            /\ s.cat \in Cats /\ s.budget \in Budgets
        BY <3>1, IdleGood DEF GoodSession, SessionType, Places
      <4>2. sess' = [sess EXCEPT ![p] = s] /\ UNCHANGED <<tree, budgetOn>>
        BY <2>5 DEF BudgetLoad, Begin
      <4> HIDE DEF s
      <4>3. GoodSession(s)
        BY <4>1 DEF GoodSession
      <4> QED
        BY <4>2, <4>3, SetSession
  <2> QED
    BY <1>7, <2>1, <2>2, <2>3, <2>4, <2>5 DEF Request
<1> QED
  BY <1>1, <1>2, <1>3, <1>4, <1>5, <1>6, <1>7 DEF Next, Continue

\* Categories, budgets and the rows that requests are about to insert are well
\* formed in every reachable state: create and update never store a level above
\* MAX_LEVEL, even when they commit over what they did not read.
THEOREM TypeCorrect == Spec => []TypeOK
<1>1. TypeInv => TypeOK
  BY DEF TypeInv
<1> QED
  BY <1>1, TypeInit, TypeStep, PTL DEF Spec

-----------------------------------------------------------------------------
(* Levels are depths while nobody moves a category *)

\* A row about to be inserted with `rows' will be one level below its parent:
\* the parent is among them, or was in the tree when the request looked.
Hangs(rows, n) ==
  \/ n.parent = NoCat /\ n.level = 0
  \/ \E r \in rows : r.id = n.parent /\ n.level = r.node.level + 1
  \/ /\ n.parent \in Cats /\ tree[n.parent] # Unborn
     /\ n.parent \in Live => n.level = tree[n.parent].level + 1

\* The node the seed made or found last is at the level just done.
SeedAt(s) ==
  \/ s.done = 0 /\ s.cat = NoCat
  \/ \E r \in s.rows : r.id = s.cat /\ s.done = r.node.level + 1
  \/ /\ s.cat \in Cats /\ tree[s.cat] # Unborn
     /\ s.cat \in Live => s.done = tree[s.cat].level + 1

RowsInv(s) ==
  /\ \A r \in s.rows : tree[r.id] = Unborn /\ Hangs(s.rows, r.node)
  /\ \A r, t \in s.rows : r.id = t.id => r = t
  /\ s.at = "seed" => SeedAt(s)
SessionInv(s) ==
  /\ RowsInv(s)
  /\ s.at = "update" => s.new.parent = s.snap.parent /\ s.new.level = s.snap.level
  /\ s.at = "budget" => /\ tree[s.cat] # Unborn
                        /\ s.cat \in Live => tree[s.cat].parent = NoCat
RowsApart ==
  \A p, q \in Sessions : p # q =>
    \A r \in sess[p].rows, t \in sess[q].rows : r.id # t.id
DepthInv == /\ LevelIsDepth /\ BudgetOnMain /\ RowsApart
            /\ \A p \in Sessions : SessionInv(sess[p])

\* A cascade takes the children of whatever it takes.
LEMMA CascadeClosed ==
  ASSUME NEW S, NEW d \in Live, tree[d].parent \in Cascade(S)
  PROVE  d \in Cascade(S)
BY DEF Cascade, ChildClosed

\* With levels that are depths, the three hops up end at a main category, and
\* the two levels down from there include where they started.
LEMMA RootAndBack ==
  ASSUME TypeOK, LevelIsDepth, NEW c \in Live
  PROVE  /\ RootOf(c) \in Live /\ tree[RootOf(c)].parent = NoCat
         /\ c \in DescendantIds(RootOf(c))
<1>1. NoCat \notin Live
  BY TreeAssumption DEF Live
<1>2. \A d \in Live : tree[d].level \in 0..2 /\ d \in Cats
  BY DEF Live, Node, MAX_LEVEL
<1>3. \A d \in Live : tree[d].level = 0 => tree[d].parent = NoCat
  BY <1>2 DEF LevelIsDepth
<1>4. \A d \in Live : tree[d].level # 0 =>
         /\ Up(d) \in Live /\ tree[d].parent = Up(d) /\ d \in Children(Up(d))
         /\ tree[Up(d)].level = tree[d].level - 1
  BY <1>2 DEF LevelIsDepth, Up, Children
<1>5. \A d \in Live : tree[d].level = 0 => Up(d) = d
  BY <1>1, <1>3 DEF Up
<1>6. CASE tree[c].level = 0
  <2>1. RootOf(c) = c
    BY <1>5, <1>6 DEF RootOf
  <2> QED
    BY <2>1, <1>3, <1>6 DEF DescendantIds
<1>7. CASE tree[c].level = 1
  <2>1. Up(c) \in Live /\ tree[Up(c)].level = 0 /\ c \in Children(Up(c))
    BY <1>4, <1>7
  <2>2. RootOf(c) = Up(c)
    BY <2>1, <1>5 DEF RootOf
  <2> QED
    BY <2>1, <2>2, <1>3 DEF DescendantIds
<1>8. CASE tree[c].level = 2
  <2>1. Up(c) \in Live /\ tree[Up(c)].level = 1 /\ c \in Children(Up(c))
    BY <1>4, <1>8
  <2>2. Up(Up(c)) \in Live /\ tree[Up(Up(c))].level = 0 /\ Up(c) \in Children(Up(Up(c)))
    BY <1>4, <2>1
  <2>3. RootOf(c) = Up(Up(c))
    BY <2>2, <1>5 DEF RootOf
  <2> QED
    BY <2>1, <2>2, <2>3, <1>3 DEF DescendantIds
<1> QED
  BY <1>2, <1>6, <1>7, <1>8

\* A request that only looks: the tree stays, one session moves on.
LEMMA Looked ==
  ASSUME DepthInv, TypeInv, NEW p \in Sessions, NEW s, SessionInv(s),
         \A q \in Sessions : q # p =>
            \A r \in s.rows, t \in sess[q].rows : r.id # t.id,
         sess' = [sess EXCEPT ![p] = s], UNCHANGED <<tree, budgetOn>>
  PROVE  DepthInv'
<1>1. sess'[p] = s /\ \A q \in Sessions : q # p => sess'[q] = sess[q]
  BY DEF TypeInv, TypeOK
<1>2. LevelIsDepth' /\ BudgetOnMain'
  BY DEF DepthInv, LevelIsDepth, BudgetOnMain, Live
<1>3. RowsApart'
  BY <1>1 DEF DepthInv, RowsApart
<1>4. \A q \in Sessions : SessionInv(sess[q])'
  <2> SUFFICES ASSUME NEW q \in Sessions PROVE SessionInv(sess[q])'
    OBVIOUS
  <2>1. PICK t : t = sess'[q] /\ SessionInv(t)
    BY <1>1 DEF DepthInv
  <2>2. SessionInv(t)'
    BY <2>1 DEF SessionInv, RowsInv, Hangs, SeedAt, Live
  <2> QED
    BY <2>1, <2>2 DEF SessionInv, RowsInv, Hangs, SeedAt, Live
<1> QED
  BY <1>2, <1>3, <1>4 DEF DepthInv

\* A commit takes no category back to before its birth, moves none, and brings
\* up none that another session is about to insert.
Steady(p) ==
  /\ \A c \in Cats : tree[c] # Unborn =>
       /\ tree'[c] # Unborn
       /\ tree'[c] \in Node => /\ tree[c] \in Node
                               /\ tree'[c].parent = tree[c].parent
                               /\ tree'[c].level = tree[c].level
  /\ \A c \in Cats : tree[c] = Unborn /\ tree'[c] # Unborn => c \in IdsOf(p)

\* A commit that is steady and leaves levels depths and budgets on main
\* categories keeps the whole invariant: what the others have read still holds.
LEMMA Committed ==
  ASSUME DepthInv, TypeInv, NEW p \in Sessions, Steady(p), Finish(p),
         LevelIsDepth', BudgetOnMain'
  PROVE  DepthInv'
<1>1. sess'[p] = Idle /\ \A q \in Sessions : q # p => sess'[q] = sess[q]
  BY DEF TypeInv, TypeOK, Finish
<1>2. RowsApart'
  BY <1>1 DEF DepthInv, RowsApart, Idle
<1>3. SessionInv(sess[p])'
  BY <1>1 DEF SessionInv, RowsInv, Idle
<1>4. ASSUME NEW q \in Sessions, q # p PROVE SessionInv(sess[q])'
  <2>1. PICK t : t = sess[q] /\ t = sess'[q] /\ SessionInv(t)
    BY <1>1, <1>4 DEF DepthInv
  <2>10. GoodSession(t)
    BY <2>1 DEF TypeInv, SessionShape
  <2>2. /\ \A r \in t.rows : r.id \in Cats
        /\ t.at = "budget" => t.cat \in Cats
    BY <2>10 DEF GoodSession, SessionType
  <2>8. \A r \in t.rows : r.id \notin IdsOf(p)
    BY <2>1, <1>4 DEF IdsOf, DepthInv, RowsApart
  <2>9. \A r \in t.rows : tree[r.id] = Unborn
    BY <2>1 DEF SessionInv, RowsInv
  <2>3. \A r \in t.rows : tree'[r.id] = Unborn
    BY <2>2, <2>8, <2>9 DEF Steady
  <2>4. \A r \in t.rows : Hangs(t.rows, r.node)'
    BY <2>1 DEF SessionInv, RowsInv, Hangs, Steady, Live
  <2>5. t.at = "seed" => SeedAt(t)'
    BY <2>1 DEF SessionInv, RowsInv, SeedAt, Steady, Live
  <2>6. t.at = "budget" => tree'[t.cat] # Unborn /\ (t.cat \in Live' => tree'[t.cat].parent = NoCat)
    BY <2>1, <2>2 DEF SessionInv, Steady, Live
  <2>7. SessionInv(t)'
    BY <2>1, <2>3, <2>4, <2>5, <2>6 DEF SessionInv, RowsInv
  <2> QED
    BY <2>1, <2>7 DEF SessionInv, RowsInv, Hangs, SeedAt, Live
<1> QED
  BY <1>2, <1>3, <1>4 DEF DepthInv

\* Initially the tree is empty and so is every session.
THEOREM DepthInit == Init => DepthInv
<1> SUFFICES ASSUME Init PROVE DepthInv
  OBVIOUS
<1>1. Live = {}
  BY TreeAssumption DEF Init, Live
<1> QED
  BY <1>1 DEF Init, DepthInv, LevelIsDepth, BudgetOnMain, RowsApart, SessionInv, RowsInv, Idle

\* What an insert commits: all its rows as they were prepared, or nothing.
LEMMA Inserted ==
  ASSUME TypeInv, NEW p \in Sessions, InsertCommit(p),
         \A r, t \in sess[p].rows : r.id = t.id => r = t
  PROVE  /\ Finish(p) /\ budgetOn' = budgetOn
         /\ \/ tree' = tree
            \/ /\ ParentsExist(p)
               /\ \A r \in sess[p].rows : r.id \in Cats /\ r.node \in Node /\ tree'[r.id] = r.node
               /\ \A c \in Cats : c \notin IdsOf(p) => tree'[c] = tree[c]
<1> DEFINE rows == sess[p].rows
<1>0. Finish(p) /\ budgetOn' = budgetOn
  BY DEF InsertCommit
<1>1. CASE ~ParentsExist(p)
  BY <1>0, <1>1 DEF InsertCommit
<1>2. CASE ParentsExist(p)
  <2>1. /\ \A r \in rows : r.id \in Cats /\ r.node \in Node
        /\ \A r, t \in rows : r.id = t.id => r = t
    BY DEF TypeInv, TypeOK
  <2>2. tree' = [c \in Cats |-> IF c \in IdsOf(p)
                   THEN (CHOOSE r \in rows : r.id = c).node ELSE tree[c]]
    BY <1>2 DEF InsertCommit
  <2>3. ASSUME NEW r \in rows PROVE tree'[r.id] = r.node
    <3>1. (CHOOSE t \in rows : t.id = r.id) = r
      BY <2>1
    <3> QED
      BY <2>1, <2>2, <3>1 DEF IdsOf
  <2>4. \A c \in Cats : c \notin IdsOf(p) => tree'[c] = tree[c]
    BY <2>2
  <2> QED
    BY <1>0, <1>2, <2>1, <2>3, <2>4
<1> QED
  BY <1>1, <1>2

\* Rows that hang one level below their parents keep levels depths.
LEMMA InsertLevels ==
  ASSUME TypeInv, LevelIsDepth, NEW p \in Sessions, RowsInv(sess[p]), InsertCommit(p)
  PROVE  /\ LevelIsDepth'
         /\ \A c \in Cats : tree[c] # Unborn => tree'[c] = tree[c]
         /\ \A c \in Cats : tree[c] = Unborn /\ tree'[c] # Unborn => c \in IdsOf(p)
<1> DEFINE rows == sess[p].rows
<1>0. NoCat \notin Live
  BY TreeAssumption DEF Live
<1>1. CASE tree' = tree
  BY <1>1 DEF LevelIsDepth, Live
<1>2. CASE /\ ParentsExist(p)
           /\ \A r \in rows : r.id \in Cats /\ r.node \in Node /\ tree'[r.id] = r.node
           /\ \A c \in Cats : c \notin IdsOf(p) => tree'[c] = tree[c]
    <3>1. \A r \in rows : tree[r.id] = Unborn /\ Hangs(rows, r.node)
      BY DEF RowsInv
    <3>5. \A c \in IdsOf(p) : \E r \in rows : r.id = c
      BY DEF IdsOf
    <3>6. \A c \in IdsOf(p) : c \in Cats /\ tree[c] = Unborn /\ c \notin Live /\ c \in Live'
      BY <1>2, <3>1, <3>5, TreeAssumption DEF Live
    <3>7. \A c \in Live : c \in Live' /\ tree'[c] = tree[c]
      BY <1>2, <3>6 DEF Live
    <3>8. \A c \in Cats : tree[c] # Unborn => tree'[c] = tree[c]
      BY <1>2, <3>6
    <3>9. ASSUME NEW r \in rows
          PROVE  /\ r.node.parent \in Live' \union {NoCat}
                 /\ r.node.level = IF r.node.parent = NoCat THEN 0
                                   ELSE tree'[r.node.parent].level + 1
      <4>1. CASE r.node.parent = NoCat /\ r.node.level = 0
        BY <4>1
      <4>2. CASE \E t \in rows : t.id = r.node.parent /\ r.node.level = t.node.level + 1
        <5>1. PICK t \in rows : t.id = r.node.parent /\ r.node.level = t.node.level + 1
          BY <4>2
        <5> QED
          BY <5>1, <1>2, TreeAssumption DEF Live
      <4>3. CASE /\ r.node.parent \in Cats /\ tree[r.node.parent] # Unborn
                 /\ r.node.parent \in Live => r.node.level = tree[r.node.parent].level + 1
        <5>1. r.node.parent \in Live \union IdsOf(p) \union {NoCat}
          BY <1>2 DEF ParentsExist
        <5>2. r.node.parent \in Live
          BY <5>1, <4>3, <3>6, TreeAssumption
        <5> QED
          BY <5>2, <4>3, <3>7, <1>0
      <4> QED
        BY <3>1, <4>1, <4>2, <4>3 DEF Hangs
    <3>10. ASSUME NEW c \in Live'
           PROVE  /\ tree'[c].parent \in Live' \union {NoCat}
                  /\ tree'[c].level = IF tree'[c].parent = NoCat THEN 0
                                      ELSE tree'[tree'[c].parent].level + 1
      <4>1. CASE c \in IdsOf(p)
        <5>1. PICK r \in rows : r.id = c
          BY <4>1, <3>5
        <5>2. tree'[c] = r.node
          BY <5>1, <1>2
        <5> QED
          BY <5>2, <3>9
      <4>2. CASE c \notin IdsOf(p)
        <5>1. c \in Live
          BY <4>2, <1>2 DEF Live
        <5>2. /\ tree'[c] = tree[c] /\ tree[c].parent \in Live \union {NoCat}
              /\ tree[c].level = IF tree[c].parent = NoCat THEN 0 ELSE tree[tree[c].parent].level + 1
          BY <5>1, <3>7 DEF LevelIsDepth
        <5> QED
          BY <5>2, <3>7, <1>0
      <4> QED
        BY <4>1, <4>2
    <3>11. LevelIsDepth'
      BY <3>10 DEF LevelIsDepth
    <3> QED
      BY <1>2, <3>8, <3>11
<1>3. \A r, t \in rows : r.id = t.id => r = t
  BY DEF RowsInv
<1> QED
  BY <1>1, <1>2, <1>3, Inserted

\* What an update commits: the attributes it changed, or nothing.
LEMMA Updated ==
  ASSUME TypeInv, NEW p \in Sessions, UpdateCommit(p)
  PROVE  /\ Finish(p) /\ budgetOn' = budgetOn
         /\ \/ tree' = tree
            \/ /\ sess[p].cat \in Live /\ tree'[sess[p].cat] \in Node
               /\ sess[p].new.parent # sess[p].snap.parent =>
                    sess[p].new.parent \in Live \union {NoCat}
               /\ tree'[sess[p].cat].user = tree[sess[p].cat].user
               /\ tree'[sess[p].cat].group = tree[sess[p].cat].group
               /\ tree'[sess[p].cat].parent =
                    Net(tree[sess[p].cat].parent, sess[p].snap.parent, sess[p].new.parent)
               /\ tree'[sess[p].cat].name =
                    Net(tree[sess[p].cat].name, sess[p].snap.name, sess[p].new.name)
               /\ tree'[sess[p].cat].level =
                    Net(tree[sess[p].cat].level, sess[p].snap.level, sess[p].new.level)
               /\ \A d \in Cats : d # sess[p].cat => tree'[d] = tree[d]
<1>0. Finish(p) /\ budgetOn' = budgetOn
  BY DEF UpdateCommit
<1> DEFINE c == sess[p].cat   snap == sess[p].snap   new == sess[p].new
           pa == Net(tree[c].parent, snap.parent, new.parent)
           na == Net(tree[c].name, snap.name, new.name)
           le == Net(tree[c].level, snap.level, new.level)
<1>1. \/ tree' = tree
      \/ /\ c \in Live /\ (new.parent # snap.parent => new.parent \in Live \union {NoCat})
         /\ tree' = [tree EXCEPT ![c] = [tree[c] EXCEPT !.parent = pa, !.name = na, !.level = le]]
  BY DEF UpdateCommit
<1>2. snap \in Node /\ new \in Node
  BY DEF UpdateCommit, TypeInv, SessionShape, GoodSession
<1>3. CASE /\ c \in Live /\ (new.parent # snap.parent => new.parent \in Live \union {NoCat})
           /\ tree' = [tree EXCEPT ![c] = [tree[c] EXCEPT !.parent = pa, !.name = na, !.level = le]]
  <2>1. c \in Cats /\ tree[c] \in Node /\ tree \in [Cats -> Node \union {Unborn, Gone}]
    BY <1>3 DEF Live, TypeInv, TypeOK
  <2>2. pa \in Cats \union {NoCat} /\ na \in Names /\ le \in 0..MAX_LEVEL
    BY <1>2, <2>1 DEF Net, Node
  <2> HIDE DEF pa, na, le
  <2>5. [tree[c] EXCEPT !.parent = pa, !.name = na, !.level = le] \in Node
    BY <2>1, <2>2 DEF Node
  <2> HIDE DEF c
  <2>3. /\ tree'[c] \in Node /\ tree'[c].parent = pa /\ tree'[c].name = na /\ tree'[c].level = le
        /\ tree'[c].user = tree[c].user /\ tree'[c].group = tree[c].group
    BY <1>3, <2>1, <2>5 DEF Node
  <2>4. \A d \in Cats : d # c => tree'[d] = tree[d]
    BY <1>3, <2>1
  <2> QED
    BY <1>0, <1>3, <2>3, <2>4 DEF pa, na, le, c
<1> QED
  BY <1>0, <1>1, <1>3

\* What a delete commits: the rows its cascade reaches go, the others stay.
LEMMA Deleted ==
  ASSUME TypeInv, NEW p \in Sessions, DeleteCommit(p)
  PROVE  /\ Finish(p)
         /\ \A c \in Cats : IF c \in Removed(p) THEN c \in Live /\ tree'[c] = Gone
                            ELSE tree'[c] = tree[c]
         /\ LevelIsDepth => LevelIsDepth'
<1>1. /\ tree' = [c \in Cats |-> IF c \in Removed(p) THEN Gone ELSE tree[c]]
      /\ Finish(p)
  BY DEF DeleteCommit
<1>2. \A c \in Cats : c \in Live' => c \in Live /\ c \notin Removed(p) /\ tree'[c] = tree[c]
  BY <1>1, TreeAssumption DEF Live
<1>3. \A c \in Live : c \notin Removed(p) => c \in Live' /\ tree'[c] = tree[c]
  BY <1>1 DEF Live
<1>4. \A c \in Live : tree[c].parent \in Removed(p) => c \in Removed(p)
  BY CascadeClosed DEF Removed
<1>5. ASSUME LevelIsDepth PROVE LevelIsDepth'
  <2> SUFFICES ASSUME NEW c \in Live'
               PROVE  /\ tree'[c].parent \in Live' \union {NoCat}
                      /\ tree'[c].level = IF tree'[c].parent = NoCat THEN 0
                                          ELSE tree'[tree'[c].parent].level + 1
    BY DEF LevelIsDepth
  <2>1. c \in Live /\ c \notin Removed(p) /\ tree'[c] = tree[c]
    BY <1>2 DEF Live
  <2>2. /\ tree[c].parent \in Live \union {NoCat}
        /\ tree[c].level = IF tree[c].parent = NoCat THEN 0 ELSE tree[tree[c].parent].level + 1
    BY <2>1, <1>5 DEF LevelIsDepth
  <2> QED
    BY <2>1, <2>2, <1>3, <1>4
<1>6. Removed(p) \subseteq Live
  BY DEF Removed, Cascade
<1>7. \A c \in Cats : IF c \in Removed(p) THEN c \in Live /\ tree'[c] = Gone
                     ELSE tree'[c] = tree[c]
  BY <1>1, <1>6
<1> QED
  BY <1>1, <1>5, <1>7

\* A create prepares one row, of its own user's, under a parent of that user's.
LEMMA Created ==
  ASSUME TypeInv, NEW p \in Sessions, NEW u \in Users, NEW parent \in Cats \union {NoCat},
         NEW name \in Names, CreateLoad(p, u, parent, name)
  PROVE  /\ sess' = [sess EXCEPT ![p] = sess'[p]] /\ UNCHANGED <<tree, budgetOn>>
         /\ sess[p].at = "idle" /\ sess'[p].at = "insert"
         /\ sess'[p].user = u /\ sess'[p].group = NoGroup
         /\ \E c \in Fresh : sess'[p].rows =
              {[id |-> c, node |-> [user |-> u, group |-> NoGroup, parent |-> parent,
                                    name |-> name, level |-> LevelUnder(parent)]]}
<1> DEFINE node == [user |-> u, group |-> NoGroup, parent |-> parent, name |-> name,
                    level |-> LevelUnder(parent)]
<1>1. PICK c \in Fresh :
        sess' = [sess EXCEPT ![p] = [Idle EXCEPT !.at = "insert", !.user = u,
                                       !.rows = {[id |-> c, node |-> node]}]]
  BY DEF CreateLoad, Begin
<1>2. sess[p].at = "idle" /\ UNCHANGED <<tree, budgetOn>>
  BY DEF CreateLoad, Begin
<1> DEFINE new == [Idle EXCEPT !.at = "insert", !.user = u, !.rows = {[id |-> c, node |-> node]}]
<1>3. /\ new.at = "insert" /\ new.user = u /\ new.group = NoGroup
      /\ new.rows = {[id |-> c, node |-> node]}
  BY DEF Idle
<1>4. sess' = [sess EXCEPT ![p] = new]
  BY <1>1
<1> HIDE DEF new, node
<1>5. sess'[p] = new
  BY <1>4 DEF TypeInv, TypeOK
<1> QED
  BY <1>2, <1>3, <1>4, <1>5 DEF node

\* A step of the seed: a node found in the scope, or one more row prepared.
LEMMA Seeded ==
  ASSUME TypeInv, NEW p \in Sessions, SeedNode(p)
  PROVE  /\ sess' = [sess EXCEPT ![p] = sess'[p]] /\ UNCHANGED <<tree, budgetOn>>
         /\ sess[p].at = "seed" /\ sess'[p].at \in {"insert", "seed"}
         /\ sess'[p].user = sess[p].user /\ sess'[p].group = sess[p].group
         /\ sess[p].done \in Nat /\ sess'[p].done = sess[p].done + 1
         /\ \/ /\ sess'[p].cat \in Found(p, DefaultPath[sess[p].done + 1])
               /\ sess'[p].rows = sess[p].rows
            \/ /\ Found(p, DefaultPath[sess[p].done + 1]) = {}
               /\ sess'[p].cat \in Fresh
               /\ sess'[p].rows = sess[p].rows \union
                    {[id |-> sess'[p].cat, node |->
                       [user |-> sess[p].user, group |-> sess[p].group, parent |-> sess[p].cat,
                        name |-> DefaultPath[sess[p].done + 1], level |-> sess[p].done]]}
<1> DEFINE k    == sess[p].done
           name == DefaultPath[k + 1]
           to   == IF k + 1 = Len(DefaultPath) THEN "insert" ELSE "seed"
           rows == sess[p].rows
           row(c) == [id |-> c, node |-> [user |-> sess[p].user, group |-> sess[p].group,
                        parent |-> sess[p].cat, name |-> name, level |-> k]]
<1>1. sess[p] \in SessionType
  BY DEF TypeInv, SessionShape, GoodSession
<1>2. k \in Nat /\ (k + 1) - 1 = k
  <2>1. k \in Nat
    BY <1>1 DEF SessionType
  <2>2. \A n \in Nat : (n + 1) - 1 = n
    OBVIOUS
  <2> QED
    BY <2>1, <2>2
<1>3. /\ sess[p].at = "seed" /\ UNCHANGED <<tree, budgetOn>>
      /\ \/ \E c \in Found(p, name) :
              sess' = [sess EXCEPT ![p].at = to, ![p].done = k + 1, ![p].cat = c]
         \/ /\ Found(p, name) = {}
            /\ \E c \in Fresh : sess' = [sess EXCEPT ![p].at = to, ![p].done = k + 1, ![p].cat = c,
                                                   ![p].rows = @ \union {row(c)}]
  BY <1>2 DEF SeedNode
<1>4. to \in {"insert", "seed"}
  OBVIOUS
<1>5. ASSUME NEW c \in Found(p, name),
             sess' = [sess EXCEPT ![p].at = to, ![p].done = k + 1, ![p].cat = c]
      PROVE  /\ sess' = [sess EXCEPT ![p] = sess'[p]]
             /\ sess'[p].at = to /\ sess'[p].done = k + 1 /\ sess'[p].cat = c
             /\ sess'[p].user = sess[p].user /\ sess'[p].group = sess[p].group
             /\ sess'[p].rows = rows
  <2> DEFINE new == [sess[p] EXCEPT !.at = to, !.done = k + 1, !.cat = c]
  <2>1. /\ new.at = to /\ new.done = k + 1 /\ new.cat = c /\ new.rows = rows
        /\ new.user = sess[p].user /\ new.group = sess[p].group
    BY <1>1 DEF SessionType
  <2>2. sess' = [sess EXCEPT ![p] = new]
    BY <1>5
  <2> HIDE DEF new
  <2>3. sess'[p] = new
    BY <2>2 DEF TypeInv, TypeOK
  <2> QED
    BY <2>1, <2>2, <2>3
<1>6. ASSUME NEW c \in Fresh,
             sess' = [sess EXCEPT ![p].at = to, ![p].done = k + 1, ![p].cat = c,
                                  ![p].rows = @ \union {row(c)}]
      PROVE  /\ sess' = [sess EXCEPT ![p] = sess'[p]]
             /\ sess'[p].at = to /\ sess'[p].done = k + 1 /\ sess'[p].cat = c
             /\ sess'[p].user = sess[p].user /\ sess'[p].group = sess[p].group
             /\ sess'[p].rows = rows \union {row(sess'[p].cat)}
  <2> DEFINE new == [sess[p] EXCEPT !.at = to, !.done = k + 1, !.cat = c,
                                    !.rows = @ \union {row(c)}]
  <2>2. sess' = [sess EXCEPT ![p] = new]
    BY <1>6
  <2> HIDE DEF row
  <2>1. /\ new.at = to /\ new.done = k + 1 /\ new.cat = c /\ new.rows = rows \union {row(c)}
        /\ new.user = sess[p].user /\ new.group = sess[p].group
    BY <1>1 DEF SessionType
  <2> HIDE DEF new
  <2>3. sess'[p] = new
    BY <2>2 DEF TypeInv, TypeOK
  <2> QED
    BY <2>1, <2>2, <2>3
<1>7. CASE \E c \in Found(p, name) :
             sess' = [sess EXCEPT ![p].at = to, ![p].done = k + 1, ![p].cat = c]
  <2>1. PICK c \in Found(p, name) :
             sess' = [sess EXCEPT ![p].at = to, ![p].done = k + 1, ![p].cat = c]
    BY <1>7
  <2> HIDE DEF to, row
  <2> QED
    BY <1>2, <1>3, <1>4, <1>5, <2>1
<1>8. CASE /\ Found(p, name) = {}
           /\ \E c \in Fresh : sess' = [sess EXCEPT ![p].at = to, ![p].done = k + 1, ![p].cat = c,
                                                  ![p].rows = @ \union {row(c)}]
  <2>1. PICK c \in Fresh : sess' = [sess EXCEPT ![p].at = to, ![p].done = k + 1, ![p].cat = c,
                                               ![p].rows = @ \union {row(c)}]
    BY <1>8
  <2>2. sess'[p].cat = c /\ sess'[p].rows = rows \union {row(sess'[p].cat)}
        /\ sess' = [sess EXCEPT ![p] = sess'[p]]
        /\ sess'[p].at = to /\ sess'[p].done = k + 1
        /\ sess'[p].user = sess[p].user /\ sess'[p].group = sess[p].group
    BY <1>6, <2>1
  <2>3. /\ sess[p].at = "seed" /\ UNCHANGED <<tree, budgetOn>> /\ k \in Nat
        /\ to \in {"insert", "seed"} /\ Found(p, name) = {}
    BY <1>2, <1>3, <1>4, <1>8
  <2>4. /\ sess'[p].cat \in Fresh /\ sess'[p].at \in {"insert", "seed"}
    BY <2>2, <2>3
  <2> HIDE DEF to
  <2> QED
    BY ONLY <2>2, <2>3, <2>4
<1> QED
  BY <1>3, <1>7, <1>8

\* A create's row hangs below its parent.
LEMMA CreateRows ==
  ASSUME TypeInv, NEW p \in Sessions, NEW u \in Users, NEW parent \in Cats \union {NoCat},
         NEW name \in Names, CreateLoad(p, u, parent, name)
  PROVE  RowsInv(sess'[p]) /\ \A r \in sess'[p].rows : r.id \in Fresh
<1>1. PICK c \in Fresh : sess'[p].rows =
              {[id |-> c, node |-> [user |-> u, group |-> NoGroup, parent |-> parent,
                                    name |-> name, level |-> LevelUnder(parent)]]}
  BY Created
<1>2. sess'[p].at = "insert"
  BY Created
<1>3. PICK s : s = sess'[p]
  OBVIOUS
<1>4. \A r \in s.rows : r.id = c /\ r.node.parent = parent /\ r.node.level = LevelUnder(parent)
  BY <1>1, <1>3
<1>5. \A r, t \in s.rows : r = t
  BY <1>1, <1>3
<1>6. OwnParent(u, parent) /\ tree[c] = Unborn
  BY DEF CreateLoad, Fresh
<1>7. \A r \in s.rows : Hangs(s.rows, r.node)
  <2> SUFFICES ASSUME NEW r \in s.rows PROVE Hangs(s.rows, r.node)
    OBVIOUS
  <2>1. r.node.parent = parent /\ r.node.level = LevelUnder(parent)
    BY <1>4
  <2>2. CASE parent = NoCat
    BY <2>1, <2>2 DEF Hangs, LevelUnder
  <2>3. CASE parent # NoCat
    BY <2>1, <2>3, <1>6, TreeAssumption DEF Hangs, LevelUnder, OwnParent, Live
  <2> QED
    BY <2>2, <2>3
<1> QED
  BY <1>2, <1>3, <1>4, <1>5, <1>6, <1>7 DEF RowsInv

\* The seed keeps its rows hanging one below the other, found or new.
LEMMA SeedRows ==
  ASSUME TypeInv, LevelIsDepth, NEW p \in Sessions, RowsInv(sess[p]), SeedNode(p)
  PROVE  /\ RowsInv(sess'[p])
         /\ \A r \in sess'[p].rows : r \in sess[p].rows \/ r.id \in Fresh
<1>1. PICK old, new : old = sess[p] /\ new = sess'[p]
  OBVIOUS
<1>2. /\ old.at = "seed" /\ new.at \in {"insert", "seed"} /\ old.done \in Nat
      /\ new.done = old.done + 1
  BY <1>1, Seeded
<1>3. /\ \A r \in old.rows : tree[r.id] = Unborn /\ Hangs(old.rows, r.node)
      /\ \A r, t \in old.rows : r.id = t.id => r = t
      /\ SeedAt(old)
  BY <1>1, <1>2 DEF RowsInv
<1>4. old \in SessionType
  BY <1>1 DEF TypeInv, SessionShape, GoodSession
<1>5. CASE new.cat \in Found(p, DefaultPath[old.done + 1]) /\ new.rows = old.rows
  <2>1. new.cat \in Live /\ tree[new.cat].parent = old.cat /\ new.cat \in Cats /\ tree[new.cat] # Unborn
    BY <1>1, <1>5, TreeAssumption DEF Found, Live
  <2>2. /\ tree[new.cat].parent \in Live \union {NoCat}
        /\ tree[new.cat].level = IF tree[new.cat].parent = NoCat THEN 0
                                 ELSE tree[tree[new.cat].parent].level + 1
    BY <2>1 DEF LevelIsDepth
  <2>3. old.done = tree[new.cat].level
    <3>1. CASE old.done = 0 /\ old.cat = NoCat
      BY <3>1, <2>1, <2>2
    <3>2. CASE \E r \in old.rows : r.id = old.cat /\ old.done = r.node.level + 1
      <4>1. PICK r \in old.rows : r.id = old.cat
        BY <3>2
      <4>2. r.id \notin Live /\ r.id \in Cats
        BY <1>3, <1>4, TreeAssumption DEF Live, SessionType
      <4> QED
        BY <4>1, <4>2, <2>1, <2>2, TreeAssumption
    <3>3. CASE /\ old.cat \in Cats /\ tree[old.cat] # Unborn
               /\ old.cat \in Live => old.done = tree[old.cat].level + 1
      BY <3>3, <2>1, <2>2, TreeAssumption
    <3> QED
      BY <1>3, <3>1, <3>2, <3>3 DEF SeedAt
  <2>4. SeedAt(new)
    BY <1>2, <2>1, <2>3 DEF SeedAt
  <2> QED
    BY <1>1, <1>3, <1>5, <2>4 DEF RowsInv
<1>6. CASE /\ new.cat \in Fresh
           /\ new.rows = old.rows \union
                {[id |-> new.cat, node |->
                   [user |-> old.user, group |-> old.group, parent |-> old.cat,
                    name |-> DefaultPath[old.done + 1], level |-> old.done]]}
  <2> DEFINE row == [id |-> new.cat, node |->
                      [user |-> old.user, group |-> old.group, parent |-> old.cat,
                       name |-> DefaultPath[old.done + 1], level |-> old.done]]
  <2>1. /\ new.rows = old.rows \union {row} /\ row.id = new.cat
        /\ row.node.level = old.done /\ row.node.parent = old.cat
    BY <1>6
  <2> HIDE DEF row
  <2>2. tree[new.cat] = Unborn /\ \A r \in old.rows : r.id # new.cat
    BY <1>1, <1>6 DEF Fresh, IdsOf
  <2>3. SeedAt(new)
    BY <1>2, <2>1 DEF SeedAt
  <2>4. Hangs(new.rows, row.node)
    BY <1>3, <2>1 DEF SeedAt, Hangs
  <2>5. \A r \in old.rows : Hangs(new.rows, r.node)
    BY <1>3, <2>1 DEF Hangs
  <2>6. /\ \A r \in new.rows : tree[r.id] = Unborn /\ Hangs(new.rows, r.node)
        /\ \A r, t \in new.rows : r.id = t.id => r = t
    BY <1>3, <2>1, <2>2, <2>4, <2>5
  <2>7. \A r \in new.rows : r \in old.rows \/ r.id \in Fresh
    BY <1>6, <2>1
  <2> QED
    BY <1>1, <2>3, <2>6, <2>7 DEF RowsInv
<1> QED
  BY <1>1, <1>5, <1>6, Seeded

\* The requests that read the tree now plan to move nothing.
Undragged ==
  \A p \in Sessions, u \in Users, c \in Cats :
    UpdateLoad(p, u, c) => sess'[p].new.parent = sess'[p].snap.parent

\* What an update reads and plans: the row, and the row it is to become.
LEMMA UpdateRead ==
  ASSUME TypeInv, NEW p \in Sessions, NEW u \in Users, NEW c \in Cats, UpdateLoad(p, u, c)
  PROVE  /\ sess' = [sess EXCEPT ![p] = sess'[p]] /\ UNCHANGED <<tree, budgetOn>>
         /\ sess[p].at = "idle" /\ sess'[p].at = "update" /\ sess'[p].rows = {}
         /\ c \in Live /\ tree[c].user = u /\ sess'[p].user = u /\ sess'[p].cat = c
         /\ sess'[p].group = NoGroup /\ sess'[p].snap = tree[c]
         /\ \/ /\ sess'[p].new.parent = tree[c].parent /\ sess'[p].new.level = tree[c].level
            \/ /\ MayMove(u, c, sess'[p].new.parent)
               /\ sess'[p].new.level = LevelUnder(sess'[p].new.parent)
         /\ \/ sess'[p].new.name = tree[c].name
            \/ SiblingNamed(u, sess'[p].new.parent, sess'[p].new.name) \ {c} = {}
<1>1. c \in Live /\ tree[c] \in Node /\ tree[c].user = u /\ UNCHANGED <<tree, budgetOn>>
  BY DEF UpdateLoad, Live
<1>2. PICK moved :
        /\ moved = tree[c] \/ \E x \in Cats \union {NoCat} : MayMove(u, c, x) /\ moved = MovedTo(c, x)
        /\ \/ UpdateStart(p, u, c, moved)
           \/ \E name \in Names : /\ SiblingNamed(u, moved.parent, name) \ {c} = {}
                                  /\ UpdateStart(p, u, c, [moved EXCEPT !.name = name])
  BY DEF UpdateLoad
<1>3. /\ DOMAIN moved = DOMAIN tree[c] /\ moved.name = tree[c].name
      /\ \/ moved.parent = tree[c].parent /\ moved.level = tree[c].level
         \/ MayMove(u, c, moved.parent) /\ moved.level = LevelUnder(moved.parent)
  BY <1>1, <1>2 DEF MovedTo, Node
<1>4. \A name \in Names : LET n == [moved EXCEPT !.name = name] IN
         n.name = name /\ n.parent = moved.parent /\ n.level = moved.level
  BY <1>1, <1>3 DEF Node
<1>5. PICK new :
        /\ UpdateStart(p, u, c, new)
        /\ new.parent = moved.parent /\ new.level = moved.level
        /\ new.name = tree[c].name \/ SiblingNamed(u, new.parent, new.name) \ {c} = {}
  BY <1>2, <1>3, <1>4
<1> DEFINE s == [Idle EXCEPT !.at = "update", !.user = u, !.cat = c, !.snap = tree[c], !.new = new]
<1>6. /\ s.at = "update" /\ s.user = u /\ s.cat = c /\ s.snap = tree[c] /\ s.new = new
      /\ s.rows = {} /\ s.group = NoGroup
  BY DEF Idle
<1>7. sess[p].at = "idle" /\ sess' = [sess EXCEPT ![p] = s]
  BY <1>5 DEF UpdateStart, Begin
<1> HIDE DEF s
<1>8. sess'[p] = s
  BY <1>7 DEF TypeInv, TypeOK
<1> QED
  BY <1>1, <1>3, <1>5, <1>6, <1>7, <1>8

\* Every step keeps levels depths, while clients move no category.
THEOREM DepthStep ==
  ASSUME TypeInv, DepthInv, [Next]_vars, Undragged
  PROVE  DepthInv'
<1>0. TypeOK /\ LevelIsDepth /\ NoCat \notin Live
  BY TreeAssumption DEF TypeInv, DepthInv, Live
<1>1. CASE UNCHANGED vars
  BY <1>1 DEF vars, DepthInv, LevelIsDepth, BudgetOnMain, RowsApart, SessionInv, RowsInv, Hangs, SeedAt, Live
<1>2. ASSUME NEW p \in Sessions, InsertCommit(p) PROVE DepthInv'
  <2>1. RowsInv(sess[p])
    BY DEF DepthInv, SessionInv
  <2>2. /\ LevelIsDepth'
        /\ \A c \in Cats : tree[c] # Unborn => tree'[c] = tree[c]
        /\ \A c \in Cats : tree[c] = Unborn /\ tree'[c] # Unborn => c \in IdsOf(p)
    BY <1>0, <1>2, <2>1, InsertLevels
  <2>3. Steady(p)
    BY <2>2, TreeAssumption DEF Steady
  <2>4. \A c \in Live : c \in Live' /\ tree'[c] = tree[c]
    BY <2>2, TreeAssumption DEF Live
  <2>5. Finish(p) /\ budgetOn' = budgetOn
    BY <1>2 DEF InsertCommit
  <2>6. BudgetOnMain'
    BY <2>4, <2>5 DEF DepthInv, BudgetOnMain
  <2> QED
    BY <2>2, <2>3, <2>5, <2>6, Committed
<1>3. ASSUME NEW p \in Sessions, UpdateCommit(p) PROVE DepthInv'
  <2>1. /\ sess[p].new.parent = sess[p].snap.parent /\ sess[p].new.level = sess[p].snap.level
    BY <1>3 DEF UpdateCommit, DepthInv, SessionInv
  <2>2. /\ Finish(p) /\ budgetOn' = budgetOn
        /\ \A d \in Cats : \/ tree'[d] = tree[d]
                          \/ /\ d \in Live /\ tree'[d] \in Node
                             /\ tree'[d].parent = tree[d].parent /\ tree'[d].level = tree[d].level
    BY <1>3, <2>1, Updated DEF Net
  <2>7. Live' = Live
    BY <2>2 DEF Live
  <2>3. \A d \in Live : tree'[d].parent = tree[d].parent /\ tree'[d].level = tree[d].level
    BY <2>2 DEF Live
  <2>8. LevelIsDepth'
    BY <2>3, <2>7, <1>0 DEF LevelIsDepth
  <2>10. BudgetOnMain'
    BY <2>2, <2>3, <2>7 DEF DepthInv, BudgetOnMain
  <2>11. Steady(p)
    BY <2>2, TreeAssumption DEF Steady, Live
  <2> QED
    BY <2>2, <2>8, <2>10, <2>11, Committed
<1>4. ASSUME NEW p \in Sessions, DeleteCommit(p) PROVE DepthInv'
  <2>1. /\ \A c \in Cats : IF c \in Removed(p) THEN c \in Live /\ tree'[c] = Gone
                           ELSE tree'[c] = tree[c]
        /\ Finish(p) /\ LevelIsDepth'
    BY <1>0, <1>4, Deleted
  <2>2. budgetOn' = [b \in Budgets |-> IF budgetOn[b] \in Removed(p) THEN NoCat ELSE budgetOn[b]]
    BY <1>4 DEF DeleteCommit
  <2>3. \A c \in Live : c \notin Removed(p) => c \in Live' /\ tree'[c] = tree[c]
    BY <2>1 DEF Live
  <2>7. BudgetOnMain'
    BY <2>2, <2>3 DEF DepthInv, BudgetOnMain
  <2>8. Steady(p)
    BY <2>1, TreeAssumption DEF Steady, Live
  <2> QED
    BY <2>1, <2>7, <2>8, Committed
<1>5. ASSUME NEW p \in Sessions, BudgetCommit(p) PROVE DepthInv'
  <2>1. /\ sess[p].at = "budget" /\ tree' = tree /\ Finish(p)
        /\ budgetOn' = IF sess[p].cat \in Live
                       THEN [budgetOn EXCEPT ![sess[p].budget] = sess[p].cat] ELSE budgetOn
    BY <1>5 DEF BudgetCommit
  <2>2. sess[p].cat \in Live => tree[sess[p].cat].parent = NoCat
    BY <2>1 DEF DepthInv, SessionInv
  <2>3. Live' = Live
    BY <2>1 DEF Live
  <2>4. LevelIsDepth' /\ Steady(p)
    BY <2>1, <2>3, <1>0 DEF LevelIsDepth, Steady, Live
  <2>5. BudgetOnMain'
    BY <2>1, <2>2, <2>3 DEF DepthInv, BudgetOnMain, TypeInv, TypeOK
  <2> QED
    BY <2>1, <2>4, <2>5, Committed
<1>6. ASSUME NEW p \in Sessions, SeedNode(p) PROVE DepthInv'
  <2>1. RowsInv(sess[p])
    BY DEF DepthInv, SessionInv
  <2>2. PICK s : s = sess'[p] /\ sess' = [sess EXCEPT ![p] = s]
    BY <1>6, Seeded
  <2>3. UNCHANGED <<tree, budgetOn>> /\ s.at \in {"insert", "seed"}
    BY <1>6, <2>2, Seeded
  <2>4. RowsInv(s) /\ \A r \in s.rows : r \in sess[p].rows \/ r.id \in Fresh
    BY <1>0, <1>6, <2>1, <2>2, SeedRows
  <2>5. SessionInv(s)
    BY <2>3, <2>4 DEF SessionInv
  <2>6. \A q \in Sessions : q # p => \A r \in s.rows, t \in sess[q].rows : r.id # t.id
    BY <2>4 DEF DepthInv, RowsApart, Fresh, IdsOf
  <2> QED
    BY <2>2, <2>3, <2>5, <2>6, Looked
<1>7. ASSUME NEW p \in Sessions, NEW u \in Users, Request(p, u) PROVE DepthInv'
  <2>1. ASSUME NEW parent \in Cats \union {NoCat}, NEW nm \in Names, CreateLoad(p, u, parent, nm)
        PROVE  DepthInv'
    <3>1. PICK s : s = sess'[p] /\ sess' = [sess EXCEPT ![p] = s]
      BY <2>1, Created
    <3>2. UNCHANGED <<tree, budgetOn>> /\ s.at = "insert"
      BY <2>1, <3>1, Created
    <3>3. RowsInv(s) /\ \A r \in s.rows : r.id \in Fresh
      BY <2>1, <3>1, CreateRows
    <3>4. SessionInv(s)
      BY <3>2, <3>3 DEF SessionInv
    <3>5. \A q \in Sessions : q # p => \A r \in s.rows, t \in sess[q].rows : r.id # t.id
      BY <3>3 DEF Fresh, IdsOf
    <3> QED
      BY <3>1, <3>2, <3>4, <3>5, Looked
  <2>2. ASSUME NEW c \in Cats, UpdateLoad(p, u, c) PROVE DepthInv'
    <3>1. PICK s : s = sess'[p] /\ sess' = [sess EXCEPT ![p] = s]
      BY <2>2, UpdateRead
    <3>2. /\ UNCHANGED <<tree, budgetOn>> /\ s.at = "update" /\ s.rows = {} /\ c \in Live
          /\ s.snap = tree[c] /\ s.new.parent = tree[c].parent
          /\ s.new.level = tree[c].level \/ s.new.level = LevelUnder(s.new.parent)
      BY <2>2, <3>1, UpdateRead DEF Undragged
    <3>3. LevelUnder(tree[c].parent) = tree[c].level
      BY <3>2, <1>0 DEF LevelIsDepth, LevelUnder
    <3>4. SessionInv(s)
      BY <3>2, <3>3 DEF SessionInv, RowsInv
    <3> QED
      BY <3>1, <3>2, <3>4, Looked
  <2>3. ASSUME NEW c \in Cats, DeleteLoad(p, u, c) PROVE DepthInv'
    <3> DEFINE new == [Idle EXCEPT !.at = "delete", !.user = u, !.cat = c, !.doomed = Cascade({c})]
    <3>1. new.at = "delete" /\ new.rows = {}
      BY DEF Idle
    <3>3. sess' = [sess EXCEPT ![p] = new] /\ UNCHANGED <<tree, budgetOn>>
      BY <2>3 DEF DeleteLoad, Begin
    <3> HIDE DEF new
    <3>2. SessionInv(new)
      BY <3>1 DEF SessionInv, RowsInv
    <3> QED
      BY <3>1, <3>2, <3>3, Looked
  <2>4. ASSUME NEW g \in Groups \union {NoGroup}, SeedStart(p, u, g) PROVE DepthInv'
    <3> DEFINE new == [Idle EXCEPT !.at = "seed", !.user = u, !.group = g]
    <3>1. new.at = "seed" /\ new.rows = {} /\ new.done = 0 /\ new.cat = NoCat
      BY DEF Idle
    <3>3. sess' = [sess EXCEPT ![p] = new] /\ UNCHANGED <<tree, budgetOn>>
      BY <2>4 DEF SeedStart, Begin
    <3> HIDE DEF new
    <3>2. SessionInv(new)
      BY <3>1 DEF SessionInv, RowsInv, SeedAt
    <3> QED
      BY <3>1, <3>2, <3>3, Looked
  <2>5. ASSUME NEW b \in Budgets, NEW c \in Cats, BudgetLoad(p, u, b, c) PROVE DepthInv'
    <3> DEFINE new == [Idle EXCEPT !.at = "budget", !.user = u, !.budget = b, !.cat = RootOf(c)]
    <3>1. new.at = "budget" /\ new.rows = {} /\ new.cat = RootOf(c)
      BY DEF Idle
    <3>5. sess' = [sess EXCEPT ![p] = new] /\ UNCHANGED <<tree, budgetOn>>
      BY <2>5 DEF BudgetLoad, Begin
    <3> HIDE DEF new
    <3>2. RootOf(c) \in Live /\ tree[RootOf(c)].parent = NoCat
      BY <2>5, <1>0, RootAndBack DEF BudgetLoad
    <3>3. tree[RootOf(c)] # Unborn
      BY <3>2, TreeAssumption DEF Live
    <3>4. SessionInv(new)
      BY <3>1, <3>2, <3>3 DEF SessionInv, RowsInv
    <3> QED
      BY <3>1, <3>4, <3>5, Looked
  <2> QED
    BY <1>7, <2>1, <2>2, <2>3, <2>4, <2>5 DEF Request
<1> QED
  BY <1>1, <1>2, <1>3, <1>4, <1>5, <1>6, <1>7 DEF Next, Continue

\* Where no client moves a category, no request plans to.
LEMMA NobodyDrags ==
  ASSUME Moves = {}, TypeInv
  PROVE  Undragged
BY UpdateRead DEF Undragged, MayMove

\* While no client moves a category, the level column is the depth: at most
\* three levels, no cycle, whatever is created, renamed, seeded and deleted at
\* the same time.
THEOREM LevelsAreDepths ==
  ASSUME Moves = {}
  PROVE  Spec => []LevelIsDepth
<1>1. TypeInv /\ DepthInv /\ [Next]_vars => DepthInv'
  BY DepthStep, NobodyDrags
<1>2. DepthInv => LevelIsDepth
  BY DEF DepthInv
<1> QED
  BY <1>1, <1>2, TypeInit, TypeStep, DepthInit, PTL DEF Spec

\* While no client moves a category, every category is among the descendants of
\* the main category it resolves to: what is spent on it counts there.
THEOREM SpendingRollsUp ==
  ASSUME Moves = {}
  PROVE  Spec => []RollsUp
<1>1. TypeInv /\ DepthInv /\ [Next]_vars => DepthInv'
  BY DepthStep, NobodyDrags
<1>2. TypeInv /\ DepthInv => RollsUp
  BY RootAndBack DEF TypeInv, DepthInv, RollsUp
<1> QED
  BY <1>1, <1>2, TypeInit, TypeStep, DepthInit, PTL DEF Spec

\* While no client moves a category, budgets are on main categories, although
\* the category asked for may be deleted before the budget is committed.
THEOREM BudgetsStayOnMain ==
  ASSUME Moves = {}
  PROVE  Spec => []BudgetOnMain
<1>1. TypeInv /\ DepthInv /\ [Next]_vars => DepthInv'
  BY DepthStep, NobodyDrags
<1>2. DepthInv => BudgetOnMain
  BY DEF DepthInv
<1> QED
  BY <1>1, <1>2, TypeInit, TypeStep, DepthInit, PTL DEF Spec

-----------------------------------------------------------------------------
(* Under the three habits *)

HabitNext == Next /\ UNCHANGED habit /\ \A p \in Sessions : Within(p)

-----------------------------------------------------------------------------
(* Kinship: who owns a category, and who owns what hangs below it *)

\* The category c, named by a session, is none, is one of the rows the session
\* is about to insert, or was born once and, while it lives, is its user's.
Kin(s, c) ==
  \/ c = NoCat
  \/ \E r \in s.rows : r.id = c
  \/ c \in Cats /\ tree[c] # Unborn /\ (c \in Live => tree[c].user = s.user)

KinAt(s) ==
  /\ \A r \in s.rows : /\ r.node.user = s.user /\ r.node.group = s.group
                       /\ Kin(s, r.node.parent)
  /\ s.at = "seed" => Kin(s, s.cat)
  /\ s.at = "update" => s.rows = {} /\ Kin(s, s.cat) /\ Kin(s, s.new.parent)
  /\ s.at = "delete" => s.rows = {} /\ \A d \in s.doomed : Kin(s, d)
NewRows(s) ==
  /\ \A r \in s.rows : r.id \in Cats /\ tree[r.id] = Unborn
  /\ \A r, t \in s.rows : r.id = t.id => r = t
TreeKin ==
  \A c \in Live : \/ tree[c].parent = NoCat
                  \/ /\ tree[c].parent \in Cats /\ tree[tree[c].parent] # Unborn
                     /\ tree[c].parent \in Live => tree[tree[c].parent].user = tree[c].user
KinInv == TreeKin /\ RowsApart /\ \A p \in Sessions : NewRows(sess[p]) /\ KinAt(sess[p])

\* A commit ends no identity: what was born stays born, and while it lives it
\* keeps its user and its group; only the rows of the commit are born.
Lasting(p) ==
  \A c \in Cats :
    /\ tree[c] # Unborn =>
         /\ tree'[c] # Unborn
         /\ tree'[c] \in Node => /\ tree[c] \in Node /\ tree'[c].user = tree[c].user
                                 /\ tree'[c].group = tree[c].group
    /\ tree[c] = Unborn /\ tree'[c] # Unborn => c \in IdsOf(p)

\* A request that only looks keeps kinship, if it names its own user's rows.
LEMMA KinLooked ==
  ASSUME TypeInv, KinInv, NEW p \in Sessions, NEW s, NewRows(s), KinAt(s),
         \A r \in s.rows : r \in sess[p].rows \/ r.id \in Fresh,
         sess' = [sess EXCEPT ![p] = s], UNCHANGED tree
  PROVE  KinInv'
<1>1. sess'[p] = s /\ \A q \in Sessions : q # p => sess'[q] = sess[q]
  BY DEF TypeInv, TypeOK
<1>2. TreeKin'
  BY DEF KinInv, TreeKin, Live
<1>3. \A q \in Sessions : q # p => \A r \in s.rows, t \in sess[q].rows : r.id # t.id
  BY DEF KinInv, RowsApart, Fresh, IdsOf
<1>4. RowsApart'
  BY <1>1, <1>3 DEF KinInv, RowsApart
<1>5. ASSUME NEW q \in Sessions PROVE (NewRows(sess[q]) /\ KinAt(sess[q]))'
  <2>1. PICK t : t = sess'[q] /\ NewRows(t) /\ KinAt(t)
    BY <1>1 DEF KinInv
  <2> QED
    BY <2>1 DEF NewRows, KinAt, Kin, Live
<1> QED
  BY <1>2, <1>4, <1>5 DEF KinInv

\* So does a commit that leaves every living child with its parent's user.
LEMMA KinCommitted ==
  ASSUME TypeInv, KinInv, NEW p \in Sessions, Finish(p), Lasting(p), TreeKin'
  PROVE  KinInv'
<1>1. sess'[p] = Idle /\ \A q \in Sessions : q # p => sess'[q] = sess[q]
  BY DEF TypeInv, TypeOK, Finish
<1>2. RowsApart'
  BY <1>1 DEF KinInv, RowsApart, Idle
<1>3. (NewRows(sess[p]) /\ KinAt(sess[p]))'
  BY <1>1 DEF NewRows, KinAt, Idle
<1>4. ASSUME NEW q \in Sessions, q # p PROVE (NewRows(sess[q]) /\ KinAt(sess[q]))'
  <2>1. PICK t : t = sess[q] /\ t = sess'[q] /\ NewRows(t) /\ KinAt(t)
    BY <1>1, <1>4 DEF KinInv
  <2>2. \A r \in t.rows : r.id \notin IdsOf(p)
    BY <2>1, <1>4 DEF IdsOf, KinInv, RowsApart
  <2>3. NewRows(t)'
    BY <2>1, <2>2 DEF NewRows, Lasting
  <2>4. \A c : Kin(t, c) => Kin(t, c)'
    BY DEF Kin, Lasting, Live
  <2>5. KinAt(t)'
    BY <2>1, <2>4 DEF KinAt
  <2> QED
    BY <2>1, <2>3, <2>5 DEF NewRows, KinAt, Kin, Live
<1> QED
  BY <1>2, <1>3, <1>4 DEF KinInv

\* Where an insert commits, its rows are their user's and hang from the user's.
LEMMA KinInsert ==
  ASSUME TypeInv, KinInv, NEW p \in Sessions, InsertCommit(p)
  PROVE  KinInv'
<1> DEFINE rows == sess[p].rows
<1>1. NewRows(sess[p]) /\ KinAt(sess[p])
  BY DEF KinInv
<1>2. /\ Finish(p)
      /\ \/ tree' = tree
         \/ /\ ParentsExist(p)
            /\ \A r \in rows : r.id \in Cats /\ r.node \in Node /\ tree'[r.id] = r.node
            /\ \A c \in Cats : c \notin IdsOf(p) => tree'[c] = tree[c]
  BY <1>1, Inserted DEF NewRows
<1>3. CASE tree' = tree
  <2>1. TreeKin' /\ Lasting(p)
    BY <1>3 DEF KinInv, TreeKin, Live, Lasting
  <2> QED
    BY <1>2, <2>1, KinCommitted
<1>4. CASE /\ ParentsExist(p)
           /\ \A r \in rows : r.id \in Cats /\ r.node \in Node /\ tree'[r.id] = r.node
           /\ \A c \in Cats : c \notin IdsOf(p) => tree'[c] = tree[c]
  <2>1. \A c \in IdsOf(p) : \E r \in rows : r.id = c
    BY DEF IdsOf
  <2>2. \A c \in Cats : tree[c] # Unborn => c \notin IdsOf(p) /\ tree'[c] = tree[c]
    BY <1>1, <1>4, <2>1 DEF NewRows
  <2>3. Lasting(p)
    BY <1>4, <2>2 DEF Lasting
  <2>4. ASSUME NEW c \in Live'
        PROVE  \/ tree'[c].parent = NoCat
               \/ /\ tree'[c].parent \in Cats /\ tree'[tree'[c].parent] # Unborn
                  /\ tree'[c].parent \in Live' => tree'[tree'[c].parent].user = tree'[c].user
    <3>1. CASE c \in IdsOf(p)
      <4>1. PICK r \in rows : r.id = c /\ tree'[c] = r.node
        BY <3>1, <2>1, <1>4
      <4>2. r.node.user = sess[p].user /\ Kin(sess[p], r.node.parent)
        BY <1>1 DEF KinAt
      <4>3. CASE \E t \in rows : t.id = r.node.parent
        <5>1. PICK t \in rows : t.id = r.node.parent
          BY <4>3
        <5>2. t.id \in Cats /\ tree'[t.id] = t.node /\ t.node \in Node /\ t.node.user = sess[p].user
          BY <1>1, <1>4 DEF KinAt
        <5> QED
          BY <4>1, <4>2, <5>1, <5>2, TreeAssumption
      <4>4. CASE /\ r.node.parent \in Cats /\ tree[r.node.parent] # Unborn
                 /\ r.node.parent \in Live => tree[r.node.parent].user = sess[p].user
        BY <4>1, <4>2, <4>4, <2>2 DEF Live
      <4> QED
        BY <4>1, <4>2, <4>3, <4>4 DEF Kin
    <3>2. CASE c \notin IdsOf(p)
      <4>1. c \in Live /\ tree'[c] = tree[c]
        BY <3>2, <1>4 DEF Live
      <4> QED
        BY <4>1, <2>2 DEF KinInv, TreeKin, Live
    <3> QED
      BY <3>1, <3>2
  <2>5. TreeKin'
    BY <2>4 DEF TreeKin
  <2> QED
    BY <1>2, <2>3, <2>5, KinCommitted
<1> QED
  BY <1>2, <1>3, <1>4

\* An update hangs a category below one of the same user's.
LEMMA KinUpdate ==
  ASSUME TypeInv, KinInv, NEW p \in Sessions, UpdateCommit(p)
  PROVE  KinInv'
<1>1. PICK c, pa : c = sess[p].cat /\ pa = sess[p].new.parent
  OBVIOUS
<1>2. sess[p].at = "update" /\ KinAt(sess[p])
  BY DEF UpdateCommit, KinInv
<1>3. Kin(sess[p], c) /\ Kin(sess[p], pa) /\ sess[p].rows = {}
  BY <1>1, <1>2 DEF KinAt
<1>4. /\ Finish(p)
      /\ \/ tree' = tree
         \/ /\ c \in Live /\ tree'[c] \in Node
            /\ tree'[c].user = tree[c].user /\ tree'[c].group = tree[c].group
            /\ tree'[c].parent = tree[c].parent \/ tree'[c].parent = pa
            /\ \A d \in Cats : d # c => tree'[d] = tree[d]
  BY <1>1, Updated DEF Net
<1>5. CASE tree' = tree
  <2>1. TreeKin' /\ Lasting(p)
    BY <1>5 DEF KinInv, TreeKin, Live, Lasting
  <2> QED
    BY <1>4, <2>1, KinCommitted
<1>6. CASE /\ c \in Live /\ tree'[c] \in Node
           /\ tree'[c].user = tree[c].user /\ tree'[c].group = tree[c].group
           /\ tree'[c].parent = tree[c].parent \/ tree'[c].parent = pa
           /\ \A d \in Cats : d # c => tree'[d] = tree[d]
  <2>1. Lasting(p)
    BY <1>6, TreeAssumption DEF Lasting, Live
  <2>2. Live' = Live
    BY <1>6 DEF Live
  <2>3. \A d \in Live : tree'[d].user = tree[d].user /\ (d # c => tree'[d].parent = tree[d].parent)
    BY <1>6 DEF Live
  <2>4. \A d \in Cats : tree'[d] = Unborn => tree[d] = Unborn
    BY <1>6, TreeAssumption
  <2>5. tree[c].user = sess[p].user /\ c \in Cats
    BY <1>3, <1>6, TreeAssumption DEF Kin, Live
  <2>6. \A d \in Live : \/ tree[d].parent = NoCat
                        \/ /\ tree[d].parent \in Cats /\ tree[tree[d].parent] # Unborn
                           /\ tree[d].parent \in Live => tree[tree[d].parent].user = tree[d].user
    BY DEF KinInv, TreeKin
  <2>7. ASSUME NEW d \in Live
        PROVE  \/ tree'[d].parent = NoCat
               \/ /\ tree'[d].parent \in Cats /\ tree'[tree'[d].parent] # Unborn
                  /\ tree'[d].parent \in Live => tree'[tree'[d].parent].user = tree'[d].user
    <3>1. CASE tree'[d].parent = tree[d].parent
      BY <3>1, <2>3, <2>4, <2>6
    <3>2. CASE d = c /\ tree'[d].parent = pa
      BY <3>2, <1>3, <2>3, <2>4, <2>5 DEF Kin
    <3> QED
      BY <3>1, <3>2, <2>3, <1>6
  <2>8. TreeKin'
    BY <2>2, <2>7 DEF TreeKin
  <2> QED
    BY <1>4, <2>1, <2>8, KinCommitted
<1> QED
  BY <1>4, <1>5, <1>6

\* What a cascade from one user's categories reaches is that user's.
LEMMA CascadeKin ==
  ASSUME TypeInv, TreeKin, NEW u, NEW S, \A d \in S : d \in Live => tree[d].user = u
  PROVE  \A d \in Cascade(S \intersect Live) : d \in Live /\ tree[d].user = u
<1> DEFINE T == {d \in Live : tree[d].user = u}
<1>1. T \in SUBSET Live /\ S \intersect Live \subseteq T
  OBVIOUS
<1>2. ChildClosed(T)
  BY TreeAssumption DEF ChildClosed, TreeKin, Live
<1> QED
  BY <1>1, <1>2 DEF Cascade

\* A delete takes categories of its own user, and with each its children.
LEMMA KinDelete ==
  ASSUME TypeInv, KinInv, NEW p \in Sessions, DeleteCommit(p)
  PROVE  /\ KinInv'
         /\ \A c \in Live : tree'[c] = Gone => tree[c].user = sess[p].user
<1>1. /\ Finish(p)
      /\ \A c \in Cats : IF c \in Removed(p) THEN c \in Live /\ tree'[c] = Gone
                         ELSE tree'[c] = tree[c]
  BY Deleted
<1>2. sess[p].at = "delete" /\ KinAt(sess[p])
  BY DEF DeleteCommit, KinInv
<1>3. \A d \in sess[p].doomed : d \in Live => tree[d].user = sess[p].user
  BY <1>2, TreeAssumption DEF KinAt, Kin, Live
<1>4. \A d \in Removed(p) : d \in Live /\ tree[d].user = sess[p].user
  BY <1>3, CascadeKin DEF Removed, KinInv
<1>5. Lasting(p)
  BY <1>1, TreeAssumption DEF Lasting, Live
<1>6. \A c \in Cats : c \in Live' => c \in Live /\ tree'[c] = tree[c]
  BY <1>1, TreeAssumption DEF Live
<1>7. \A c \in Cats : tree'[c] = Unborn => tree[c] = Unborn
  BY <1>1, TreeAssumption
<1>8. TreeKin'
  BY <1>6, <1>7 DEF KinInv, TreeKin, Live
<1>9. \A c \in Live : tree'[c] = Gone => tree[c].user = sess[p].user
  BY <1>1, <1>4, TreeAssumption DEF Live
<1> QED
  BY <1>1, <1>5, <1>8, <1>9, KinCommitted

-----------------------------------------------------------------------------
(* Kinship in every habit *)

\* A family tree is seeded where there is none, and there is none until then.
SeedAlone ==
  \A p \in Sessions : sess[p].at = "seed" /\ sess[p].group # NoGroup =>
    \A c \in Live : tree[c].group # sess[p].group

\* What a step of the seed names is found in its user's scope or made by it.
LEMMA KinSeed ==
  ASSUME TypeInv, KinInv, SeedAlone, NEW p \in Sessions, SeedNode(p)
  PROVE  KinInv'
<1>1. PICK old, new : old = sess[p] /\ new = sess'[p]
  OBVIOUS
<1>2. /\ sess' = [sess EXCEPT ![p] = new] /\ UNCHANGED <<tree, budgetOn>>
      /\ old.at = "seed" /\ new.at \in {"insert", "seed"}
      /\ new.user = old.user /\ new.group = old.group
  BY <1>1, Seeded
<1>3. NewRows(old) /\ KinAt(old) /\ Kin(old, old.cat)
  BY <1>1, <1>2 DEF KinInv, KinAt
<1>4. CASE new.cat \in Found(p, DefaultPath[old.done + 1]) /\ new.rows = old.rows
  <2>1. /\ new.cat \in Live /\ new.cat \in Cats
        /\ InScope(tree[new.cat], [user |-> old.user, group |-> old.group])
    BY <1>1, <1>4 DEF Found, Live
  <2>2. tree[new.cat].user = new.user
    BY <1>1, <1>2, <2>1 DEF InScope, SeedAlone
  <2>3. Kin(new, new.cat)
    BY <2>1, <2>2, TreeAssumption DEF Kin, Live
  <2>4. \A c : Kin(old, c) => Kin(new, c)
    BY <1>2, <1>4 DEF Kin
  <2>5. NewRows(new) /\ KinAt(new)
    BY <1>2, <1>3, <1>4, <2>3, <2>4 DEF NewRows, KinAt
  <2> QED
    BY <1>1, <1>2, <1>4, <2>5, KinLooked
<1>5. CASE /\ new.cat \in Fresh
           /\ new.rows = old.rows \union
                {[id |-> new.cat, node |->
                   [user |-> old.user, group |-> old.group, parent |-> old.cat,
                    name |-> DefaultPath[old.done + 1], level |-> old.done]]}
  <2> DEFINE row == [id |-> new.cat, node |->
                      [user |-> old.user, group |-> old.group, parent |-> old.cat,
                       name |-> DefaultPath[old.done + 1], level |-> old.done]]
  <2>1. /\ new.rows = old.rows \union {row} /\ row.id = new.cat /\ row.node.user = new.user
        /\ row.node.group = new.group /\ row.node.parent = old.cat
    BY <1>2, <1>5
  <2> HIDE DEF row
  <2>2. \A c : Kin(old, c) => Kin(new, c)
    BY <1>2, <2>1 DEF Kin
  <2>3. Kin(new, new.cat)
    BY <2>1 DEF Kin
  <2>4. new.cat \in Cats /\ tree[new.cat] = Unborn /\ \A r \in old.rows : r.id # new.cat
    BY <1>1, <1>5 DEF Fresh, IdsOf
  <2>5. NewRows(new)
    BY <1>3, <2>1, <2>4 DEF NewRows
  <2>6. KinAt(new)
    BY <1>2, <1>3, <2>1, <2>2, <2>3 DEF KinAt
  <2>7. \A r \in new.rows : r \in sess[p].rows \/ r.id \in Fresh
    BY <1>1, <1>5, <2>1
  <2> QED
    BY <1>2, <2>5, <2>6, <2>7, KinLooked
<1> QED
  BY <1>1, <1>4, <1>5, Seeded

\* A request starts from its own user's categories.
LEMMA KinRequest ==
  ASSUME TypeInv, KinInv, NEW p \in Sessions, NEW u \in Users, Request(p, u)
  PROVE  KinInv'
<1>0. TreeKin
  BY DEF KinInv
<1>1. ASSUME NEW parent \in Cats \union {NoCat}, NEW name \in Names, CreateLoad(p, u, parent, name)
      PROVE  KinInv'
  <2>1. PICK s : s = sess'[p] /\ sess' = [sess EXCEPT ![p] = s]
    BY <1>1, Created
  <2>2. UNCHANGED tree /\ s.at = "insert" /\ s.user = u /\ s.group = NoGroup
    BY <1>1, <2>1, Created
  <2>3. PICK c \in Fresh : s.rows =
          {[id |-> c, node |-> [user |-> u, group |-> NoGroup, parent |-> parent,
                                name |-> name, level |-> LevelUnder(parent)]]}
    BY <1>1, <2>1, Created
  <2>4. \A r \in s.rows : /\ r.id = c /\ r.node.user = u /\ r.node.group = NoGroup
                          /\ r.node.parent = parent
    BY <2>3
  <2>5. \A r, t \in s.rows : r = t
    BY <2>3
  <2>6. c \in Cats /\ tree[c] = Unborn /\ OwnParent(u, parent)
    BY <1>1 DEF Fresh, CreateLoad
  <2>7. NewRows(s)
    BY <2>4, <2>5, <2>6 DEF NewRows
  <2>8. Kin(s, parent)
    BY <2>2, <2>6, TreeAssumption DEF Kin, OwnParent, Live
  <2>9. KinAt(s)
    BY <2>2, <2>4, <2>8 DEF KinAt
  <2>10. \A r \in s.rows : r.id \in Fresh
    BY <2>4
  <2> QED
    BY <2>1, <2>2, <2>7, <2>9, <2>10, KinLooked
<1>2. ASSUME NEW c \in Cats, UpdateLoad(p, u, c) PROVE KinInv'
  <2>1. PICK s : s = sess'[p] /\ sess' = [sess EXCEPT ![p] = s]
    BY <1>2, UpdateRead
  <2>2. /\ UNCHANGED tree /\ s.at = "update" /\ s.rows = {} /\ s.user = u /\ s.cat = c
        /\ c \in Live /\ tree[c].user = u
        /\ s.new.parent = tree[c].parent \/ MayMove(u, c, s.new.parent)
    BY <1>2, <2>1, UpdateRead
  <2>3. Kin(s, s.cat)
    BY <2>2, TreeAssumption DEF Kin, Live
  <2>4. Kin(s, s.new.parent)
    <3>1. CASE s.new.parent = tree[c].parent
      BY <1>0, <2>2, <3>1 DEF Kin, TreeKin
    <3>2. CASE MayMove(u, c, s.new.parent)
      BY <2>2, <3>2, TreeAssumption DEF Kin, MayMove, OwnParent, Live
    <3> QED
      BY <2>2, <3>1, <3>2
  <2>5. NewRows(s) /\ KinAt(s)
    BY <2>2, <2>3, <2>4 DEF NewRows, KinAt
  <2> QED
    BY <2>1, <2>2, <2>5, KinLooked
<1>3. ASSUME NEW c \in Cats, DeleteLoad(p, u, c) PROVE KinInv'
  <2> DEFINE new == [Idle EXCEPT !.at = "delete", !.user = u, !.cat = c, !.doomed = Cascade({c})]
  <2>1. new.at = "delete" /\ new.rows = {} /\ new.user = u /\ new.doomed = Cascade({c})
    BY DEF Idle
  <2>2. sess' = [sess EXCEPT ![p] = new] /\ UNCHANGED tree /\ c \in Live /\ tree[c].user = u
    BY <1>3 DEF DeleteLoad, Begin
  <2> HIDE DEF new
  <2>3. {c} \intersect Live = {c}
    BY <2>2
  <2>4. \A d \in Cascade({c} \intersect Live) : d \in Live /\ tree[d].user = u
    <3>1. \A d \in {c} : d \in Live => tree[d].user = u
      BY <2>2
    <3> QED
      BY <1>0, <3>1, CascadeKin
  <2>5. \A d \in new.doomed : d \in Live /\ tree[d].user = u
    BY <2>1, <2>3, <2>4
  <2>6. \A d \in new.doomed : Kin(new, d)
    BY <2>1, <2>5, TreeAssumption DEF Kin, Live
  <2>7. NewRows(new) /\ KinAt(new)
    BY <2>1, <2>6 DEF NewRows, KinAt
  <2> QED
    BY <2>1, <2>2, <2>7, KinLooked
<1>4. ASSUME NEW g \in Groups \union {NoGroup}, SeedStart(p, u, g) PROVE KinInv'
  <2> DEFINE new == [Idle EXCEPT !.at = "seed", !.user = u, !.group = g]
  <2>1. new.at = "seed" /\ new.rows = {} /\ new.cat = NoCat
    BY DEF Idle
  <2>2. sess' = [sess EXCEPT ![p] = new] /\ UNCHANGED tree
    BY <1>4 DEF SeedStart, Begin
  <2> HIDE DEF new
  <2>3. NewRows(new) /\ KinAt(new)
    BY <2>1 DEF NewRows, KinAt, Kin
  <2> QED
    BY <2>1, <2>2, <2>3, KinLooked
<1>5. ASSUME NEW b \in Budgets, NEW c \in Cats, BudgetLoad(p, u, b, c) PROVE KinInv'
  <2> DEFINE new == [Idle EXCEPT !.at = "budget", !.user = u, !.budget = b, !.cat = RootOf(c)]
  <2>1. new.at = "budget" /\ new.rows = {}
    BY DEF Idle
  <2>2. sess' = [sess EXCEPT ![p] = new] /\ UNCHANGED tree
    BY <1>5 DEF BudgetLoad, Begin
  <2> HIDE DEF new
  <2>3. NewRows(new) /\ KinAt(new)
    BY <2>1 DEF NewRows, KinAt
  <2> QED
    BY <2>1, <2>2, <2>3, KinLooked
<1> QED
  BY <1>1, <1>2, <1>3, <1>4, <1>5 DEF Request

\* Kinship is kept by every step: who owns a category never changes, and
\* nothing hangs below another user's.
LEMMA KinStep ==
  ASSUME TypeInv, KinInv, SeedAlone, Next
  PROVE  KinInv'
<1>1. ASSUME NEW p \in Sessions, Continue(p) PROVE KinInv'
  <2>1. ASSUME BudgetCommit(p) PROVE KinInv'
    <3>1. Finish(p) /\ tree' = tree
      BY <2>1 DEF BudgetCommit
    <3>2. TreeKin' /\ Lasting(p)
      BY <3>1 DEF KinInv, TreeKin, Lasting, Live
    <3> QED
      BY <3>1, <3>2, KinCommitted
  <2> QED
    BY <1>1, <2>1, KinInsert, KinUpdate, KinDelete, KinSeed DEF Continue
<1> QED
  BY <1>1, KinRequest DEF Next

\* Of a step, what groups and turns depend on: one session looks, or commits
\* rows of its own group.
LEMMA GroupStep ==
  ASSUME TypeInv, KinInv, Next
  PROVE  \E p \in Sessions :
           /\ \A q \in Sessions : q # p => sess'[q] = sess[q]
           /\ \/ /\ UNCHANGED tree
                 /\ sess'[p].at = "seed" =>
                      \/ sess[p].at = "seed" /\ sess'[p].group = sess[p].group
                      \/ sess'[p].group # NoGroup => \A c \in Live : tree[c].group # sess'[p].group
              \/ /\ sess[p].at # "idle" /\ sess'[p] = Idle
                 /\ \A c \in Live' : \/ tree'[c].group = sess[p].group
                                     \/ c \in Live /\ tree'[c].group = tree[c].group
<1> DEFINE Goal == \E p \in Sessions :
           /\ \A q \in Sessions : q # p => sess'[q] = sess[q]
           /\ \/ /\ UNCHANGED tree
                 /\ sess'[p].at = "seed" =>
                      \/ sess[p].at = "seed" /\ sess'[p].group = sess[p].group
                      \/ sess'[p].group # NoGroup => \A c \in Live : tree[c].group # sess'[p].group
              \/ /\ sess[p].at # "idle" /\ sess'[p] = Idle
                 /\ \A c \in Live' : \/ tree'[c].group = sess[p].group
                                     \/ c \in Live /\ tree'[c].group = tree[c].group
<1>1. ASSUME NEW p \in Sessions, Continue(p) PROVE Goal
  <2>1. CASE SeedNode(p)
    <3>1. /\ sess' = [sess EXCEPT ![p] = sess'[p]] /\ UNCHANGED tree
          /\ sess[p].at = "seed" /\ sess'[p].group = sess[p].group
      BY <2>1, Seeded
    <3>2. \A q \in Sessions : q # p => sess'[q] = sess[q]
      BY <3>1 DEF TypeInv, TypeOK
    <3> QED
      BY <3>1, <3>2
  <2>2. CASE ~SeedNode(p)
    <3>1. sess[p].at # "idle" /\ Finish(p)
      BY <1>1, <2>2 DEF Continue, InsertCommit, UpdateCommit, DeleteCommit, BudgetCommit
    <3>2. sess'[p] = Idle /\ \A q \in Sessions : q # p => sess'[q] = sess[q]
      BY <3>1 DEF Finish, TypeInv, TypeOK
    <3>3. \A c \in Live' : \/ tree'[c].group = sess[p].group
                           \/ c \in Live /\ tree'[c].group = tree[c].group
      <4>1. CASE InsertCommit(p)
        <5>1. NewRows(sess[p]) /\ KinAt(sess[p])
          BY DEF KinInv
        <5>2. \/ tree' = tree
              \/ /\ \A r \in sess[p].rows : tree'[r.id] = r.node
                 /\ \A c \in Cats : c \notin IdsOf(p) => tree'[c] = tree[c]
          BY <4>1, <5>1, Inserted DEF NewRows
        <5>3. \A c \in IdsOf(p) : \E r \in sess[p].rows : r.id = c
          BY DEF IdsOf
        <5> QED
          BY <5>1, <5>2, <5>3 DEF KinAt, Live
      <4>2. CASE UpdateCommit(p)
        BY <4>2, Updated DEF Live
      <4>3. CASE DeleteCommit(p)
        BY <4>3, Deleted, TreeAssumption DEF Live
      <4>4. CASE BudgetCommit(p)
        BY <4>4 DEF BudgetCommit, Live
      <4> QED
        BY <1>1, <2>2, <4>1, <4>2, <4>3, <4>4 DEF Continue
    <3> QED
      BY <3>1, <3>2, <3>3
  <2> QED
    BY <2>1, <2>2
<1>2. ASSUME NEW p \in Sessions, NEW u \in Users, Request(p, u) PROVE Goal
  <2>1. ASSUME NEW s, sess' = [sess EXCEPT ![p] = s]
        PROVE  sess'[p] = s /\ \A q \in Sessions : q # p => sess'[q] = sess[q]
    BY <2>1 DEF TypeInv, TypeOK
  <2>2. CASE \E g \in Groups \union {NoGroup} : SeedStart(p, u, g)
    <3>1. PICK g \in Groups \union {NoGroup} : SeedStart(p, u, g)
      BY <2>2
    <3> DEFINE new == [Idle EXCEPT !.at = "seed", !.user = u, !.group = g]
    <3>2. new.group = g
      BY DEF Idle
    <3>3. /\ sess' = [sess EXCEPT ![p] = new] /\ UNCHANGED tree
          /\ g # NoGroup => \A c \in Live : tree[c].group # g
      BY <3>1 DEF SeedStart, Begin
    <3> HIDE DEF new
    <3> QED
      BY <2>1, <3>2, <3>3
  <2>3. CASE \E s : sess' = [sess EXCEPT ![p] = s] /\ UNCHANGED tree /\ s.at # "seed"
    <3>1. PICK s : sess' = [sess EXCEPT ![p] = s] /\ UNCHANGED tree /\ s.at # "seed"
      BY <2>3
    <3> QED
      BY <2>1, <3>1
  <2>4. ASSUME NEW parent \in Cats \union {NoCat}, NEW name \in Names, CreateLoad(p, u, parent, name)
        PROVE  \E s : sess' = [sess EXCEPT ![p] = s] /\ UNCHANGED tree /\ s.at # "seed"
    BY <2>4, Created
  <2>5. ASSUME NEW c \in Cats, UpdateLoad(p, u, c)
        PROVE  \E s : sess' = [sess EXCEPT ![p] = s] /\ UNCHANGED tree /\ s.at # "seed"
    BY <2>5, UpdateRead
  <2>6. ASSUME NEW c \in Cats, DeleteLoad(p, u, c)
        PROVE  \E s : sess' = [sess EXCEPT ![p] = s] /\ UNCHANGED tree /\ s.at # "seed"
    <3> DEFINE new == [Idle EXCEPT !.at = "delete", !.user = u, !.cat = c, !.doomed = Cascade({c})]
    <3>1. new.at # "seed"
      BY DEF Idle
    <3>2. sess' = [sess EXCEPT ![p] = new] /\ UNCHANGED tree
      BY <2>6 DEF DeleteLoad, Begin
    <3> HIDE DEF new
    <3> QED
      BY <3>1, <3>2
  <2>7. ASSUME NEW b \in Budgets, NEW c \in Cats, BudgetLoad(p, u, b, c)
        PROVE  \E s : sess' = [sess EXCEPT ![p] = s] /\ UNCHANGED tree /\ s.at # "seed"
    <3> DEFINE new == [Idle EXCEPT !.at = "budget", !.user = u, !.budget = b, !.cat = RootOf(c)]
    <3>1. new.at # "seed"
      BY DEF Idle
    <3>2. sess' = [sess EXCEPT ![p] = new] /\ UNCHANGED tree
      BY <2>7 DEF BudgetLoad, Begin
    <3> HIDE DEF new
    <3> QED
      BY <3>1, <3>2
  <2> QED
    BY <1>2, <2>2, <2>3, <2>4, <2>5, <2>6, <2>7 DEF Request
<1> QED
  BY <1>1, <1>2 DEF Next

\* Requests come one at a time, unless they overlap.
Turn == habit # "overlap" =>
  \A p, q \in Sessions : p # q => sess[p] = Idle \/ sess[q] = Idle

\* No category has a group, unless a tree is shared.
Groupless == habit # "share" => /\ \A c \in Live : tree[c].group = NoGroup
                                /\ \A p \in Sessions : sess[p].group = NoGroup

HabitInv == /\ TypeInv /\ KinInv /\ Turn /\ Groupless /\ SeedAlone
            /\ habit # "drag" => DepthInv

\* A tree starts empty.
LEMMA HabitStart == HabitInit => HabitInv
<1> SUFFICES ASSUME HabitInit PROVE HabitInv
  OBVIOUS
<1>1. Init /\ Live = {} /\ \A p \in Sessions : sess[p] = Idle
  BY TreeAssumption DEF HabitInit, Init, Live
<1>2. TypeInv /\ DepthInv
  BY <1>1, TypeInit, DepthInit
<1>3. KinInv
  BY <1>1 DEF KinInv, TreeKin, RowsApart, NewRows, KinAt, Idle
<1>4. Turn /\ Groupless /\ SeedAlone
  BY <1>1 DEF Turn, Groupless, SeedAlone, Idle
<1> QED
  BY <1>2, <1>3, <1>4 DEF HabitInv

\* No request, of any habit, breaks what all trees keep.
LEMMA HabitStep == HabitInv /\ [HabitNext]_<<vars, habit>> => HabitInv'
<1> SUFFICES ASSUME HabitInv, [HabitNext]_<<vars, habit>> PROVE HabitInv'
  OBVIOUS
<1>0. TypeInv /\ KinInv /\ Turn /\ Groupless /\ SeedAlone /\ (habit # "drag" => DepthInv)
  BY DEF HabitInv
<1>1. CASE UNCHANGED <<vars, habit>>
  <2>1. TypeInv'
    BY <1>0, <1>1, TypeStep
  <2>2. KinInv'
    BY <1>0, <1>1 DEF vars, KinInv, TreeKin, RowsApart, NewRows, KinAt, Kin, Live
  <2>3. Turn' /\ Groupless' /\ SeedAlone'
    BY <1>0, <1>1 DEF vars, Turn, Groupless, SeedAlone, Live
  <2>4. (habit # "drag" => DepthInv)'
    BY <1>0, <1>1 DEF vars, DepthInv, LevelIsDepth, BudgetOnMain, RowsApart, SessionInv, RowsInv,
                      Hangs, SeedAt, Live
  <2> QED
    BY <2>1, <2>2, <2>3, <2>4 DEF HabitInv
<1>2. CASE HabitNext
  <2>1. Next /\ habit' = habit /\ \A p \in Sessions : Within(p)
    BY <1>2 DEF HabitNext
  <2>2. TypeInv' /\ KinInv'
    BY <1>0, <2>1, TypeStep, KinStep
  <2>3. habit # "drag" => Undragged
    BY <2>1, <1>0, UpdateRead DEF Within, Undragged
  <2>4. (habit # "drag" => DepthInv)'
    BY <1>0, <2>1, <2>3, DepthStep
  <2>5. Turn'
    BY <2>1 DEF Turn, Within
  <2>6. habit # "share" => \A p \in Sessions : sess'[p].group = NoGroup
    BY <2>1 DEF Within
  <2>7. PICK p \in Sessions :
           /\ \A q \in Sessions : q # p => sess'[q] = sess[q]
           /\ \/ /\ UNCHANGED tree
                 /\ sess'[p].at = "seed" =>
                      \/ sess[p].at = "seed" /\ sess'[p].group = sess[p].group
                      \/ sess'[p].group # NoGroup => \A c \in Live : tree[c].group # sess'[p].group
              \/ /\ sess[p].at # "idle" /\ sess'[p] = Idle
                 /\ \A c \in Live' : \/ tree'[c].group = sess[p].group
                                     \/ c \in Live /\ tree'[c].group = tree[c].group
    BY <1>0, <2>1, GroupStep
  <2>8. CASE UNCHANGED tree
    <3>1. Live' = Live
      BY <2>8 DEF Live
    <3>2. Groupless'
      BY <1>0, <2>1, <2>6, <2>8, <3>1 DEF Groupless
    <3>3. SeedAlone'
      <4>1. CASE sess'[p].at = "seed" =>
                      \/ sess[p].at = "seed" /\ sess'[p].group = sess[p].group
                      \/ sess'[p].group # NoGroup => \A c \in Live : tree[c].group # sess'[p].group
        BY <1>0, <2>7, <2>8, <3>1, <4>1 DEF SeedAlone
      <4>2. CASE sess'[p] = Idle
        BY <1>0, <2>7, <2>8, <3>1, <4>2 DEF SeedAlone, Idle
      <4> QED
        BY <2>7, <4>1, <4>2
    <3> QED
      BY <1>0, <2>2, <2>4, <2>5, <3>2, <3>3 DEF HabitInv
  <2>9. CASE /\ sess[p].at # "idle" /\ sess'[p] = Idle
             /\ \A c \in Live' : \/ tree'[c].group = sess[p].group
                                 \/ c \in Live /\ tree'[c].group = tree[c].group
    <3>1. Groupless'
      BY <1>0, <2>1, <2>6, <2>9 DEF Groupless
    <3>2. ASSUME NEW q \in Sessions, sess'[q].at = "seed", sess'[q].group # NoGroup
          PROVE  FALSE
      <4>1. habit = "share"
        BY <2>6, <3>2
      <4>2. q # p
        BY <2>9, <3>2 DEF Idle
      <4>3. sess[q] = Idle
        BY <1>0, <2>9, <4>1, <4>2 DEF Turn, Idle
      <4> QED
        BY <2>7, <3>2, <4>2, <4>3 DEF Idle
    <3>3. SeedAlone'
      BY <3>2 DEF SeedAlone
    <3> QED
      BY <1>0, <2>2, <2>4, <2>5, <3>1, <3>3 DEF HabitInv
  <2> QED
    BY <2>7, <2>8, <2>9
<1> QED
  BY <1>1, <1>2

-----------------------------------------------------------------------------
(* Budgets and deletes *)

\* Whatever clients drag when they do: where nobody drags, budgets are on main
\* categories, although requests overlap and a family tree is shared.
THEOREM BudgetsUndragged == HabitSpec => []BudgetOnMainUndragged
<1>1. HabitInv => BudgetOnMainUndragged
  BY DEF HabitInv, DepthInv, BudgetOnMainUndragged
<1> QED
  BY <1>1, HabitStart, HabitStep, PTL DEF HabitSpec, HabitNext

\* In every habit, a category that goes was deleted by a request of its own
\* user: neither the list of children a request read before it commits, nor the
\* cascade of the database from there, reaches another user's.
THEOREM DeletesStayPrivate == HabitSpec => PrivateDeletes
<1> DEFINE Private == \A c \in Live : tree'[c] = Gone /\ tree[c].group = NoGroup =>
             \E p \in Sessions : sess[p].at = "delete" /\ sess[p].user = tree[c].user
<1>1. HabitInv /\ [HabitNext]_<<vars, habit>> => [Private]_vars
  <2> SUFFICES ASSUME HabitInv, HabitNext, NEW c \in Live, tree'[c] = Gone
               PROVE  \E p \in Sessions : sess[p].at = "delete" /\ sess[p].user = tree[c].user
    BY DEF vars
  <2>0. TypeInv /\ KinInv /\ c \in Cats /\ tree[c] # Gone /\ tree[c] # Unborn
    BY TreeAssumption DEF HabitInv, Live
  <2>1. PICK p \in Sessions : Continue(p) \/ \E u \in Users : Request(p, u)
    BY DEF HabitNext, Next
  <2>2. CASE DeleteCommit(p)
    BY <2>0, <2>2, KinDelete DEF DeleteCommit
  <2>3. CASE InsertCommit(p)
    <3>1. NewRows(sess[p])
      BY <2>0 DEF KinInv
    <3>2. \/ tree' = tree
          \/ /\ \A r \in sess[p].rows : tree'[r.id] = r.node /\ r.node \in Node
             /\ \A d \in Cats : d \notin IdsOf(p) => tree'[d] = tree[d]
      BY <2>0, <2>3, <3>1, Inserted DEF NewRows
    <3>3. c \notin IdsOf(p)
      BY <2>0, <3>1 DEF IdsOf, NewRows
    <3> QED
      BY <2>0, <3>2, <3>3
  <2>4. CASE UpdateCommit(p)
    BY <2>0, <2>4, Updated, TreeAssumption
  <2>5. CASE tree' = tree
    BY <2>0, <2>5
  <2>6. CASE SeedNode(p) \/ BudgetCommit(p) \/ \E u \in Users : Request(p, u)
    <3>1. tree' = tree
      BY <2>6 DEF SeedNode, BudgetCommit, Request, CreateLoad, UpdateLoad, DeleteLoad, SeedStart,
                  BudgetLoad
    <3> QED
      BY <2>5, <3>1
  <2> QED
    BY <2>1, <2>2, <2>3, <2>4, <2>6 DEF Continue
<1> QED
  BY <1>1, HabitStart, HabitStep, PTL DEF HabitSpec, HabitNext, PrivateDeletes

-----------------------------------------------------------------------------
(* Dragging leaves, one request at a time *)

\* A request that updates holds the row as it is, and keeps it where it is or
\* plans to hang it, a leaf, below another category that lives.
DragAt(s) ==
  s.at = "update" =>
    /\ s.cat \in Live /\ s.snap = tree[s.cat]
    /\ \/ s.new.parent = s.snap.parent /\ s.new.level = s.snap.level
       \/ /\ Children(s.cat) = {} /\ s.new.parent # s.cat
          /\ s.new.parent \in Live \union {NoCat} /\ s.new.level = LevelUnder(s.new.parent)
DragInv == LevelIsDepth /\ \A p \in Sessions : RowsInv(sess[p]) /\ DragAt(sess[p])

\* A leaf hung below a category takes the level below it, and carries nothing.
LEMMA UpdateLevels ==
  ASSUME TypeInv, LevelIsDepth, NEW p \in Sessions, DragAt(sess[p]), UpdateCommit(p)
  PROVE  LevelIsDepth'
<1>1. PICK c, snap, new : c = sess[p].cat /\ snap = sess[p].snap /\ new = sess[p].new
  OBVIOUS
<1>2. /\ c \in Live /\ snap = tree[c]
      /\ \/ new.parent = snap.parent /\ new.level = snap.level
         \/ /\ Children(c) = {} /\ new.parent # c
            /\ new.parent \in Live \union {NoCat} /\ new.level = LevelUnder(new.parent)
  BY <1>1 DEF UpdateCommit, DragAt
<1>3. \/ tree' = tree
      \/ /\ tree'[c] \in Node
         /\ tree'[c].parent = Net(tree[c].parent, snap.parent, new.parent)
         /\ tree'[c].level = Net(tree[c].level, snap.level, new.level)
         /\ \A d \in Cats : d # c => tree'[d] = tree[d]
  BY <1>1, Updated
<1>4. CASE tree' = tree
  BY <1>4 DEF LevelIsDepth, Live
<1>5. CASE /\ tree'[c] \in Node
           /\ tree'[c].parent = Net(tree[c].parent, snap.parent, new.parent)
           /\ tree'[c].level = Net(tree[c].level, snap.level, new.level)
           /\ \A d \in Cats : d # c => tree'[d] = tree[d]
  <2>1. tree'[c].parent = new.parent /\ tree'[c].level = new.level
    BY <1>2, <1>5 DEF Net
  <2>2. Live' = Live
    BY <1>2, <1>5 DEF Live
  <2>3. \A d \in Live : d # c => tree'[d] = tree[d]
    BY <1>5 DEF Live
  <2>4. \A d \in Live :
          /\ tree[d].parent \in Live \union {NoCat}
          /\ tree[d].level = IF tree[d].parent = NoCat THEN 0 ELSE tree[tree[d].parent].level + 1
    BY DEF LevelIsDepth
  <2>5. NoCat \notin Live
    BY TreeAssumption DEF Live
  <2>6. CASE new.parent = snap.parent /\ new.level = snap.level
    <3>1. \A d \in Live : tree'[d].parent = tree[d].parent /\ tree'[d].level = tree[d].level
      BY <1>2, <2>1, <2>3, <2>6
    <3> QED
      BY <2>2, <2>4, <3>1 DEF LevelIsDepth
  <2>7. CASE /\ Children(c) = {} /\ new.parent # c
             /\ new.parent \in Live \union {NoCat} /\ new.level = LevelUnder(new.parent)
    <3>1. \A d \in Live : tree[d].parent # c
      BY <2>7 DEF Children
    <3>2. ASSUME NEW d \in Live
          PROVE  /\ tree'[d].parent \in Live \union {NoCat}
                 /\ tree'[d].level = IF tree'[d].parent = NoCat THEN 0
                                     ELSE tree'[tree'[d].parent].level + 1
      <4>1. CASE d = c
        BY <4>1, <2>1, <2>3, <2>7 DEF LevelUnder
      <4>2. CASE d # c
        BY <4>2, <2>3, <2>4, <3>1
      <4> QED
        BY <4>1, <4>2
    <3> QED
      BY <2>2, <3>2 DEF LevelIsDepth
  <2> QED
    BY <1>2, <2>6, <2>7
<1> QED
  BY <1>3, <1>4, <1>5

\* A drag of leaves keeps levels depths, if nobody commits between its reading
\* and its writing.
LEMMA DragStep ==
  ASSUME Moves \subseteq {"leaf"}, TypeInv, DragInv, Next,
         \A p, q \in Sessions : p # q => sess[p] = Idle \/ sess[q] = Idle
  PROVE  DragInv'
<1>0. LevelIsDepth /\ \A p \in Sessions : RowsInv(sess[p]) /\ DragAt(sess[p])
  BY DEF DragInv
<1>1. ASSUME NEW p \in Sessions, Finish(p), sess[p].at # "idle", LevelIsDepth' PROVE DragInv'
  <2>3. sess[p] # Idle
    BY <1>1 DEF Idle
  <2>1. \A q \in Sessions : sess'[q] = Idle
    BY <1>1, <2>3 DEF Finish, TypeInv, TypeOK
  <2>2. \A q \in Sessions : (RowsInv(sess[q]) /\ DragAt(sess[q]))'
    BY <2>1 DEF RowsInv, DragAt, Idle
  <2> QED
    BY <1>1, <2>2 DEF DragInv
<1>2. ASSUME NEW p \in Sessions, NEW s, sess' = [sess EXCEPT ![p] = s], UNCHANGED tree,
             RowsInv(s), DragAt(s)
      PROVE  DragInv'
  <2>1. LevelIsDepth'
    BY <1>0, <1>2 DEF LevelIsDepth, Live
  <2>2. ASSUME NEW q \in Sessions PROVE (RowsInv(sess[q]) /\ DragAt(sess[q]))'
    <3>1. PICK t : t = sess'[q] /\ RowsInv(t) /\ DragAt(t)
      BY <1>0, <1>2 DEF TypeInv, TypeOK
    <3> QED
      BY <1>2, <3>1 DEF RowsInv, DragAt, Hangs, SeedAt, Live, Children, LevelUnder
  <2> QED
    BY <2>1, <2>2 DEF DragInv
<1>3. ASSUME NEW p \in Sessions, Continue(p) PROVE DragInv'
  <2>1. CASE InsertCommit(p)
    BY <1>0, <1>1, <2>1, InsertLevels DEF InsertCommit
  <2>2. CASE UpdateCommit(p)
    BY <1>0, <1>1, <2>2, UpdateLevels DEF UpdateCommit
  <2>3. CASE DeleteCommit(p)
    BY <1>0, <1>1, <2>3, Deleted DEF DeleteCommit
  <2>4. CASE BudgetCommit(p)
    <3>1. LevelIsDepth' /\ Finish(p) /\ sess[p].at # "idle"
      BY <1>0, <2>4 DEF BudgetCommit, LevelIsDepth, Live
    <3> QED
      BY <1>1, <3>1
  <2>5. CASE SeedNode(p)
    <3>1. PICK s : s = sess'[p] /\ sess' = [sess EXCEPT ![p] = s]
      BY <2>5, Seeded
    <3>2. UNCHANGED tree /\ s.at # "update" /\ RowsInv(s)
      BY <1>0, <2>5, <3>1, Seeded, SeedRows
    <3> QED
      BY <1>2, <3>1, <3>2 DEF DragAt
  <2> QED
    BY <1>3, <2>1, <2>2, <2>3, <2>4, <2>5 DEF Continue
<1>4. ASSUME NEW p \in Sessions, NEW u \in Users, Request(p, u) PROVE DragInv'
  <2>1. ASSUME NEW parent \in Cats \union {NoCat}, NEW name \in Names, CreateLoad(p, u, parent, name)
        PROVE  DragInv'
    <3>1. PICK s : s = sess'[p] /\ sess' = [sess EXCEPT ![p] = s]
      BY <2>1, Created
    <3>2. UNCHANGED tree /\ s.at = "insert" /\ RowsInv(s)
      BY <2>1, <3>1, Created, CreateRows
    <3> QED
      BY <1>2, <3>1, <3>2 DEF DragAt
  <2>2. ASSUME NEW c \in Cats, UpdateLoad(p, u, c) PROVE DragInv'
    <3>1. PICK s : s = sess'[p] /\ sess' = [sess EXCEPT ![p] = s]
      BY <2>2, UpdateRead
    <3>2. /\ UNCHANGED tree /\ s.at = "update" /\ s.rows = {} /\ s.cat = c /\ c \in Live
          /\ s.snap = tree[c]
          /\ \/ s.new.parent = tree[c].parent /\ s.new.level = tree[c].level
             \/ MayMove(u, c, s.new.parent) /\ s.new.level = LevelUnder(s.new.parent)
      BY <2>2, <3>1, UpdateRead
    <3>3. MayMove(u, c, s.new.parent) =>
            /\ Children(c) = {} /\ s.new.parent # c /\ s.new.parent \in Live \union {NoCat}
      BY DEF MayMove, OwnParent
    <3>4. RowsInv(s) /\ DragAt(s)
      BY <3>2, <3>3 DEF RowsInv, DragAt
    <3> QED
      BY <1>2, <3>1, <3>2, <3>4
  <2>3. ASSUME NEW s, sess' = [sess EXCEPT ![p] = s], UNCHANGED tree, s.rows = {},
               s.at # "update", s.at = "seed" => s.done = 0 /\ s.cat = NoCat
        PROVE  DragInv'
    <3>1. RowsInv(s) /\ DragAt(s)
      BY <2>3 DEF RowsInv, DragAt, SeedAt
    <3> QED
      BY <1>2, <2>3, <3>1
  <2>4. ASSUME NEW c \in Cats, DeleteLoad(p, u, c) PROVE DragInv'
    <3> DEFINE new == [Idle EXCEPT !.at = "delete", !.user = u, !.cat = c, !.doomed = Cascade({c})]
    <3>1. new.at = "delete" /\ new.rows = {}
      BY DEF Idle
    <3>2. sess' = [sess EXCEPT ![p] = new] /\ UNCHANGED tree
      BY <2>4 DEF DeleteLoad, Begin
    <3> HIDE DEF new
    <3> QED
      BY <2>3, <3>1, <3>2
  <2>5. ASSUME NEW g \in Groups \union {NoGroup}, SeedStart(p, u, g) PROVE DragInv'
    <3> DEFINE new == [Idle EXCEPT !.at = "seed", !.user = u, !.group = g]
    <3>1. new.at = "seed" /\ new.rows = {} /\ new.done = 0 /\ new.cat = NoCat
      BY DEF Idle
    <3>2. sess' = [sess EXCEPT ![p] = new] /\ UNCHANGED tree
      BY <2>5 DEF SeedStart, Begin
    <3> HIDE DEF new
    <3> QED
      BY <2>3, <3>1, <3>2
  <2>6. ASSUME NEW b \in Budgets, NEW c \in Cats, BudgetLoad(p, u, b, c) PROVE DragInv'
    <3> DEFINE new == [Idle EXCEPT !.at = "budget", !.user = u, !.budget = b, !.cat = RootOf(c)]
    <3>1. new.at = "budget" /\ new.rows = {}
      BY DEF Idle
    <3>2. sess' = [sess EXCEPT ![p] = new] /\ UNCHANGED tree
      BY <2>6 DEF BudgetLoad, Begin
    <3> HIDE DEF new
    <3> QED
      BY <2>3, <3>1, <3>2
  <2> QED
    BY <1>4, <2>1, <2>2, <2>4, <2>5, <2>6 DEF Request
<1> QED
  BY <1>3, <1>4 DEF Next

\* In every habit, when clients drag leaves only.
LevelInv == habit = "drag" => DragInv

\* An empty tree has its levels right.
LEMMA LevelStart == HabitInit => LevelInv
<1> SUFFICES ASSUME HabitInit PROVE LevelInv
  OBVIOUS
<1>1. Init /\ Live = {} /\ \A p \in Sessions : sess[p] = Idle
  BY TreeAssumption DEF HabitInit, Init, Live
<1> QED
  BY <1>1 DEF LevelInv, DragInv, LevelIsDepth, RowsInv, DragAt, Idle

\* A drag that moves leaves only keeps every level right.
LEMMA LevelStep ==
  ASSUME Moves \subseteq {"leaf"}
  PROVE  HabitInv /\ LevelInv /\ [HabitNext]_<<vars, habit>> => LevelInv'
<1> SUFFICES ASSUME HabitInv, LevelInv, [HabitNext]_<<vars, habit>> PROVE LevelInv'
  OBVIOUS
<1>1. CASE UNCHANGED <<vars, habit>>
  BY <1>1 DEF vars, LevelInv, DragInv, LevelIsDepth, RowsInv, DragAt, Hangs, SeedAt, Live,
              Children, LevelUnder
<1>2. CASE HabitNext
  <2>1. Next /\ habit' = habit /\ TypeInv
    BY <1>2 DEF HabitNext, HabitInv
  <2>2. habit = "drag" => \A p, q \in Sessions : p # q => sess[p] = Idle \/ sess[q] = Idle
    BY DEF HabitInv, Turn
  <2> QED
    BY <2>1, <2>2, DragStep DEF LevelInv
<1> QED
  BY <1>1, <1>2

\* Levels are depths in every habit.
LEMMA HabitLevels == HabitInv /\ LevelInv => TypeOK /\ LevelIsDepth
BY DEF HabitInv, LevelInv, DragInv, DepthInv, TypeInv

\* The level column is the depth, and every category rolls up to the main
\* category whose descendants it is among, where clients drag leaves one
\* request at a time, and where they overlap or share trees and drag nothing.
THEOREM LevelsKept ==
  ASSUME Moves \subseteq {"leaf"}
  PROVE  HabitSpec => [](LevelIsDepth /\ RollsUp)
<1>1. HabitInv /\ LevelInv => LevelIsDepth /\ RollsUp
  BY HabitLevels, RootAndBack DEF RollsUp
<1>2. HabitInv /\ LevelInv /\ [HabitNext]_<<vars, habit>> => LevelInv'
  BY LevelStep
<1> QED
  BY <1>1, <1>2, HabitStart, HabitStep, LevelStart, PTL DEF HabitSpec, HabitNext

\* What lists show of a user without family trees is what the trees show: below
\* a main category of a user there are that user's categories, and all of them.
LEMMA ListIsTree ==
  ASSUME TypeOK, LevelIsDepth, TreeKin, \A c \in Live : tree[c].group = NoGroup,
         NEW s \in Scopes
  PROVE  ListOf(s) = TreeOf(s)
<1> DEFINE Mains == {c \in ListOf(s) : tree[c].level = 0}
<1>1. NoCat \notin Live
  BY TreeAssumption DEF Live
<1>2. \A d \in Live : /\ d \in Cats /\ tree[d].level \in 0..2
                      /\ tree[d].parent \in Live \union {NoCat}
                      /\ tree[d].level = IF tree[d].parent = NoCat THEN 0
                                         ELSE tree[tree[d].parent].level + 1
  BY DEF LevelIsDepth, Live, Node, MAX_LEVEL
<1>3. \A d \in Live : tree[d].parent \in Live => tree[tree[d].parent].user = tree[d].user
  BY <1>1 DEF TreeKin
<1>4. CASE s.group # NoGroup
  <2>1. ListOf(s) = {}
    BY <1>4 DEF ListOf, InScope
  <2>2. ChildClosed({}) /\ {} \in SUBSET Live /\ {} \subseteq {}
    BY DEF ChildClosed
  <2>3. \A d \in Cascade({}) : d \in {}
    BY <2>2 DEF Cascade
  <2> QED
    <3>1. TreeOf(s) = Cascade({})
      <4>1. {c \in ListOf(s) : tree[c].level = 0} = {}
        BY <2>1
      <4> QED
        BY <4>1 DEF TreeOf
    <3> QED
      BY <2>1, <2>3, <3>1
<1>5. CASE s.group = NoGroup
  <2>1. \A d \in Live : d \in ListOf(s) <=> tree[d].user = s.user
    BY <1>5 DEF ListOf, InScope
  <2>2. ListOf(s) \subseteq Live /\ Mains \subseteq ListOf(s) /\ TreeOf(s) = Cascade(Mains)
    BY DEF ListOf, TreeOf
  <2> HIDE DEF Mains
  <2>3. ChildClosed(ListOf(s))
    BY <1>3, <2>1, <2>2 DEF ChildClosed
  <2>4. Cascade(Mains) \subseteq ListOf(s)
    BY <2>2, <2>3 DEF Cascade
  <2>5. \A c \in Mains : c \in Cascade(Mains)
    BY <2>2 DEF Cascade
  <2>6. \A c \in Live : tree[c].parent \in Cascade(Mains) => c \in Cascade(Mains)
    BY CascadeClosed
  <2>7. \A c \in ListOf(s) : tree[c].level = 0 => c \in Cascade(Mains)
    BY <2>5 DEF Mains
  <2>8. \A c \in ListOf(s) : tree[c].level # 0 =>
           tree[c].parent \in ListOf(s) /\ tree[tree[c].parent].level = tree[c].level - 1
    BY <1>1, <1>2, <1>3, <2>1, <2>2
  <2>9. \A c \in ListOf(s) : tree[c].level = 1 => c \in Cascade(Mains)
    BY <2>2, <2>6, <2>7, <2>8
  <2>10. \A c \in ListOf(s) : tree[c].level = 2 => c \in Cascade(Mains)
    BY <2>2, <2>6, <2>8, <2>9
  <2>11. \A c \in ListOf(s) : tree[c].level \in {0, 1, 2}
    BY <1>2, <2>2
  <2> QED
    BY <2>2, <2>4, <2>7, <2>9, <2>10, <2>11
<1> QED
  BY <1>4, <1>5

\* Where no family tree is shared, the flat list and the tree of a user show
\* the same categories, however requests overlap or leaves are dragged.
THEOREM ListMatchesUnshared ==
  ASSUME Moves \subseteq {"leaf"}
  PROVE  HabitSpec => []ListMatchesTreeUnshared
<1>1. HabitInv /\ LevelInv => ListMatchesTreeUnshared
  BY HabitLevels, ListIsTree DEF HabitInv, KinInv, Groupless, ListMatchesTreeUnshared, ListMatchesTree
<1>2. HabitInv /\ LevelInv /\ [HabitNext]_<<vars, habit>> => LevelInv'
  BY LevelStep
<1> QED
  BY <1>1, <1>2, HabitStart, HabitStep, LevelStart, PTL DEF HabitSpec, HabitNext

-----------------------------------------------------------------------------
(* Names of siblings, where trees are shared and requests come in turn *)

\* A family tree has one owner, the user it was seeded for.
OneOwner == \A c, d \in Live :
  tree[c].group # NoGroup /\ tree[c].group = tree[d].group => tree[c].user = tree[d].user
NamesDiffer == \A c, d \in Live :
  c # d /\ tree[c].user = tree[d].user /\ tree[c].group = tree[d].group
        /\ tree[c].parent = tree[d].parent => tree[c].name # tree[d].name
\* Whoever is at work has looked at the siblings of what it is about to write.
NamedAt(s) ==
  /\ s.group # NoGroup => \A c \in Live : tree[c].group # s.group
  /\ \A r \in s.rows : \A d \in Live :
       tree[d].user = r.node.user /\ tree[d].group = r.node.group
         /\ tree[d].parent = r.node.parent => tree[d].name # r.node.name
  /\ \A r, t \in s.rows : r.node.level = t.node.level => r = t
  /\ s.at = "seed" => \A r \in s.rows : r.node.level < s.done
  /\ s.at = "update" =>
       /\ s.cat \in Live /\ s.snap = tree[s.cat] /\ s.new.parent = s.snap.parent
       /\ s.new.name # s.snap.name => \A d \in Live \ {s.cat} :
            tree[d].user = tree[s.cat].user /\ tree[d].parent = tree[s.cat].parent
              => tree[d].name # s.new.name
NamesInv == OneOwner /\ NamesDiffer /\ \A p \in Sessions : NamedAt(sess[p])

\* A row to insert is checked against what is there, and two rows of one seed
\* are on different levels.
LEMMA NamesInsert ==
  ASSUME TypeInv, KinInv, NEW p \in Sessions, OneOwner, NamesDiffer, NamedAt(sess[p]),
         RowsInv(sess[p]), InsertCommit(p)
  PROVE  OneOwner' /\ NamesDiffer'
<1> DEFINE rows == sess[p].rows
<1>1. NewRows(sess[p]) /\ \A r \in rows : r.node.user = sess[p].user /\ r.node.group = sess[p].group
  BY DEF KinInv, KinAt
<1>2. \/ tree' = tree
      \/ /\ ParentsExist(p)
         /\ \A r \in rows : r.id \in Cats /\ r.node \in Node /\ tree'[r.id] = r.node
         /\ \A c \in Cats : c \notin IdsOf(p) => tree'[c] = tree[c]
  BY <1>1, Inserted DEF NewRows
<1>3. CASE tree' = tree
  BY <1>3 DEF OneOwner, NamesDiffer, Live
<1>4. CASE /\ ParentsExist(p)
           /\ \A r \in rows : r.id \in Cats /\ r.node \in Node /\ tree'[r.id] = r.node
           /\ \A c \in Cats : c \notin IdsOf(p) => tree'[c] = tree[c]
  <2>1. \A c \in Live' : \/ c \in Live /\ tree'[c] = tree[c]
                         \/ \E r \in rows : r.id = c /\ tree'[c] = r.node
    BY <1>4 DEF Live, IdsOf
  <2>2. ASSUME NEW r \in rows, NEW t \in rows, r # t PROVE r.node.parent # t.node.parent
    <3>0. /\ \A x \in rows : x.id \in Cats /\ tree[x.id] = Unborn
          /\ \A x, y \in rows : x.id = y.id => x = y
      BY <1>1 DEF NewRows
    <3>1. SUFFICES ASSUME r.node.parent = t.node.parent PROVE FALSE
      OBVIOUS
    <3>2. PICK c : c = r.node.parent /\ c = t.node.parent
      BY <3>1
    <3>3. c \in Live \union IdsOf(p) \union {NoCat}
      BY <1>4, <3>2 DEF ParentsExist
    <3>4. Hangs(rows, r.node) /\ Hangs(rows, t.node)
      BY DEF RowsInv
    <3>5. CASE c = NoCat
      <4>1. \A x \in rows : x.id # NoCat
        BY <3>0, TreeAssumption
      <4>2. r.node.level = 0 /\ t.node.level = 0
        BY <3>2, <3>4, <3>5, <4>1, TreeAssumption DEF Hangs
      <4> QED
        BY <2>2, <4>2 DEF NamedAt
    <3>6. CASE c \in Live
      <4>1. \A x \in rows : x.id # c
        BY <3>0, <3>6, TreeAssumption DEF Live
      <4>2. c # NoCat
        BY <3>6, TreeAssumption DEF Live
      <4>3. r.node.level = tree[c].level + 1 /\ t.node.level = tree[c].level + 1
        BY <3>2, <3>4, <3>6, <4>1, <4>2 DEF Hangs
      <4> QED
        BY <2>2, <4>3 DEF NamedAt
    <3>7. CASE c \in IdsOf(p)
      <4>1. PICK x \in rows : x.id = c
        BY <3>7 DEF IdsOf
      <4>2. c # NoCat /\ tree[c] = Unborn
        BY <3>0, <4>1, TreeAssumption
      <4>3. r.node.level = x.node.level + 1 /\ t.node.level = x.node.level + 1
        BY <3>0, <3>2, <3>4, <4>1, <4>2 DEF Hangs
      <4> QED
        BY <2>2, <4>3 DEF NamedAt
    <3> QED
      BY <3>3, <3>5, <3>6, <3>7
  <2>3. \A r \in rows : \A d \in Live :
         tree[d].user = r.node.user /\ tree[d].group = r.node.group
           /\ tree[d].parent = r.node.parent => tree[d].name # r.node.name
    BY DEF NamedAt
  <2>4. ASSUME NEW c \in Live', NEW d \in Live', c # d, tree'[c].user = tree'[d].user,
               tree'[c].group = tree'[d].group, tree'[c].parent = tree'[d].parent
        PROVE  tree'[c].name # tree'[d].name
    <3>1. CASE c \in Live /\ tree'[c] = tree[c] /\ d \in Live /\ tree'[d] = tree[d]
      BY <2>4, <3>1 DEF NamesDiffer
    <3>2. CASE c \in Live /\ tree'[c] = tree[c] /\ \E r \in rows : r.id = d /\ tree'[d] = r.node
      BY <2>3, <2>4, <3>2
    <3>3. CASE d \in Live /\ tree'[d] = tree[d] /\ \E r \in rows : r.id = c /\ tree'[c] = r.node
      BY <2>3, <2>4, <3>3
    <3>4. CASE /\ \E r \in rows : r.id = c /\ tree'[c] = r.node
               /\ \E r \in rows : r.id = d /\ tree'[d] = r.node
      BY <2>2, <2>4, <3>4
    <3> QED
      BY <2>1, <3>1, <3>2, <3>3, <3>4
  <2>5. ASSUME NEW c \in Live', NEW d \in Live', tree'[c].group # NoGroup,
               tree'[c].group = tree'[d].group
        PROVE  tree'[c].user = tree'[d].user
    <3>1. CASE c \in Live /\ tree'[c] = tree[c] /\ d \in Live /\ tree'[d] = tree[d]
      BY <2>5, <3>1 DEF OneOwner
    <3>2. CASE c \in Live /\ tree'[c] = tree[c] /\ \E r \in rows : r.id = d /\ tree'[d] = r.node
      BY <1>1, <2>5, <3>2 DEF NamedAt
    <3>3. CASE d \in Live /\ tree'[d] = tree[d] /\ \E r \in rows : r.id = c /\ tree'[c] = r.node
      BY <1>1, <2>5, <3>3 DEF NamedAt
    <3>4. CASE /\ \E r \in rows : r.id = c /\ tree'[c] = r.node
               /\ \E r \in rows : r.id = d /\ tree'[d] = r.node
      BY <1>1, <3>4
    <3> QED
      BY <2>1, <3>1, <3>2, <3>3, <3>4
  <2> QED
    BY <2>4, <2>5 DEF OneOwner, NamesDiffer
<1> QED
  BY <1>2, <1>3, <1>4

\* A rename is checked against the siblings it is renamed among.
LEMMA NamesUpdate ==
  ASSUME TypeInv, NEW p \in Sessions, OneOwner, NamesDiffer, NamedAt(sess[p]), UpdateCommit(p)
  PROVE  OneOwner' /\ NamesDiffer'
<1>1. PICK c, snap, new : c = sess[p].cat /\ snap = sess[p].snap /\ new = sess[p].new
  OBVIOUS
<1>2. /\ c \in Live /\ snap = tree[c] /\ new.parent = snap.parent
      /\ new.name # snap.name => \A d \in Live \ {c} :
            tree[d].user = tree[c].user /\ tree[d].parent = tree[c].parent
              => tree[d].name # new.name
  BY <1>1 DEF UpdateCommit, NamedAt
<1>3. \/ tree' = tree
      \/ /\ tree'[c] \in Node
         /\ tree'[c].user = tree[c].user /\ tree'[c].group = tree[c].group
         /\ tree'[c].parent = Net(tree[c].parent, snap.parent, new.parent)
         /\ tree'[c].name = Net(tree[c].name, snap.name, new.name)
         /\ \A d \in Cats : d # c => tree'[d] = tree[d]
  BY <1>1, Updated
<1>4. CASE tree' = tree
  BY <1>4 DEF OneOwner, NamesDiffer, Live
<1>5. CASE /\ tree'[c] \in Node
           /\ tree'[c].user = tree[c].user /\ tree'[c].group = tree[c].group
           /\ tree'[c].parent = Net(tree[c].parent, snap.parent, new.parent)
           /\ tree'[c].name = Net(tree[c].name, snap.name, new.name)
           /\ \A d \in Cats : d # c => tree'[d] = tree[d]
  <2>1. tree'[c].parent = tree[c].parent /\ tree'[c].name = new.name
    BY <1>2, <1>5 DEF Net
  <2>2. Live' = Live
    BY <1>2, <1>5 DEF Live
  <2>3. \A d \in Live : /\ d # c => tree'[d] = tree[d]
                        /\ tree'[d].user = tree[d].user /\ tree'[d].group = tree[d].group
                        /\ tree'[d].parent = tree[d].parent
    BY <1>5, <2>1 DEF Live
  <2>4. OneOwner'
    BY <2>2, <2>3 DEF OneOwner
  <2>5. ASSUME NEW d \in Live, d # c, tree[d].user = tree[c].user, tree[d].group = tree[c].group,
               tree[d].parent = tree[c].parent
        PROVE  tree[d].name # new.name
    BY <1>2, <2>5 DEF NamesDiffer
  <2>6. ASSUME NEW e \in Live, NEW d \in Live, e # d, tree[e].user = tree[d].user,
               tree[e].group = tree[d].group, tree[e].parent = tree[d].parent
        PROVE  tree'[e].name # tree'[d].name
    <3>1. CASE e = c
      BY <2>1, <2>3, <2>5, <2>6, <3>1
    <3>2. CASE d = c
      BY <2>1, <2>3, <2>5, <2>6, <3>2
    <3>3. CASE e # c /\ d # c
      BY <2>3, <2>6, <3>3 DEF NamesDiffer
    <3> QED
      BY <3>1, <3>2, <3>3
  <2>7. NamesDiffer'
    BY <2>2, <2>3, <2>6 DEF NamesDiffer
  <2> QED
    BY <2>4, <2>7
<1> QED
  BY <1>3, <1>4, <1>5

\* What a step of the seed adds was not found among its siblings.
LEMMA NamesSeed ==
  ASSUME TypeInv, KinInv, SeedAlone, NEW p \in Sessions, NamedAt(sess[p]), SeedNode(p)
  PROVE  NamedAt(sess'[p])
<1>1. PICK old, new : old = sess[p] /\ new = sess'[p]
  OBVIOUS
<1>2. /\ old.at = "seed" /\ new.at \in {"insert", "seed"}
      /\ new.user = old.user /\ new.group = old.group
      /\ old.done \in Nat /\ new.done = old.done + 1
  BY <1>1, Seeded
<1>3. /\ old.group # NoGroup => \A c \in Live : tree[c].group # old.group
      /\ \A r \in old.rows : \A d \in Live :
           tree[d].user = r.node.user /\ tree[d].group = r.node.group
             /\ tree[d].parent = r.node.parent => tree[d].name # r.node.name
      /\ \A r, t \in old.rows : r.node.level = t.node.level => r = t
      /\ \A r \in old.rows : r.node.level < old.done
  BY <1>1, <1>2 DEF NamedAt
<1>4. \A r \in old.rows : r.node.level \in Nat
  BY <1>1 DEF TypeInv, TypeOK, Node, MAX_LEVEL
<1>5. CASE new.rows = old.rows
  <2>1. \A r \in new.rows : r.node.level < new.done
    BY <1>2, <1>3, <1>4, <1>5
  <2> QED
    BY <1>1, <1>2, <1>3, <1>5, <2>1 DEF NamedAt
<1>6. CASE /\ Found(p, DefaultPath[old.done + 1]) = {}
           /\ new.rows = old.rows \union
                {[id |-> new.cat, node |->
                   [user |-> old.user, group |-> old.group, parent |-> old.cat,
                    name |-> DefaultPath[old.done + 1], level |-> old.done]]}
  <2> DEFINE row == [id |-> new.cat, node |->
                      [user |-> old.user, group |-> old.group, parent |-> old.cat,
                       name |-> DefaultPath[old.done + 1], level |-> old.done]]
  <2>1. /\ new.rows = old.rows \union {row} /\ row.node.user = old.user
        /\ row.node.group = old.group /\ row.node.parent = old.cat
        /\ row.node.name = DefaultPath[old.done + 1] /\ row.node.level = old.done
    BY <1>6
  <2> HIDE DEF row
  <2>2. \A d \in Live :
          InScope(tree[d], [user |-> old.user, group |-> old.group])
            /\ tree[d].parent = old.cat => tree[d].name # row.node.name
    BY <1>1, <1>6, <2>1 DEF Found
  <2>3. \A d \in Live :
          tree[d].user = row.node.user /\ tree[d].group = row.node.group
            /\ tree[d].parent = row.node.parent => tree[d].name # row.node.name
    BY <2>1, <2>2 DEF InScope
  <2>4. \A r \in new.rows : r.node.level < new.done
    BY <1>2, <1>3, <1>4, <2>1
  <2>5. \A r, t \in new.rows : r.node.level = t.node.level => r = t
    BY <1>2, <1>3, <1>4, <2>1
  <2>6. \A r \in new.rows : \A d \in Live :
           tree[d].user = r.node.user /\ tree[d].group = r.node.group
             /\ tree[d].parent = r.node.parent => tree[d].name # r.node.name
    BY <1>3, <2>1, <2>3
  <2> QED
    BY <1>1, <1>2, <1>3, <2>4, <2>5, <2>6 DEF NamedAt
<1> QED
  BY <1>1, <1>5, <1>6, Seeded

\* Siblings keep different names while requests come in turn and nobody drags.
LEMMA NamesStep ==
  ASSUME TypeInv, KinInv, DepthInv, SeedAlone, NamesInv, Undragged, Next,
         \A p, q \in Sessions : p # q => sess[p] = Idle \/ sess[q] = Idle
  PROVE  NamesInv'
<1>0. OneOwner /\ NamesDiffer /\ \A p \in Sessions : NamedAt(sess[p]) /\ RowsInv(sess[p])
  BY DEF NamesInv, DepthInv, SessionInv
<1>1. ASSUME NEW p \in Sessions, Finish(p), sess[p].at # "idle", OneOwner', NamesDiffer'
      PROVE  NamesInv'
  <2>1. sess[p] # Idle
    BY <1>1 DEF Idle
  <2>2. \A q \in Sessions : sess'[q] = Idle
    BY <1>1, <2>1 DEF Finish, TypeInv, TypeOK
  <2>3. \A q \in Sessions : NamedAt(sess[q])'
    BY <2>2 DEF NamedAt, Idle
  <2> QED
    BY <1>1, <2>3 DEF NamesInv
<1>2. ASSUME NEW p \in Sessions, NEW s, sess' = [sess EXCEPT ![p] = s], UNCHANGED tree, NamedAt(s)
      PROVE  NamesInv'
  <2>1. OneOwner' /\ NamesDiffer'
    BY <1>0, <1>2 DEF OneOwner, NamesDiffer, Live
  <2>2. ASSUME NEW q \in Sessions PROVE NamedAt(sess[q])'
    <3>1. PICK t : t = sess'[q] /\ NamedAt(t)
      BY <1>0, <1>2 DEF TypeInv, TypeOK
    <3> QED
      BY <1>2, <3>1 DEF NamedAt, Live
  <2> QED
    BY <2>1, <2>2 DEF NamesInv
<1>3. ASSUME NEW p \in Sessions, Continue(p) PROVE NamesInv'
  <2>1. CASE InsertCommit(p)
    BY <1>0, <1>1, <2>1, NamesInsert DEF InsertCommit
  <2>2. CASE UpdateCommit(p)
    BY <1>0, <1>1, <2>2, NamesUpdate DEF UpdateCommit
  <2>3. CASE DeleteCommit(p)
    <3>1. \A c \in Live' : c \in Live /\ tree'[c] = tree[c]
      BY <2>3, Deleted, TreeAssumption DEF Live
    <3>2. OneOwner' /\ NamesDiffer'
      BY <1>0, <3>1 DEF OneOwner, NamesDiffer
    <3> QED
      BY <1>1, <2>3, <3>2 DEF DeleteCommit
  <2>4. CASE BudgetCommit(p)
    <3>1. OneOwner' /\ NamesDiffer' /\ Finish(p) /\ sess[p].at # "idle"
      BY <1>0, <2>4 DEF BudgetCommit, OneOwner, NamesDiffer, Live
    <3> QED
      BY <1>1, <3>1
  <2>5. CASE SeedNode(p)
    <3>1. PICK s : s = sess'[p] /\ sess' = [sess EXCEPT ![p] = s]
      BY <2>5, Seeded
    <3>2. UNCHANGED tree /\ NamedAt(s)
      BY <1>0, <2>5, <3>1, Seeded, NamesSeed
    <3> QED
      BY <1>2, <3>1, <3>2
  <2> QED
    BY <1>3, <2>1, <2>2, <2>3, <2>4, <2>5 DEF Continue
<1>4. ASSUME NEW p \in Sessions, NEW u \in Users, Request(p, u) PROVE NamesInv'
  <2>1. ASSUME NEW parent \in Cats \union {NoCat}, NEW name \in Names, CreateLoad(p, u, parent, name)
        PROVE  NamesInv'
    <3>1. PICK s : s = sess'[p] /\ sess' = [sess EXCEPT ![p] = s]
      BY <2>1, Created
    <3>2. UNCHANGED tree /\ s.at = "insert" /\ s.user = u /\ s.group = NoGroup
      BY <2>1, <3>1, Created
    <3>3. PICK c \in Fresh : s.rows =
            {[id |-> c, node |-> [user |-> u, group |-> NoGroup, parent |-> parent,
                                  name |-> name, level |-> LevelUnder(parent)]]}
      BY <2>1, <3>1, Created
    <3>4. \A r \in s.rows : r.node.user = u /\ r.node.parent = parent /\ r.node.name = name
      BY <3>3
    <3>5. \A r, t \in s.rows : r = t
      BY <3>3
    <3>6. \A d \in Live : tree[d].user = u /\ tree[d].parent = parent => tree[d].name # name
      BY <2>1 DEF CreateLoad, SiblingNamed
    <3>7. NamedAt(s)
      BY <3>2, <3>4, <3>5, <3>6 DEF NamedAt
    <3> QED
      BY <1>2, <3>1, <3>2, <3>7
  <2>2. ASSUME NEW c \in Cats, UpdateLoad(p, u, c) PROVE NamesInv'
    <3>1. PICK s : s = sess'[p] /\ sess' = [sess EXCEPT ![p] = s]
      BY <2>2, UpdateRead
    <3>2. /\ UNCHANGED tree /\ s.at = "update" /\ s.rows = {} /\ s.cat = c /\ c \in Live
          /\ s.snap = tree[c] /\ tree[c].user = u /\ s.group = NoGroup
          /\ s.new.parent = s.snap.parent
          /\ s.new.name = tree[c].name \/ SiblingNamed(u, s.new.parent, s.new.name) \ {c} = {}
      BY <2>2, <3>1, UpdateRead DEF Undragged
    <3>3. s.new.name # s.snap.name => \A d \in Live \ {s.cat} :
            tree[d].user = tree[s.cat].user /\ tree[d].parent = tree[s.cat].parent
              => tree[d].name # s.new.name
      BY <3>2 DEF SiblingNamed
    <3>4. NamedAt(s)
      BY <3>2, <3>3 DEF NamedAt
    <3> QED
      BY <1>2, <3>1, <3>2, <3>4
  <2>3. ASSUME NEW s, sess' = [sess EXCEPT ![p] = s], UNCHANGED tree, s.rows = {},
               s.at # "update", s.group # NoGroup => \A c \in Live : tree[c].group # s.group
        PROVE  NamesInv'
    <3>1. NamedAt(s)
      BY <2>3 DEF NamedAt
    <3> QED
      BY <1>2, <2>3, <3>1
  <2>4. ASSUME NEW c \in Cats, DeleteLoad(p, u, c) PROVE NamesInv'
    <3> DEFINE new == [Idle EXCEPT !.at = "delete", !.user = u, !.cat = c, !.doomed = Cascade({c})]
    <3>1. new.at = "delete" /\ new.rows = {} /\ new.group = NoGroup
      BY DEF Idle
    <3>2. sess' = [sess EXCEPT ![p] = new] /\ UNCHANGED tree
      BY <2>4 DEF DeleteLoad, Begin
    <3> HIDE DEF new
    <3> QED
      BY <2>3, <3>1, <3>2
  <2>5. ASSUME NEW g \in Groups \union {NoGroup}, SeedStart(p, u, g) PROVE NamesInv'
    <3> DEFINE new == [Idle EXCEPT !.at = "seed", !.user = u, !.group = g]
    <3>1. new.at = "seed" /\ new.rows = {} /\ new.group = g
      BY DEF Idle
    <3>2. /\ sess' = [sess EXCEPT ![p] = new] /\ UNCHANGED tree
          /\ g # NoGroup => \A c \in Live : tree[c].group # g
      BY <2>5 DEF SeedStart, Begin
    <3> HIDE DEF new
    <3> QED
      BY <2>3, <3>1, <3>2
  <2>6. ASSUME NEW b \in Budgets, NEW c \in Cats, BudgetLoad(p, u, b, c) PROVE NamesInv'
    <3> DEFINE new == [Idle EXCEPT !.at = "budget", !.user = u, !.budget = b, !.cat = RootOf(c)]
    <3>1. new.at = "budget" /\ new.rows = {} /\ new.group = NoGroup
      BY DEF Idle
    <3>2. sess' = [sess EXCEPT ![p] = new] /\ UNCHANGED tree
      BY <2>6 DEF BudgetLoad, Begin
    <3> HIDE DEF new
    <3> QED
      BY <2>3, <3>1, <3>2
  <2> QED
    BY <1>4, <2>1, <2>2, <2>4, <2>5, <2>6 DEF Request
<1> QED
  BY <1>3, <1>4 DEF Next

SharedInv == habit = "share" => NamesInv

\* An empty tree has no double names.
LEMMA SharedStart == HabitInit => SharedInv
<1> SUFFICES ASSUME HabitInit PROVE SharedInv
  OBVIOUS
<1>1. Init /\ Live = {} /\ \A p \in Sessions : sess[p] = Idle
  BY TreeAssumption DEF HabitInit, Init, Live
<1> QED
  BY <1>1 DEF SharedInv, NamesInv, OneOwner, NamesDiffer, NamedAt, Idle

\* Requests that come one at a time make no double names.
LEMMA SharedStep == HabitInv /\ SharedInv /\ [HabitNext]_<<vars, habit>> => SharedInv'
<1> SUFFICES ASSUME HabitInv, SharedInv, [HabitNext]_<<vars, habit>> PROVE SharedInv'
  OBVIOUS
<1>1. CASE UNCHANGED <<vars, habit>>
  BY <1>1 DEF vars, SharedInv, NamesInv, OneOwner, NamesDiffer, NamedAt, Live
<1>2. CASE HabitNext
  <2>1. Next /\ habit' = habit /\ TypeInv /\ KinInv /\ SeedAlone /\ (habit # "drag" => DepthInv)
    BY <1>2 DEF HabitNext, HabitInv
  <2>2. habit = "share" => \A p, q \in Sessions : p # q => sess[p] = Idle \/ sess[q] = Idle
    BY DEF HabitInv, Turn
  <2>3. habit = "share" => Undragged
    BY <1>2, <2>1, UpdateRead DEF HabitNext, Within, Undragged
  <2> QED
    BY <2>1, <2>2, <2>3, NamesStep DEF SharedInv
<1> QED
  BY <1>1, <1>2

\* Where users share family trees, and requests come one at a time and drag
\* nothing, siblings of one scope have different names: create and rename look
\* among all the user's siblings, the seed among those of its scope, and a
\* family tree is seeded once, for one user.
THEOREM SiblingsDifferInTurn == HabitSpec => []SiblingsDifferShared
<1>1. HabitInv /\ SharedInv => SiblingsDifferShared
  BY DEF SharedInv, NamesInv, OneOwner, NamesDiffer, SiblingsDifferShared, SiblingsDiffer,
         ListOf, InScope, Scopes
<1> QED
  BY <1>1, HabitStart, HabitStep, SharedStart, SharedStep, PTL DEF HabitSpec, HabitNext

=============================================================================
