---------------------------- MODULE CategoryTree ----------------------------
(***************************************************************************)
(* The category tree: CategoryService (api/v1/categories/service.py), the  *)
(* default tree it is seeded with (default_tree.py) and the budgets that   *)
(* are set on its main categories (budgets/service.py).                    *)
(*                                                                         *)
(* The tree is an adjacency list: each row stores its parent and its level *)
(* (0 main, 1 sub, 2 leaf).  A request loads and checks, then commits; any *)
(* other request may commit in between.  Foreign keys are the only checks  *)
(* made at commit.                                                         *)
(***************************************************************************)
EXTENDS Naturals, Sequences

CONSTANTS
  Cats,             \* category ids; an id (a UUID) is never used twice
  Users, Groups, Names, Budgets,
  FamilyOf,         \* the family group of each user, or NoGroup
  BudgetOwner,      \* the user each budget belongs to
  DefaultPath,      \* one root-to-leaf path of names of DEFAULT_TREE
  Sessions,         \* API threads
  Moves,            \* what clients drag: "leaf", "branch" (it has children)
  NoCat, NoGroup, NoUser, NoBudget, Unborn, Gone

MAX_LEVEL == 2
Node == [user : Users, group : Groups \union {NoGroup},
         parent : Cats \union {NoCat}, name : Names, level : 0..MAX_LEVEL]
NoNode == [user |-> NoUser, group |-> NoGroup, parent |-> NoCat, level |-> 0]

ASSUME TreeAssumption ==
  /\ NoCat \notin Cats /\ NoGroup \notin Groups /\ NoUser \notin Users
  /\ NoBudget \notin Budgets
  /\ Unborn \notin Node /\ Gone \notin Node /\ Unborn # Gone
  /\ FamilyOf \in [Users -> Groups \union {NoGroup}]
  /\ BudgetOwner \in [Budgets -> Users]
  /\ DefaultPath \in Seq(Names) /\ Len(DefaultPath) \in 1..(MAX_LEVEL + 1)
  /\ Moves \subseteq {"leaf", "branch"}

VARIABLES
  tree,      \* categories: a row per id, Unborn before and Gone after it
  budgetOn,  \* budgets.category_id
  sess       \* what each session is doing
vars == <<tree, budgetOn, sess>>

-----------------------------------------------------------------------------
(* The tree *)

Live == {c \in Cats : tree[c] \in Node}
Children(c) == {d \in Live : tree[d].parent = c}

\* get_root_id: at most MAX_LEVEL + 1 hops up the parent chain.
Up(c)     == IF tree[c].parent \in Live THEN tree[c].parent ELSE c
RootOneHop(c) == Up(c)                \* mutant
RootOf(c) == Up(Up(Up(c)))

ChildrenIds(c) == {c} \union Children(c)     \* mutant
\* get_descendant_ids: the category, its children and its grandchildren.
DescendantIds(c) ==
  {c} \union Children(c) \union UNION {Children(d) : d \in Children(c)}

\* What ON DELETE CASCADE reaches from S: the least set closed under children.
ChildClosed(S) == \A d \in Live : tree[d].parent \in S => d \in S
Cascade(S) ==
  {d \in Live : \A T \in SUBSET Live : S \subseteq T /\ ChildClosed(T) => d \in T}

\* A scope is a family group's shared tree, or one user's personal tree.
Scopes == [user : Users, group : Groups \union {NoGroup}]
InScope(n, s) == IF s.group # NoGroup THEN n.group = s.group
                 ELSE n.user = s.user /\ n.group = NoGroup

\* list, and list_tree: the level-0 rows of the scope with all that is below.
ListOf(s) == {c \in Live : InScope(tree[c], s)}
TreeOf(s) == Cascade({c \in ListOf(s) : tree[c].level = 0})

-----------------------------------------------------------------------------
(* Sessions *)

Idle == [at |-> "idle", user |-> NoUser, cat |-> NoCat, snap |-> NoNode,
         new |-> NoNode, rows |-> {}, done |-> 0, group |-> NoGroup, doomed |-> {},
         budget |-> NoBudget]
Begin(p, s) == sess[p].at = "idle" /\ sess' = [sess EXCEPT ![p] = s]
Finish(p)   == sess' = [sess EXCEPT ![p] = Idle]

\* Rows a session has added and not committed.
IdsOf(p) == {r.id : r \in sess[p].rows}
Fresh    == {c \in Cats : tree[c] = Unborn /\ \A p \in Sessions : c \notin IdsOf(p)}

\* INSERT: every parent must exist (foreign key), or nothing is written.
ParentsExist(p) ==
  \A r \in sess[p].rows : r.node.parent \in Live \union IdsOf(p) \union {NoCat}
InsertCommit(p) ==
  /\ sess[p].at = "insert"
  /\ tree' = IF ~ParentsExist(p) THEN tree
             ELSE [c \in Cats |-> IF c \in IdsOf(p)
                     THEN (CHOOSE r \in sess[p].rows : r.id = c).node ELSE tree[c]]
  /\ Finish(p)
  /\ UNCHANGED budgetOn

-----------------------------------------------------------------------------
(* Create, update, delete *)

SiblingNamed(u, parent, name) ==
  {d \in Live : tree[d].user = u /\ tree[d].parent = parent /\ tree[d].name = name}

LevelUnder(parent) == IF parent = NoCat THEN 0 ELSE tree[parent].level + 1

Fits(level) == level <= MAX_LEVEL

AnyParent(u, parent) == parent # NoCat => parent \in Live     \* mutant
OwnParent(u, parent) == parent # NoCat => parent \in Live /\ tree[parent].user = u

\* The new row has no family_group_id, whatever its parent has.
CreateLoad(p, u, parent, name) ==
  /\ OwnParent(u, parent) /\ Fits(LevelUnder(parent))
  /\ SiblingNamed(u, parent, name) = {}
  /\ \E c \in Fresh :
       Begin(p, [Idle EXCEPT !.at = "insert", !.user = u,
         !.rows = {[id |-> c, node |-> [user |-> u, group |-> NoGroup, parent |-> parent,
                                        name |-> name, level |-> LevelUnder(parent)]]}])
  /\ UNCHANGED <<tree, budgetOn>>

\* Drag-drop: under a parent of the same user, or back to the top level.
MayMove(u, c, parent) ==
  /\ (IF Children(c) = {} THEN "leaf" ELSE "branch") \in Moves
  /\ OwnParent(u, parent) /\ parent # c
  /\ parent # NoCat => tree[parent].level < MAX_LEVEL
MovedKeepingLevel(c, parent) == [tree[c] EXCEPT !.parent = parent]     \* mutant
MovedTo(c, parent) == [tree[c] EXCEPT !.parent = parent, !.level = LevelUnder(parent)]

UpdateStart(p, u, c, new) ==
  Begin(p, [Idle EXCEPT !.at = "update", !.user = u, !.cat = c,
                        !.snap = tree[c], !.new = new])
\* The name is checked among the new siblings only when the request sends one.
UpdateLoad(p, u, c) ==
  /\ c \in Live /\ tree[c].user = u
  /\ \E moved \in {tree[c]} \union
                  {MovedTo(c, parent) : parent \in {x \in Cats \union {NoCat} : MayMove(u, c, x)}} :
       \/ UpdateStart(p, u, c, moved)
       \/ \E name \in Names : /\ SiblingNamed(u, moved.parent, name) \ {c} = {}
                              /\ UpdateStart(p, u, c, [moved EXCEPT !.name = name])
  /\ UNCHANGED <<tree, budgetOn>>

\* UPDATE writes the attributes that differ from the loaded row; a row or a new
\* parent that has gone meanwhile fails the request.
Net(cur, loaded, new) == IF new = loaded THEN cur ELSE new
UpdateCommit(p) ==
  LET c == sess[p].cat   snap == sess[p].snap   new == sess[p].new
      ok == c \in Live /\ (new.parent # snap.parent => new.parent \in Live \union {NoCat})
  IN  /\ sess[p].at = "update"
      /\ tree' = IF ~ok THEN tree
                 ELSE [tree EXCEPT ![c].parent = Net(@, snap.parent, new.parent),
                                   ![c].name   = Net(@, snap.name, new.name),
                                   ![c].level  = Net(@, snap.level, new.level)]
      /\ Finish(p)
      /\ UNCHANGED budgetOn

\* The ORM deletes the children it loaded, the database what hangs below by
\* then.  A category that is its own ancestor cannot be deleted: the unit of
\* work finds no order for the rows.
OnCycle(c) == c \in Cascade(Children(c))
DeleteLoad(p, u, c) ==
  /\ c \in Live /\ tree[c].user = u /\ ~OnCycle(c)
  /\ Begin(p, [Idle EXCEPT !.at = "delete", !.user = u, !.cat = c, !.doomed = Cascade({c})])
  /\ UNCHANGED <<tree, budgetOn>>

Removed(p) == Cascade(sess[p].doomed \intersect Live)
DeleteCommit(p) ==
  /\ sess[p].at = "delete"
  /\ tree' = [c \in Cats |-> IF c \in Removed(p) THEN Gone ELSE tree[c]]
  /\ budgetOn' = [b \in Budgets |-> IF budgetOn[b] \in Removed(p) THEN NoCat ELSE budgetOn[b]]
  /\ Finish(p)

-----------------------------------------------------------------------------
(* Seeding the default tree, one find-or-create at a time *)

SeedStart(p, u, g) ==
  /\ g # NoGroup => g = FamilyOf[u] /\ \A c \in Live : tree[c].group # g
  /\ Begin(p, [Idle EXCEPT !.at = "seed", !.user = u, !.group = g])
  /\ UNCHANGED <<tree, budgetOn>>

FoundNothing(p, name) == {}          \* mutant: seeds without looking
\* What find_or_create finds: the named child of the node it found or made last.
Found(p, name) ==
  {c \in Live : /\ InScope(tree[c], [user |-> sess[p].user, group |-> sess[p].group])
                /\ tree[c].name = name /\ tree[c].parent = sess[p].cat}

SeedNode(p) ==
  LET k    == sess[p].done + 1
      name == DefaultPath[k]
      to   == IF k = Len(DefaultPath) THEN "insert" ELSE "seed"
  IN  /\ sess[p].at = "seed"
      /\ \/ \E c \in Found(p, name) :
              sess' = [sess EXCEPT ![p].at = to, ![p].done = k, ![p].cat = c]
         \/ /\ Found(p, name) = {}
            /\ \E c \in Fresh :
                 sess' = [sess EXCEPT ![p].at = to, ![p].done = k, ![p].cat = c,
                   ![p].rows = @ \union {[id |-> c, node |->
                     [user |-> sess[p].user, group |-> sess[p].group,
                      parent |-> sess[p].cat, name |-> name, level |-> k - 1]]}]
      /\ UNCHANGED <<tree, budgetOn>>

-----------------------------------------------------------------------------
(* Budgets: set on the main category of whatever category is asked for *)

BudgetLoad(p, u, b, c) ==
  /\ BudgetOwner[b] = u
  /\ c \in Live /\ (tree[c].group = NoGroup => tree[c].user = u)
  /\ Begin(p, [Idle EXCEPT !.at = "budget", !.user = u, !.budget = b, !.cat = RootOf(c)])
  /\ UNCHANGED <<tree, budgetOn>>

BudgetCommit(p) ==
  /\ sess[p].at = "budget"
  /\ budgetOn' = IF sess[p].cat \in Live
                 THEN [budgetOn EXCEPT ![sess[p].budget] = sess[p].cat] ELSE budgetOn
  /\ Finish(p)
  /\ UNCHANGED tree

-----------------------------------------------------------------------------
Init == /\ tree = [c \in Cats |-> Unborn]
        /\ budgetOn = [b \in Budgets |-> NoCat]
        /\ sess = [p \in Sessions |-> Idle]

Request(p, u) ==
  \/ \E parent \in Cats \union {NoCat}, name \in Names : CreateLoad(p, u, parent, name)
  \/ \E c \in Cats : UpdateLoad(p, u, c) \/ DeleteLoad(p, u, c)
  \/ \E g \in Groups \union {NoGroup} : SeedStart(p, u, g)
  \/ \E b \in Budgets, c \in Cats : BudgetLoad(p, u, b, c)
Continue(p) == \/ InsertCommit(p) \/ UpdateCommit(p) \/ DeleteCommit(p)
               \/ SeedNode(p) \/ BudgetCommit(p)
Next == \E p \in Sessions : Continue(p) \/ \E u \in Users : Request(p, u)
Spec == Init /\ [][Next]_vars

-----------------------------------------------------------------------------
(* Properties *)

Places  == {"idle", "insert", "update", "delete", "seed", "budget"}
\* Rows are well formed, whatever is committed over them: no level column holds
\* more than MAX_LEVEL.
TypeOK ==
  /\ tree \in [Cats -> Node \union {Unborn, Gone}]
  /\ budgetOn \in [Budgets -> Cats \union {NoCat}]
  /\ DOMAIN sess = Sessions
  /\ \A p \in Sessions :
       /\ sess[p].at \in Places /\ sess[p].user \in Users \union {NoUser}
       /\ sess[p].cat \in Cats \union {NoCat} /\ sess[p].doomed \subseteq Cats
       /\ \A r \in sess[p].rows : r.id \in Cats /\ r.node \in Node
       /\ sess[p].budget \in Budgets \union {NoBudget}

\* The level column is the depth in the tree (models/category.py: 0 root,
\* 1 sub-parent, 2 child), so there are three levels at most and no cycle.
LevelIsDepth ==
  \A c \in Live :
    /\ tree[c].parent \in Live \union {NoCat}
    /\ tree[c].level = IF tree[c].parent = NoCat THEN 0 ELSE tree[tree[c].parent].level + 1

\* What is spent under a category counts for the budget of its main category:
\* the walk up and the walk down, written apart and each bounded by the three
\* levels in its own way, agree.
RollsUp == \A c \in Live : c \in DescendantIds(RootOf(c))

\* Budgets are on main categories only.
BudgetOnMain ==
  \A b \in Budgets : budgetOn[b] # NoCat =>
    budgetOn[b] \in Live /\ tree[budgetOn[b]].parent = NoCat

\* The flat list and the tree of a scope show the same categories.
ListMatchesTree == \A s \in Scopes : ListOf(s) = TreeOf(s)

\* Siblings of one scope have different names: the check before an insert and
\* the find-or-create of the seed, made on different conditions, agree.
SiblingsDiffer ==
  \A s \in Scopes : \A c, d \in ListOf(s) :
    c # d /\ tree[c].parent = tree[d].parent => tree[c].name # tree[d].name

\* A delete cascades through its own user's personal categories only.
PrivateDeletes ==
  [][\A c \in Live : tree'[c] = Gone /\ tree[c].group = NoGroup =>
       \E p \in Sessions : sess[p].at = "delete" /\ sess[p].user = tree[c].user]_vars
=============================================================================
