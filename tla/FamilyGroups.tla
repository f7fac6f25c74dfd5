---------------------------- MODULE FamilyGroups ----------------------------
(***************************************************************************)
(* Family groups: creating one, inviting a number, accepting, withdrawing  *)
(* an invitation, what each member puts into the household and what the    *)
(* family book says (api/v1/family/service.py).                            *)
(*                                                                         *)
(* A membership is a row with a phone number; the user is linked to it     *)
(* when known.  Which family a user is in is looked up by number in every  *)
(* request.  A request looks first and writes later: between the two,      *)
(* another thread may write, or the request may die.                       *)
(***************************************************************************)
EXTENDS Naturals, FiniteSets, FiniteSetsExt

CONSTANTS
  Users,
  Numbers, Spellings, \* a phone is a number and a way it is written
  FirstPhone,         \* the phone each user starts with
  Names, Name,        \* display names
  Salary,             \* users.monthly_income; 0: not given
  Shares,             \* the contributions a client may ask for
  Groups, Rows,       \* ids of families and memberships, never used twice
  Threads,
  MaxSpent,           \* personal and family spending are counted up to this
  NoUser, NoGroup, NoRow, NoNumber, Unborn, Gone

Phones == [number : Numbers, spelling : Spellings]
Member == [group : Groups, user : Users \union {NoUser}, number : Numbers,
           role : {"admin", "member"}, status : {"pending", "accepted"},
           share : Nat, by : Users \union {NoUser}]

ASSUME FamilyAssumption ==
  /\ FirstPhone \in [Users -> Phones]
  /\ Name \in [Users -> Names]
  /\ Salary \in [Users -> Nat] /\ Shares \subseteq Nat /\ MaxSpent \in Nat
  /\ NoUser \notin Users /\ NoGroup \notin Groups /\ NoRow \notin Rows
  /\ NoNumber \notin Numbers
  /\ Unborn \notin Users \union Member /\ Gone \notin Member /\ Unborn # Gone

VARIABLES
  phone,   \* users.phone
  groups,  \* the owner of each family, or Unborn
  rows,    \* memberships; Unborn before and Gone after
  spent,   \* each user's personal spending of this cycle
  book,    \* what each user spent for each family in this cycle
  job      \* what each API thread is doing

vars == <<phone, groups, rows, spent, book, job>>

Idle == [at |-> "idle", user |-> NoUser, group |-> NoGroup, row |-> NoRow,
         number |-> NoNumber, share |-> 0]
Job  == [at : {"idle", "create", "auto", "invite", "insert", "accept", "cancel", "share"},
         user : Users \union {NoUser}, group : Groups \union {NoGroup},
         row : Rows \union {NoRow}, number : Numbers \union {NoNumber}, share : Nat]

LiveRows == {r \in Rows : rows[r] \in Member}
RowsOf(g) == {r \in LiveRows : rows[r].group = g}
Accepted(g) == {r \in RowsOf(g) : rows[r].status = "accepted"}
Owned(u) == {g \in Groups : groups[g] = u}

\* The families of others that a user has joined, found by number.
Joined(u) == {g \in Groups \ Owned(u) :
                \E r \in Accepted(g) : rows[r].number = phone[u].number}

\* The family a request of u is about: one of those joined, or else one that u
\* created; the queries do not say which comes first.  Empty: none.
SeenJoined(u) == Joined(u)                                       \* mutant
SeenOwnFirst(u) == IF Owned(u) # {} THEN Owned(u) ELSE Joined(u) \* mutant
Seen(u) == IF Joined(u) # {} THEN Joined(u) ELSE Owned(u)

\* The invitations a user is shown, and may accept.
PendingInvites(u) ==
  {r \in LiveRows : rows[r].number = phone[u].number /\ rows[r].status = "pending"}

Admin(g, u) ==
  \/ groups[g] = u
  \/ \E r \in Accepted(g) : rows[r].user = u /\ rows[r].role = "admin"

UsersWith(n) == {u \in Users : phone[u].number = n}

\* What a member may put in: salary less personal spending; no salary, no cap.
Available(u) == IF Salary[u] > spent[u] THEN Salary[u] - spent[u] ELSE 0
Affordable(u, a) == Salary[u] = 0 \/ a <= Available(u)

-----------------------------------------------------------------------------
(* What GET /family/expenses answers.                                       *)

Members(g) == {rows[r].user : r \in Accepted(g)}
Spenders(g) == {u \in Users : book[g][u] > 0}
Income(g) == MapThenSumSet(LAMBDA r : rows[r].share, Accepted(g))
Total(g) == MapThenSumSet(LAMBDA u : book[g][u], Users)

\* Who has a row goes by name, and the requesting user is marked "(Me)"; others
\* go by their id.
Label(g, u, me) == IF \E r \in RowsOf(g) : rows[r].user = u
                   THEN [name |-> Name[u], me |-> u = me] ELSE [id |-> u]

BreakdownOfMembers(g, me) ==         \* mutant: who is no member is not listed
  {[l \in {Label(g, u, me) : u \in Members(g)} |->
      MapThenSumSet(LAMBDA u : IF Label(g, u, me) = l THEN book[g][u] ELSE 0, Members(g))]}

\* The breakdown is keyed by label: of users with one label, one is kept.
Breakdown(g, me) ==
  LET listed == Members(g) \union Spenders(g)
      labels == {Label(g, u, me) : u \in listed}
  IN {[l \in labels |-> book[g][kept[l]]] :
        kept \in {k \in [labels -> listed] : \A l \in labels : Label(g, k[l], me) = l}}
-----------------------------------------------------------------------------
Init ==
  /\ phone = FirstPhone
  /\ groups = [g \in Groups |-> Unborn]
  /\ rows = [r \in Rows |-> Unborn]
  /\ spent = [u \in Users |-> 0]
  /\ book = [g \in Groups |-> [u \in Users |-> 0]]
  /\ job = [t \in Threads |-> Idle]

Works(t, j) == job' = [job EXCEPT ![t] = j]
Finish(t) == Works(t, Idle)

\* create_group found no family and goes on.
CreateStart(t, u, a) ==
  /\ job[t] = Idle /\ Seen(u) = {}
  /\ a \in Shares \union {Salary[u]}
  /\ Works(t, [Idle EXCEPT !.at = "create", !.user = u, !.share = a])
  /\ UNCHANGED <<phone, groups, rows, spent, book>>

\* The family and its creator's membership, one commit.
Founded(u, g, r, a) ==
  /\ groups[g] = Unborn /\ rows[r] = Unborn
  /\ groups' = [groups EXCEPT ![g] = u]
  /\ rows' = [rows EXCEPT ![r] =
       [group |-> g, user |-> u, number |-> phone[u].number, role |-> "admin",
        status |-> "accepted", share |-> a, by |-> NoUser]]

CreateCommit(t, g, r) ==
  /\ job[t].at = "create"
  /\ Founded(job[t].user, g, r, job[t].share)
  /\ Finish(t)
  /\ UNCHANGED <<phone, spent, book>>

\* invite_member looks the family up, and founds one if there is none.
InviteStart(t, u, n) ==
  /\ job[t] = Idle
  /\ IF Seen(u) = {}
     THEN Works(t, [Idle EXCEPT !.at = "auto", !.user = u, !.number = n])
     ELSE \E g \in Seen(u) :
            Works(t, [Idle EXCEPT !.at = "invite", !.user = u, !.number = n, !.group = g])
  /\ UNCHANGED <<phone, groups, rows, spent, book>>

AutoCommit(t, g, r) ==
  /\ job[t].at = "auto"
  /\ Founded(job[t].user, g, r, 0)
  /\ Works(t, [job[t] EXCEPT !.at = "invite", !.group = g])
  /\ UNCHANGED <<phone, spent, book>>

InvitableTwice(u, g, n) == phone[u].number # n                   \* mutant

\* Not one's own number, not a number the family has already: then insert.
Invitable(u, g, n) ==
  /\ phone[u].number # n
  /\ \A r \in RowsOf(g) : rows[r].number # n

InviteCheck(t) ==
  /\ job[t].at = "invite"
  /\ IF Invitable(job[t].user, job[t].group, job[t].number)
     THEN Works(t, [job[t] EXCEPT !.at = "insert"])
     ELSE Finish(t)
  /\ UNCHANGED <<phone, groups, rows, spent, book>>

InviteInsert(t, r, u) ==
  /\ job[t].at = "insert" /\ rows[r] = Unborn
  /\ LET known == UsersWith(job[t].number)
     IN u \in (IF known = {} THEN {NoUser} ELSE known)
  /\ rows' = [rows EXCEPT ![r] =
       [group |-> job[t].group, user |-> u, number |-> job[t].number, role |-> "member",
        status |-> "pending", share |-> 0, by |-> job[t].user]]
  /\ Finish(t)
  /\ UNCHANGED <<phone, groups, spent, book>>

AcceptStart(t, u, r) ==
  /\ job[t] = Idle
  /\ r \in PendingInvites(u)
  /\ Works(t, [Idle EXCEPT !.at = "accept", !.user = u, !.row = r, !.share = rows[r].share])
  /\ UNCHANGED <<phone, groups, rows, spent, book>>

\* A contribution of 0 becomes the salary; another is not written.  The row
\* may be gone: the update then fails.
AcceptCommit(t) ==
  LET u == job[t].user
      r == job[t].row
  IN /\ job[t].at = "accept"
     /\ IF rows[r] = Gone
        THEN UNCHANGED rows
        ELSE rows' = [rows EXCEPT
               ![r].status = "accepted", ![r].user = u,
               ![r].share = IF job[t].share = 0 /\ Salary[u] > 0 THEN Salary[u] ELSE @]
     /\ Finish(t)
     /\ UNCHANGED <<phone, groups, spent, book>>

CancelStart(t, u, r) ==
  /\ job[t] = Idle
  /\ r \in LiveRows /\ rows[r].status = "pending" /\ rows[r].group \in Seen(u)
  /\ Admin(rows[r].group, u) \/ rows[r].by = u
  /\ Works(t, [Idle EXCEPT !.at = "cancel", !.user = u, !.row = r])
  /\ UNCHANGED <<phone, groups, rows, spent, book>>

\* The row is deleted by its id, whatever it has become.
CancelCommit(t) ==
  /\ job[t].at = "cancel"
  /\ rows' = [rows EXCEPT ![job[t].row] = Gone]
  /\ Finish(t)
  /\ UNCHANGED <<phone, groups, spent, book>>

\* set_contribution: one's own row in the family seen, within what one has.
ShareStart(t, u, r, a) ==
  /\ job[t] = Idle
  /\ r \in LiveRows /\ rows[r].group \in Seen(u) /\ rows[r].user = u
  /\ a \in Shares /\ Affordable(u, a)
  /\ Works(t, [Idle EXCEPT !.at = "share", !.user = u, !.row = r, !.share = a])
  /\ UNCHANGED <<phone, groups, rows, spent, book>>

ShareCommit(t) ==
  /\ job[t].at = "share"
  /\ rows' = IF rows[job[t].row] = Gone THEN rows
             ELSE [rows EXCEPT ![job[t].row].share = job[t].share]
  /\ Finish(t)
  /\ UNCHANGED <<phone, groups, spent, book>>

\* Any request may die between its look and its write.
Dies(t) ==
  /\ job[t] # Idle
  /\ Finish(t)
  /\ UNCHANGED <<phone, groups, rows, spent, book>>

SpendPersonal(u) ==
  /\ spent[u] < MaxSpent
  /\ spent' = [spent EXCEPT ![u] = @ + 1]
  /\ UNCHANGED <<phone, groups, rows, book, job>>

\* An expense of u for family g counts for s if s is an accepted member, and
\* for u otherwise.  That u is a member is not asked.
SpendFamily(u, g, s) ==
  LET spender == IF s \in Members(g) THEN s ELSE u
  IN /\ groups[g] # Unborn /\ book[g][spender] < MaxSpent
     /\ book' = [book EXCEPT ![g][spender] = @ + 1]
     /\ UNCHANGED <<phone, groups, rows, spent, job>>

\* PUT /users/me: the same spelling must not be another user's.
ChangePhone(u, p) ==
  /\ p # phone[u] /\ \A v \in Users \ {u} : phone[v] # p
  /\ phone' = [phone EXCEPT ![u] = p]
  /\ UNCHANGED <<groups, rows, spent, book, job>>

Step(t) ==
  \/ \E u \in Users, a \in Shares \union {Salary[u] : u \in Users} : CreateStart(t, u, a)
  \/ \E g \in Groups, r \in Rows : CreateCommit(t, g, r) \/ AutoCommit(t, g, r)
  \/ \E u \in Users, n \in Numbers : InviteStart(t, u, n)
  \/ InviteCheck(t)
  \/ \E r \in Rows, u \in Users \union {NoUser} : InviteInsert(t, r, u)
  \/ \E u \in Users, r \in Rows : AcceptStart(t, u, r) \/ CancelStart(t, u, r)
  \/ \E u \in Users, r \in Rows, a \in Shares : ShareStart(t, u, r, a)
  \/ AcceptCommit(t) \/ CancelCommit(t) \/ ShareCommit(t)
  \/ Dies(t)

Next ==
  \/ \E t \in Threads : Step(t)
  \/ \E u \in Users : SpendPersonal(u)
  \/ \E u, s \in Users, g \in Groups : SpendFamily(u, g, s)
  \/ \E u \in Users, p \in Phones : ChangePhone(u, p)

Spec == Init /\ [][Next]_vars
-----------------------------------------------------------------------------
TypeOK ==
  /\ phone \in [Users -> Phones]
  /\ groups \in [Groups -> Users \union {Unborn}]
  /\ rows \in [Rows -> Member \union {Unborn, Gone}]
  /\ spent \in [Users -> 0 .. MaxSpent]
  /\ book \in [Groups -> [Users -> 0 .. MaxSpent]]
  /\ job \in [Threads -> Job]

\* A user founds one family at most (create_group: "You already belong to a
\* family group").
FoundsOne == \A u \in Users : Cardinality(Owned(u)) <= 1

\* A number is in a family once (invite_member: "This number is already a member").
NumberOnce ==
  \A r, s \in LiveRows :
    rows[r].group = rows[s].group /\ rows[r].number = rows[s].number => r = s

\* Who has joined a family of another is shown such a family, not the one
\* founded by inviting somebody earlier (_get_user_group).
JoinedIsSeen ==
  \A u \in Users :
    LET joined == {g \in Groups \ Owned(u) : u \in Members(g)}
    IN joined # {} => Seen(u) \subseteq joined

\* A household's income is no more than its members earn: each contributes
\* once, and no more than the salary (set_contribution, accept_invite).
HouseholdWithinMeans ==
  \A g \in Groups : Income(g) <= MapThenSumSet(LAMBDA u : Salary[u], Members(g))

\* The "who spent what" breakdown lists the whole family, and its lines add up
\* to the total (get_family_expenses).
BreakdownComplete ==
  \A g \in Groups : \A me \in Members(g) : \A b \in Breakdown(g, me) :
    /\ \A u \in Members(g) : b[Label(g, u, me)] = book[g][u]
    /\ MapThenSumSet(LAMBDA l : b[l], DOMAIN b) = Total(g)
=============================================================================
