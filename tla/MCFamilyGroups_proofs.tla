------------------------ MODULE MCFamilyGroups_proofs ------------------------
(***************************************************************************)
(* What holds of family groups for every set of users, numbers, families,  *)
(* memberships and threads: types; that a request done alone founds one    *)
(* family per user and lists a number once in it; and that a user who has  *)
(* joined a family, and keeps the number, is shown that family, even where *)
(* requests overlap; that what a household is said to have is what its     *)
(* members have; and that a family's spending is its members'.             *)
(***************************************************************************)
EXTENDS MCFamilyGroups, Sums_proofs

-----------------------------------------------------------------------------
(* Types.                                                                   *)

\* What a request that has looked, and not yet written, goes by: a user; the
\* number and the family of an invitation; a membership that has been there.
JobKnows(t) ==
  /\ job[t].at # "idle" => job[t].user \in Users
  /\ job[t].at \in {"auto", "invite", "insert"} => job[t].number \in Numbers
  /\ job[t].at \in {"invite", "insert"} => job[t].group \in Groups /\ groups[job[t].group] # Unborn
  /\ job[t].at \in {"accept", "cancel", "share"} => job[t].row \in Rows /\ rows[job[t].row] # Unborn

\* A membership is of a family that was founded.
FamilyOfRow == \A r \in LiveRows : groups[rows[r].group] # Unborn

Base == TypeOK /\ FamilyOfRow /\ \A t \in Threads : JobKnows(t)

\* No user and no membership is one of the marks.
LEMMA Marks ==
  /\ Unborn \notin Users /\ Unborn \notin Member /\ Gone \notin Member /\ Unborn # Gone
  /\ FirstPhone \in [Users -> Phones] /\ Salary \in [Users -> Nat] /\ MaxSpent \in Nat
  BY FamilyAssumption DEF FamilyAssumption

\* Nothing has been looked at to begin with.
LEMMA BaseInit == Init => Base
  <1> SUFFICES ASSUME Init PROVE Base
    OBVIOUS
  <1>1. Idle \in Job
    BY DEF Idle, Job
  <1>2. TypeOK
    BY <1>1, Marks DEF Init, TypeOK
  <1>3. FamilyOfRow
    BY Marks DEF Init, FamilyOfRow, LiveRows
  <1>4. \A t \in Threads : JobKnows(t)
    BY DEF Init, JobKnows, Idle
  <1> QED
    BY <1>2, <1>3, <1>4 DEF Base

-----------------------------------------------------------------------------
(* What a step writes.                                                      *)

\* A family is founded with its first membership.
Founds(t, r) ==
  /\ job[t].at \in {"create", "auto"} /\ rows[r] = Unborn /\ rows'[r] \in Member
  /\ rows'[r].user = job[t].user /\ rows'[r].number = phone[job[t].user].number
  /\ groups[rows'[r].group] = Unborn
  /\ groups' = [groups EXCEPT ![rows'[r].group] = job[t].user]

\* A number is invited; the user is the one who has it, if known.
Invites(t, r) ==
  /\ job[t].at = "insert" /\ rows[r] = Unborn /\ rows'[r] \in Member
  /\ rows'[r].user \in Users => rows'[r].user \in UsersWith(job[t].number)
  /\ rows'[r].status = "pending"
  /\ rows'[r].group = job[t].group /\ rows'[r].number = job[t].number

\* An invitation is accepted, or a share is set.
Amends(t, r) ==
  /\ rows[r] \in Member /\ rows'[r] \in Member
  /\ rows'[r].group = rows[r].group /\ rows'[r].number = rows[r].number
  /\ job[t].at \in {"accept", "share"}
  /\ \/ rows'[r].user = rows[r].user /\ rows'[r].status = rows[r].status
     \/ job[t].at = "accept" /\ job[t].row = r /\ rows'[r].user = job[t].user

\* A membership is deleted.
Deletes(t, r) ==
  job[t].at = "cancel" /\ rows[r] # Unborn /\ rows'[r] = Gone

\* A thread writes one membership, as the last thing of what it was doing.
Writes(t, r) ==
  /\ job[t].at # "idle" /\ job'[t] # job[t]
  /\ \A s \in Rows \ {r} : rows'[s] = rows[s]
  /\ \A s \in Threads \ {t} : job'[s] = job[s]
  /\ \/ Founds(t, r)
     \/ groups' = groups /\ (Invites(t, r) \/ Amends(t, r) \/ Deletes(t, r))

\* What founding a family writes.
LEMMA FoundedWrites ==
  ASSUME Base, NEW t \in Threads, NEW g \in Groups, NEW r \in Rows, NEW a \in Nat,
         job[t].at \in {"create", "auto"}, Founded(job[t].user, g, r, a)
  PROVE  Founds(t, r) /\ \A s \in Rows \ {r} : rows'[s] = rows[s]
  <1>1. /\ rows \in [Rows -> Member \union {Unborn, Gone}] /\ phone \in [Users -> Phones]
        /\ job[t].user \in Users
    BY DEF Base, TypeOK, JobKnows
  <1>2. phone[job[t].user].number \in Numbers
    BY <1>1 DEF Phones
  <1> DEFINE new == [group |-> g, user |-> job[t].user, number |-> phone[job[t].user].number,
                     role |-> "admin", status |-> "accepted", share |-> a, by |-> NoUser]
  <1>3. new \in Member /\ new.group = g /\ new.user = job[t].user
        /\ new.number = phone[job[t].user].number
    BY <1>1, <1>2 DEF Member
  <1>4. /\ groups[g] = Unborn /\ rows[r] = Unborn /\ rows' = [rows EXCEPT ![r] = new]
        /\ groups' = [groups EXCEPT ![g] = job[t].user]
    BY DEF Founded
  <1> HIDE DEF new
  <1>5. rows'[r] = new /\ \A s \in Rows \ {r} : rows'[s] = rows[s]
    BY <1>1, <1>4
  <1> QED
    BY <1>3, <1>4, <1>5 DEF Founds

\* Memberships and families change by what one thread writes.
LEMMA WriteStep ==
  ASSUME Base, [Next]_vars
  PROVE  \/ rows' = rows /\ groups' = groups
         \/ \E t \in Threads, r \in Rows : Writes(t, r)
  <1>0. /\ rows \in [Rows -> Member \union {Unborn, Gone}] /\ job \in [Threads -> Job]
        /\ Salary \in [Users -> Nat]
    BY Marks DEF Base, TypeOK
  <1>1. ASSUME NEW t \in Threads, NEW g \in Groups, NEW r \in Rows, CreateCommit(t, g, r)
        PROVE  Writes(t, r)
    <2>1. Founds(t, r) /\ \A s \in Rows \ {r} : rows'[s] = rows[s]
      BY <1>0, <1>1, FoundedWrites DEF CreateCommit, Job
    <2>2. /\ job[t].at # "idle" /\ job'[t].at = "idle"
          /\ \A s \in Threads \ {t} : job'[s] = job[s]
      BY <1>0, <1>1 DEF CreateCommit, Finish, Works, Idle
    <2> QED
      BY <2>1, <2>2 DEF Writes
  <1>2. ASSUME NEW t \in Threads, NEW g \in Groups, NEW r \in Rows, AutoCommit(t, g, r)
        PROVE  Writes(t, r)
    <2>1. Founds(t, r) /\ \A s \in Rows \ {r} : rows'[s] = rows[s]
      BY <1>0, <1>2, FoundedWrites DEF AutoCommit
    <2>2. /\ job[t].at = "auto" /\ job'[t].at = "invite"
          /\ \A s \in Threads \ {t} : job'[s] = job[s]
      BY <1>0, <1>2 DEF AutoCommit, Works, Job
    <2> QED
      BY <2>1, <2>2 DEF Writes
  <1>3. ASSUME NEW t \in Threads, NEW r \in Rows, NEW u \in Users \union {NoUser}, InviteInsert(t, r, u)
        PROVE  Writes(t, r)
    <2> DEFINE new == [group |-> job[t].group, user |-> u, number |-> job[t].number,
                       role |-> "member", status |-> "pending", share |-> 0, by |-> job[t].user]
    <2>1. /\ job[t].at = "insert" /\ rows[r] = Unborn /\ groups' = groups
          /\ rows' = [rows EXCEPT ![r] = new]
      BY <1>3 DEF InviteInsert
    <2>2. job[t].group \in Groups /\ job[t].number \in Numbers /\ job[t].user \in Users
      BY <2>1 DEF Base, JobKnows
    <2>3. /\ new \in Member /\ new.group = job[t].group /\ new.user = u
          /\ new.number = job[t].number /\ new.status = "pending"
      BY <2>2 DEF Member
    <2> HIDE DEF new
    <2>4. rows'[r] = new /\ \A s \in Rows \ {r} : rows'[s] = rows[s]
      BY <1>0, <2>1
    <2>5. u \in Users => u \in UsersWith(job[t].number)
      BY <1>3, FamilyAssumption DEF InviteInsert, FamilyAssumption
    <2>6. Invites(t, r)
      BY <2>1, <2>3, <2>4, <2>5 DEF Invites
    <2>7. job'[t].at = "idle" /\ \A s \in Threads \ {t} : job'[s] = job[s]
      BY <1>0, <1>3 DEF InviteInsert, Finish, Works, Idle
    <2> QED
      BY <2>1, <2>4, <2>6, <2>7 DEF Writes
  <1>4. ASSUME NEW t \in Threads, AcceptCommit(t), rows' # rows
        PROVE  \E r \in Rows : Writes(t, r)
    <2>1. PICK r \in Rows : r = job[t].row /\ rows[r] \in Member /\ job[t].user \in Users
      BY <1>0, <1>4 DEF AcceptCommit, Base, JobKnows
    <2> DEFINE share == IF job[t].share = 0 /\ Salary[job[t].user] > 0
                        THEN Salary[job[t].user] ELSE rows[r].share
               new == [rows[r] EXCEPT !.status = "accepted", !.user = job[t].user, !.share = share]
    <2>2. share \in Nat
      BY <1>0, <2>1 DEF Member
    <2>3. rows' = [rows EXCEPT ![r] = new]
      BY <1>0, <1>4, <2>1 DEF AcceptCommit
    <2> HIDE DEF share
    <2>4. /\ new \in Member /\ new.user = job[t].user
          /\ new.group = rows[r].group /\ new.number = rows[r].number
      BY <2>1, <2>2 DEF Member
    <2> HIDE DEF new
    <2>5. rows'[r] = new /\ \A s \in Rows \ {r} : rows'[s] = rows[s]
      BY <1>0, <2>3
    <2>6. /\ job[t].at = "accept" /\ job'[t].at = "idle" /\ groups' = groups
          /\ \A s \in Threads \ {t} : job'[s] = job[s]
      BY <1>0, <1>4 DEF AcceptCommit, Finish, Works, Idle
    <2>7. Amends(t, r)
      BY <2>1, <2>4, <2>5, <2>6 DEF Amends
    <2> QED
      BY <2>5, <2>6, <2>7 DEF Writes
  <1>5. ASSUME NEW t \in Threads, CancelCommit(t)
        PROVE  \E r \in Rows : Writes(t, r)
    <2>1. /\ job[t].at = "cancel" /\ job'[t].at = "idle" /\ groups' = groups
          /\ rows' = [rows EXCEPT ![job[t].row] = Gone]
          /\ \A s \in Threads \ {t} : job'[s] = job[s]
      BY <1>0, <1>5 DEF CancelCommit, Finish, Works, Idle
    <2>2. PICK r \in Rows : r = job[t].row /\ rows[r] # Unborn
      BY <2>1 DEF Base, JobKnows
    <2>3. rows'[r] = Gone /\ \A s \in Rows \ {r} : rows'[s] = rows[s]
      BY <1>0, <2>1, <2>2
    <2>4. Deletes(t, r)
      BY <2>1, <2>2, <2>3 DEF Deletes
    <2> QED
      BY <2>1, <2>3, <2>4 DEF Writes
  <1>6. ASSUME NEW t \in Threads, ShareCommit(t), rows' # rows
        PROVE  \E r \in Rows : Writes(t, r)
    <2>1. /\ job[t].at = "share" /\ job'[t].at = "idle" /\ groups' = groups
          /\ rows[job[t].row] # Gone
          /\ rows' = [rows EXCEPT ![job[t].row].share = job[t].share]
          /\ \A s \in Threads \ {t} : job'[s] = job[s]
      BY <1>0, <1>6 DEF ShareCommit, Finish, Works, Idle
    <2>2. PICK r \in Rows : r = job[t].row /\ rows[r] \in Member
      BY <1>0, <2>1 DEF Base, JobKnows
    <2> DEFINE new == [rows[r] EXCEPT !.share = job[t].share]
    <2>3. rows'[r] = new /\ \A s \in Rows \ {r} : rows'[s] = rows[s]
      BY <1>0, <2>1, <2>2
    <2>4. job[t].share \in Nat
      BY <1>0 DEF Job
    <2>5. /\ new \in Member /\ new.user = rows[r].user /\ new.status = rows[r].status
          /\ new.group = rows[r].group /\ new.number = rows[r].number
      BY <2>2, <2>4 DEF Member
    <2> HIDE DEF new
    <2>6. Amends(t, r)
      BY <2>1, <2>2, <2>3, <2>5 DEF Amends
    <2> QED
      BY <2>1, <2>3, <2>6 DEF Writes
  <1>7. \/ rows' = rows /\ groups' = groups
        \/ \E t \in Threads, g \in Groups, r \in Rows : CreateCommit(t, g, r) \/ AutoCommit(t, g, r)
        \/ \E t \in Threads, r \in Rows, u \in Users \union {NoUser} : InviteInsert(t, r, u)
        \/ \E t \in Threads : AcceptCommit(t) \/ CancelCommit(t) \/ ShareCommit(t)
    BY DEF Next, vars, Step, CreateStart, InviteStart, InviteCheck, AcceptStart, CancelStart,
       ShareStart, Dies, SpendPersonal, SpendFamily, ChangePhone
  <1>8. ASSUME NEW t \in Threads, AcceptCommit(t) \/ ShareCommit(t) PROVE groups' = groups
    BY <1>8 DEF AcceptCommit, ShareCommit
  <1> QED
    BY <1>1, <1>2, <1>3, <1>4, <1>5, <1>6, <1>7, <1>8

-----------------------------------------------------------------------------
(* What a thread does next.                                                 *)

\* A request looks: nothing is written, and what it goes by is there.
Looks(t) ==
  /\ job[t] = Idle /\ UNCHANGED <<phone, groups, rows>>
  /\ job'[t].user \in Users
  /\ \/ job'[t].at = "create" /\ Seen(job'[t].user) = {}
     \/ job'[t].at = "auto" /\ Seen(job'[t].user) = {} /\ job'[t].number \in Numbers
     \/ job'[t].at = "invite" /\ job'[t].group \in Seen(job'[t].user) /\ job'[t].number \in Numbers
     \/ job'[t].at = "accept" /\ job'[t].row \in PendingInvites(job'[t].user)
     \/ job'[t].at \in {"cancel", "share"} /\ job'[t].row \in LiveRows

\* An invitation goes on to the family just founded for it.
GoesOn(t) ==
  /\ job[t].at = "auto" /\ job'[t].at = "invite"
  /\ job'[t].user = job[t].user /\ job'[t].number = job[t].number
  /\ job'[t].group \in Groups /\ groups'[job'[t].group] = job[t].user

\* An invitation has been checked.
Checked(t) ==
  /\ job[t].at = "invite" /\ job'[t].at = "insert" /\ UNCHANGED <<phone, groups, rows>>
  /\ job'[t].user = job[t].user /\ job'[t].number = job[t].number /\ job'[t].group = job[t].group
  /\ Invitable(job[t].user, job[t].group, job[t].number)

JobMoves(t) ==
  /\ job'[t] \in Job
  /\ job'[t] = job[t] \/ job'[t] = Idle \/ Looks(t) \/ GoesOn(t) \/ Checked(t)

\* The families a user can be shown are families that there are.
LEMMA SeenBorn ==
  ASSUME Base, NEW u \in Users, NEW g \in Seen(u)
  PROVE  g \in Groups /\ groups[g] # Unborn
  <1>1. CASE g \in Joined(u)
    BY <1>1 DEF Joined, Accepted, RowsOf, Base, FamilyOfRow
  <1>2. CASE g \in Owned(u)
    BY <1>2, Marks DEF Owned
  <1> QED
    BY <1>1, <1>2 DEF Seen

\* Each thread makes one of these moves.
LEMMA JobStep ==
  ASSUME Base, [Next]_vars, NEW t \in Threads
  PROVE  JobMoves(t)
  <1>0. /\ job \in [Threads -> Job] /\ Idle \in Job /\ Idle.at = "idle"
        /\ groups \in [Groups -> Users \union {Unborn}]
    BY DEF Base, TypeOK, Idle, Job
  <1>1. CASE job'[t] = job[t]
    BY <1>0, <1>1 DEF JobMoves
  <1>2. CASE job'[t] # job[t]
    <2>1. Step(t)
      <3>1. ASSUME NEW s \in Threads, Step(s), s # t PROVE job'[t] = job[t]
        BY <1>0, <3>1 DEF Step, CreateStart, CreateCommit, InviteStart, AutoCommit, InviteCheck, InviteInsert,
           AcceptStart, AcceptCommit, CancelStart, CancelCommit, ShareStart, ShareCommit, Dies, Works, Finish
      <3> QED
        BY <1>2, <3>1 DEF Next, vars, SpendPersonal, SpendFamily, ChangePhone
    <2>2. ASSUME NEW u \in Users, NEW a \in Shares \union {Salary[v] : v \in Users}, CreateStart(t, u, a)
          PROVE  JobMoves(t)
      <3>1. a \in Nat
        BY Marks, FamilyAssumption DEF FamilyAssumption
      <3>2. job'[t] = [at |-> "create", user |-> u, group |-> NoGroup, row |-> NoRow, number |-> NoNumber, share |-> a]
        BY <1>0, <2>2 DEF CreateStart, Works, Idle
      <3>3. job'[t] \in Job /\ job'[t].at = "create" /\ job'[t].user = u
        BY <3>1, <3>2 DEF Job
      <3> QED
        BY <2>2, <3>3 DEF JobMoves, Looks, CreateStart
    <2>3. ASSUME NEW u \in Users, NEW n \in Numbers, InviteStart(t, u, n)
          PROVE  JobMoves(t)
      <3>1. CASE Seen(u) = {}
        <4>1. job'[t] = [at |-> "auto", user |-> u, group |-> NoGroup, row |-> NoRow, number |-> n, share |-> 0]
          BY <1>0, <2>3, <3>1 DEF InviteStart, Works, Idle
        <4>2. job'[t] \in Job /\ job'[t].at = "auto" /\ job'[t].user = u /\ job'[t].number = n
          BY <4>1 DEF Job
        <4> QED
          BY <2>3, <3>1, <4>2 DEF JobMoves, Looks, InviteStart
      <3>2. CASE Seen(u) # {}
        <4>1. PICK g \in Seen(u) :
                job'[t] = [at |-> "invite", user |-> u, group |-> g, row |-> NoRow, number |-> n, share |-> 0]
          BY <1>0, <2>3, <3>2 DEF InviteStart, Works, Idle
        <4>2. g \in Groups
          BY SeenBorn
        <4>3. /\ job'[t] \in Job /\ job'[t].at = "invite" /\ job'[t].user = u
              /\ job'[t].number = n /\ job'[t].group = g
          BY <4>1, <4>2 DEF Job
        <4> QED
          BY <2>3, <4>3 DEF JobMoves, Looks, InviteStart
      <3> QED
        BY <3>1, <3>2
    <2>4. ASSUME NEW u \in Users, NEW r \in Rows, AcceptStart(t, u, r)
          PROVE  JobMoves(t)
      <3>1. rows[r].share \in Nat
        BY <2>4 DEF AcceptStart, PendingInvites, LiveRows, Member
      <3>2. job'[t] = [at |-> "accept", user |-> u, group |-> NoGroup, row |-> r, number |-> NoNumber,
                           share |-> rows[r].share]
        BY <1>0, <2>4 DEF AcceptStart, Works, Idle
      <3>3. job'[t] \in Job /\ job'[t].at = "accept" /\ job'[t].user = u /\ job'[t].row = r
        BY <3>1, <3>2 DEF Job
      <3> QED
        BY <2>4, <3>3 DEF JobMoves, Looks, AcceptStart
    <2>5. ASSUME NEW u \in Users, NEW r \in Rows, CancelStart(t, u, r)
          PROVE  JobMoves(t)
      <3>1. job'[t] = [at |-> "cancel", user |-> u, group |-> NoGroup, row |-> r, number |-> NoNumber, share |-> 0]
        BY <1>0, <2>5 DEF CancelStart, Works, Idle
      <3>2. job'[t] \in Job /\ job'[t].at = "cancel" /\ job'[t].user = u /\ job'[t].row = r
        BY <3>1 DEF Job
      <3> QED
        BY <2>5, <3>2 DEF JobMoves, Looks, CancelStart
    <2>6. ASSUME NEW u \in Users, NEW r \in Rows, NEW a \in Shares, ShareStart(t, u, r, a)
          PROVE  JobMoves(t)
      <3>1. /\ job'[t] = [at |-> "share", user |-> u, group |-> NoGroup, row |-> r, number |-> NoNumber, share |-> a]
             /\ a \in Nat
        BY <1>0, <2>6, FamilyAssumption DEF FamilyAssumption, ShareStart, Works, Idle
      <3>2. job'[t] \in Job /\ job'[t].at = "share" /\ job'[t].user = u /\ job'[t].row = r
        BY <3>1 DEF Job
      <3> QED
        BY <2>6, <3>2 DEF JobMoves, Looks, ShareStart
    <2>7. ASSUME NEW g \in Groups, NEW r \in Rows, AutoCommit(t, g, r)
          PROVE  JobMoves(t)
      <3>1. job'[t] = [job[t] EXCEPT !.at = "invite", !.group = g] /\ job[t].at = "auto"
        BY <1>0, <2>7 DEF AutoCommit, Works
      <3>2. /\ job'[t] \in Job /\ job'[t].at = "invite" /\ job'[t].user = job[t].user
            /\ job'[t].number = job[t].number /\ job'[t].group = g
        BY <1>0, <3>1 DEF Job
      <3>3. groups'[g] = job[t].user
        BY <1>0, <2>7 DEF AutoCommit, Founded
      <3> QED
        BY <3>1, <3>2, <3>3 DEF JobMoves, GoesOn
    <2>8. ASSUME InviteCheck(t), job'[t] # Idle
          PROVE  JobMoves(t)
      <3>1. /\ Invitable(job[t].user, job[t].group, job[t].number)
            /\ job'[t] = [job[t] EXCEPT !.at = "insert"] /\ job[t].at = "invite"
        BY <1>0, <2>8 DEF InviteCheck, Works, Finish
      <3>2. /\ job'[t] \in Job /\ job'[t].at = "insert" /\ job'[t].user = job[t].user
            /\ job'[t].number = job[t].number /\ job'[t].group = job[t].group
        BY <1>0, <3>1 DEF Job
      <3> QED
        BY <2>8, <3>1, <3>2 DEF JobMoves, Checked, InviteCheck
    <2>9. CASE job'[t] = Idle
      BY <1>0, <2>9 DEF JobMoves
    <2>10. ASSUME \/ \E g \in Groups, r \in Rows : CreateCommit(t, g, r)
                  \/ \E r \in Rows, u \in Users \union {NoUser} : InviteInsert(t, r, u)
                  \/ AcceptCommit(t) \/ CancelCommit(t) \/ ShareCommit(t) \/ Dies(t)
           PROVE  job'[t] = Idle
      BY <1>0, <2>10 DEF CreateCommit, InviteInsert, AcceptCommit, CancelCommit, ShareCommit, Dies,
         Finish, Works
    <2> QED
      BY <2>1, <2>2, <2>3, <2>4, <2>5, <2>6, <2>7, <2>8, <2>9, <2>10 DEF Step
  <1> QED
    BY <1>1, <1>2

\* A founded family stays, and so does the mark that a membership has been.
LEMMA NeverUnborn ==
  ASSUME Base, [Next]_vars
  PROVE  /\ \A g \in Groups : groups[g] # Unborn => groups'[g] = groups[g]
         /\ \A r \in Rows : rows[r] # Unborn => rows'[r] # Unborn
  <1>0. /\ rows \in [Rows -> Member \union {Unborn, Gone}]
        /\ groups \in [Groups -> Users \union {Unborn}]
    BY DEF Base, TypeOK
  <1>1. CASE rows' = rows /\ groups' = groups
    BY <1>1
  <1>2. ASSUME NEW t \in Threads, NEW r \in Rows, Writes(t, r)
        PROVE  /\ \A g \in Groups : groups[g] # Unborn => groups'[g] = groups[g]
               /\ \A s \in Rows : rows[s] # Unborn => rows'[s] # Unborn
    <2>1. \A s \in Rows : rows[s] # Unborn => rows'[s] # Unborn
      BY <1>0, <1>2, Marks DEF Writes, Founds, Invites, Amends, Deletes
    <2>2. \A g \in Groups : groups[g] # Unborn => groups'[g] = groups[g]
      BY <1>0, <1>2 DEF Writes, Founds
    <2> QED
      BY <2>1, <2>2
  <1> QED
    BY <1>1, <1>2, WriteStep

\* Base is inductive.
LEMMA BaseStep ==
  ASSUME Base, [Next]_vars
  PROVE  Base'
  <1>0. /\ TypeOK /\ FamilyOfRow /\ (\A t \in Threads : JobKnows(t))
        /\ phone \in [Users -> Phones] /\ rows \in [Rows -> Member \union {Unborn, Gone}]
        /\ groups \in [Groups -> Users \union {Unborn}] /\ job \in [Threads -> Job]
    BY DEF Base, TypeOK
  <1>1. job' \in [Threads -> Job]
    <2>1. job' = [t \in Threads |-> job'[t]]
      <3>1. ASSUME NEW s \in Threads, NEW j, Works(s, j) PROVE job' = [t \in Threads |-> job'[t]]
        BY <1>0, <3>1 DEF Works
      <3>2. ASSUME NEW s \in Threads, Step(s) PROVE \E j : Works(s, j)
        BY <3>2, Zenon DEF Step, CreateStart, CreateCommit, InviteStart, AutoCommit, InviteCheck,
           InviteInsert, AcceptStart, AcceptCommit, CancelStart, CancelCommit, ShareStart,
           ShareCommit, Dies, Finish
      <3>3. CASE job' = job
        BY <1>0, <3>3
      <3> QED
        BY <3>1, <3>2, <3>3 DEF Next, vars, SpendPersonal, SpendFamily, ChangePhone
    <2>2. \A t \in Threads : job'[t] \in Job
      BY JobStep DEF JobMoves
    <2> QED
      BY <2>1, <2>2
  <1>2. rows' \in [Rows -> Member \union {Unborn, Gone}]
    <2>1. rows' = [r \in Rows |-> rows'[r]]
      <3>1. ASSUME NEW t \in Threads, Step(t) PROVE rows' = [r \in Rows |-> rows'[r]]
        <4>1. ASSUME AcceptCommit(t) \/ CancelCommit(t) \/ ShareCommit(t)
              PROVE  rows' = [r \in Rows |-> rows'[r]]
          BY <1>0, <4>1 DEF AcceptCommit, CancelCommit, ShareCommit
        <4> QED
          BY <1>0, <3>1, <4>1 DEF Step, CreateStart, CreateCommit, InviteStart, AutoCommit, InviteCheck,
             InviteInsert, AcceptStart, CancelStart, ShareStart, Dies, Founded
      <3> QED
        BY <1>0, <3>1 DEF Next, vars, SpendPersonal, SpendFamily, ChangePhone
    <2>2. ASSUME NEW t \in Threads, NEW r \in Rows, Writes(t, r), NEW s \in Rows
          PROVE  rows'[s] \in Member \union {Unborn, Gone}
      BY <1>0, <2>2 DEF Writes, Founds, Invites, Amends, Deletes
    <2> QED
      BY <1>0, <2>1, <2>2, WriteStep
  <1>3. groups' \in [Groups -> Users \union {Unborn}]
    <2>1. ASSUME NEW t \in Threads, NEW r \in Rows, Writes(t, r)
          PROVE  groups' \in [Groups -> Users \union {Unborn}]
      BY <1>0, <2>1 DEF Writes, Founds, JobKnows
    <2> QED
      BY <1>0, <2>1, WriteStep
  <1>4. /\ phone' \in [Users -> Phones] /\ spent' \in [Users -> 0 .. MaxSpent]
        /\ book' \in [Groups -> [Users -> 0 .. MaxSpent]]
    <2>1. ASSUME NEW u \in Users, SpendPersonal(u) PROVE spent' \in [Users -> 0 .. MaxSpent]
      BY <1>0, <2>1, Marks DEF SpendPersonal, TypeOK
    <2>2. ASSUME NEW u \in Users, NEW s \in Users, NEW g \in Groups, SpendFamily(u, g, s)
          PROVE  book' \in [Groups -> [Users -> 0 .. MaxSpent]]
      <3>1. PICK v \in Users : book[g][v] < MaxSpent /\ book' = [book EXCEPT ![g][v] = @ + 1]
        BY <2>2 DEF SpendFamily
      <3>2. book \in [Groups -> [Users -> 0 .. MaxSpent]] /\ book[g][v] + 1 \in 0 .. MaxSpent
        BY <1>0, <3>1, Marks DEF TypeOK
      <3> QED
        BY <3>1, <3>2
    <2>3. ASSUME NEW u \in Users, NEW p \in Phones, ChangePhone(u, p) PROVE phone' \in [Users -> Phones]
      BY <1>0, <2>3 DEF ChangePhone
    <2>4. \/ UNCHANGED <<phone, spent, book>>
          \/ \E u \in Users : SpendPersonal(u)
          \/ \E u, s \in Users, g \in Groups : SpendFamily(u, g, s)
          \/ \E u \in Users, p \in Phones : ChangePhone(u, p)
      <3>1. ASSUME NEW t \in Threads, Step(t) PROVE UNCHANGED <<phone, spent, book>>
        BY <3>1 DEF Step, CreateStart, CreateCommit, InviteStart, AutoCommit, InviteCheck, InviteInsert,
           AcceptStart, AcceptCommit, CancelStart, CancelCommit, ShareStart, ShareCommit, Dies
      <3> QED
        BY <3>1 DEF Next, vars
    <2> QED
      BY <1>0, <2>1, <2>2, <2>3, <2>4 DEF TypeOK, SpendPersonal, SpendFamily, ChangePhone
  <1>5. FamilyOfRow'
    <2>1. ASSUME NEW t \in Threads, NEW r \in Rows, Writes(t, r), NEW s \in Rows, rows'[s] \in Member
          PROVE  groups'[rows'[s].group] # Unborn
      <3>0. rows'[s].group \in Groups
        BY <2>1 DEF Member
      <3>1. CASE s # r
        <4>1. rows'[s] = rows[s]
          BY <2>1, <3>1 DEF Writes
        <4>2. groups[rows[s].group] # Unborn
          BY <1>0, <2>1, <4>1 DEF FamilyOfRow, LiveRows
        <4> QED
          BY <3>0, <4>1, <4>2, NeverUnborn
      <3>2. CASE s = r /\ Founds(t, r)
        BY <1>0, <3>0, <3>2, Marks DEF Founds, JobKnows
      <3>3. CASE s = r /\ Invites(t, r)
        BY <1>0, <3>0, <3>3, NeverUnborn DEF Invites, JobKnows
      <3>4. CASE s = r /\ Amends(t, r)
        <4>1. groups[rows[r].group] # Unborn
          BY <1>0, <3>4 DEF FamilyOfRow, LiveRows, Amends
        <4> QED
          BY <3>0, <3>4, <4>1, NeverUnborn DEF Amends
      <3>5. CASE s = r /\ Deletes(t, r)
        BY <2>1, <3>5, Marks DEF Deletes
      <3> QED
        BY <2>1, <3>1, <3>2, <3>3, <3>4, <3>5 DEF Writes
    <2> QED
      BY <1>0, <2>1, WriteStep DEF FamilyOfRow, LiveRows
  <1>6. ASSUME NEW t \in Threads PROVE JobKnows(t)'
    <2>1. CASE job'[t] = job[t]
      <3>1. JobKnows(t)
        BY <1>0
      <3> QED
        BY <2>1, <3>1, NeverUnborn DEF JobKnows
    <2>2. CASE job'[t] = Idle
      BY <2>2 DEF JobKnows, Idle
    <2>3. CASE Looks(t)
      <3>1. ASSUME job'[t].group \in Seen(job'[t].user), job'[t].user \in Users
            PROVE  job'[t].group \in Groups /\ groups[job'[t].group] # Unborn
        BY <3>1, SeenBorn
      <3>2. ASSUME job'[t].row \in PendingInvites(job'[t].user) \/ job'[t].row \in LiveRows
            PROVE  job'[t].row \in Rows /\ rows[job'[t].row] # Unborn
        BY <3>2, Marks DEF PendingInvites, LiveRows
      <3> QED
        BY <2>3, <3>1, <3>2 DEF JobKnows, Looks
    <2>4. CASE GoesOn(t)
      BY <1>0, <2>4, Marks DEF JobKnows, GoesOn
    <2>5. CASE Checked(t)
      BY <1>0, <2>5 DEF JobKnows, Checked
    <2> QED
      BY <2>1, <2>2, <2>3, <2>4, <2>5, JobStep DEF JobMoves
  <1> QED
    BY <1>1, <1>2, <1>3, <1>4, <1>5, <1>6 DEF Base, TypeOK

\* Every record in every state has its type, and a request in progress goes by
\* a user, a family and a membership that there are (service.py loads each
\* before it writes).
THEOREM TypeCorrect == Spec => []TypeOK
  <1>1. Base /\ UNCHANGED vars => Base'
    BY BaseStep
  <1>2. Base => TypeOK
    BY DEF Base
  <1> QED
    BY <1>2, BaseInit, BaseStep, PTL DEF Spec

-----------------------------------------------------------------------------
(* A user who keeps the number.                                             *)

\* Every kind of behaviour is one of FamilyGroups, of one kind throughout.
LEMMA HabitStep ==
  ASSUME [HabitNext]_<<vars, habit>>
  PROVE  /\ [Next]_vars /\ habit' = habit
         /\ habit # "move" => phone' = phone
         /\ job' = job \/ \A t \in Threads : Within(t)
  BY DEF HabitNext, vars

\* Types hold of every kind of behaviour.
LEMMA HabitBase == HabitSpec => []Base
  <1>1. HabitInit => Base
    BY BaseInit DEF HabitInit
  <1>2. Base /\ [HabitNext]_<<vars, habit>> => Base'
    BY HabitStep, BaseStep
  <1> QED
    BY <1>1, <1>2, PTL DEF HabitSpec

\* A membership carries the number of its user, and has one once accepted.
RowIsUsers(r) ==
  rows[r] \in Member =>
    /\ rows[r].user \in Users => rows[r].number = phone[rows[r].user].number
    /\ rows[r].status = "accepted" => rows[r].user \in Users

\* Who is about to accept an invitation has its number.
AccepterIsInvited(t) ==
  job[t].at = "accept" /\ rows[job[t].row] \in Member =>
    rows[job[t].row].number = phone[job[t].user].number

UnmovedInv ==
  habit # "move" =>
    /\ phone = FirstPhone
    /\ \A r \in Rows : RowIsUsers(r)
    /\ \A t \in Threads : AccepterIsInvited(t)

\* Numbers and memberships stay together while nobody moves.
LEMMA UnmovedStep ==
  ASSUME Base, UnmovedInv, [HabitNext]_<<vars, habit>>
  PROVE  UnmovedInv'
  <1>0. [Next]_vars /\ Base' /\ habit' = habit
    BY HabitStep, BaseStep
  <1> SUFFICES ASSUME habit # "move"
               PROVE  /\ phone' = FirstPhone
                      /\ \A r \in Rows : RowIsUsers(r)'
                      /\ \A t \in Threads : AccepterIsInvited(t)'
    BY <1>0 DEF UnmovedInv
  <1>1. /\ phone = FirstPhone /\ phone' = phone
        /\ \A r \in Rows : RowIsUsers(r)
        /\ \A t \in Threads : AccepterIsInvited(t) /\ JobKnows(t)
    BY HabitStep DEF UnmovedInv, Base
  <1>2. ASSUME NEW r \in Rows PROVE RowIsUsers(r)'
    <2>1. CASE rows'[r] = rows[r]
      BY <1>1, <2>1 DEF RowIsUsers
    <2>2. CASE rows'[r] # rows[r]
      <3>1. PICK t \in Threads : Writes(t, r)
        BY <1>0, <2>2, WriteStep DEF Writes
      <3>2. CASE Founds(t, r)
        BY <1>1, <3>2 DEF Founds, RowIsUsers, JobKnows
      <3>3. CASE Invites(t, r)
        BY <1>1, <3>3 DEF Invites, RowIsUsers, UsersWith
      <3>4. CASE Amends(t, r)
        BY <1>1, <3>4 DEF Amends, RowIsUsers, AccepterIsInvited, JobKnows
      <3>5. CASE Deletes(t, r)
        BY <3>5, Marks DEF Deletes, RowIsUsers
      <3> QED
        BY <3>1, <3>2, <3>3, <3>4, <3>5 DEF Writes
    <2> QED
      BY <2>1, <2>2
  <1>3. ASSUME NEW t \in Threads PROVE AccepterIsInvited(t)'
    <2>1. CASE job'[t] = job[t]
      <3>1. SUFFICES ASSUME job[t].at = "accept", NEW r \in Rows, r = job[t].row, rows[r] # Unborn,
                            rows'[r] \in Member
                     PROVE  rows'[r].number = phone[job[t].user].number
        BY <1>1, <2>1 DEF AccepterIsInvited, JobKnows
      <3>2. CASE rows'[r] = rows[r]
        BY <1>1, <3>1, <3>2 DEF AccepterIsInvited
      <3>3. CASE rows'[r] # rows[r]
        <4>1. PICK s \in Threads : Writes(s, r)
          BY <1>0, <3>3, WriteStep DEF Writes
        <4>2. Amends(s, r)
          BY <3>1, <4>1, Marks DEF Writes, Founds, Invites, Deletes
        <4> QED
          BY <1>1, <3>1, <4>2 DEF Amends, AccepterIsInvited
      <3> QED
        BY <3>2, <3>3
    <2>2. CASE job'[t] = Idle
      BY <2>2 DEF AccepterIsInvited, Idle
    <2>3. CASE Looks(t)
      BY <1>1, <2>3 DEF Looks, AccepterIsInvited, PendingInvites
    <2>4. CASE GoesOn(t) \/ Checked(t)
      BY <2>4 DEF GoesOn, Checked, AccepterIsInvited
    <2> QED
      BY <1>0, <2>1, <2>2, <2>3, <2>4, JobStep DEF JobMoves
  <1> QED
    BY <1>1, <1>2, <1>3

\* While memberships carry the numbers of their users, the look-up by number
\* finds what the user has joined.
LEMMA SeenByNumber ==
  ASSUME Base, UnmovedInv
  PROVE  JoinedIsSeenUnmoved
  <1>1. SUFFICES ASSUME habit # "move", NEW u \in Users,
                        {g \in Groups \ Owned(u) : u \in Members(g)} # {}
                 PROVE  Seen(u) \subseteq {g \in Groups \ Owned(u) : u \in Members(g)}
    BY DEF JoinedIsSeenUnmoved, JoinedIsSeen
  <1>2. phone = FirstPhone /\ \A r \in Rows : RowIsUsers(r)
    BY <1>1 DEF UnmovedInv
  <1>3. ASSUME NEW g \in Groups, NEW r \in Accepted(g)
        PROVE  rows[r].number = phone[u].number <=> rows[r].user = u
    <2>1. r \in Rows /\ rows[r] \in Member /\ rows[r].status = "accepted"
      BY <1>3 DEF Accepted, RowsOf, LiveRows
    <2>2. rows[r].user \in Users /\ rows[r].number = FirstPhone[rows[r].user].number
      BY <1>2, <2>1 DEF RowIsUsers
    <2> QED
      BY <1>2, <2>2, OneAccountPerNumber DEF OneAccountPerNumber
  <1>4. Joined(u) = {g \in Groups \ Owned(u) : u \in Members(g)}
    BY <1>3 DEF Joined, Members
  <1> QED
    BY <1>1, <1>4 DEF Seen

\* Whoever has joined the family of another, and keeps the number, is shown a
\* family joined that way by every request, also where requests overlap and die
\* between their look and their write (_get_user_group, accept_invite).
THEOREM JoinedIsSeenHolds == HabitSpec => []JoinedIsSeenUnmoved
  <1>1. HabitInit => UnmovedInv
    BY Marks DEF HabitInit, Init, UnmovedInv, RowIsUsers, AccepterIsInvited, Idle
  <1>2. Base /\ UnmovedInv /\ [HabitNext]_<<vars, habit>> => UnmovedInv'
    BY UnmovedStep
  <1>3. Base /\ UnmovedInv => JoinedIsSeenUnmoved
    BY SeenByNumber
  <1> QED
    BY <1>1, <1>2, <1>3, HabitBase, PTL DEF HabitSpec

-----------------------------------------------------------------------------
(* Requests that come one at a time.                                        *)

\* Nobody else is in the middle of something.
Alone == \A s, t \in Threads : job[s] = Idle \/ job[t] = Idle \/ s = t

\* What a request found is still so when it writes: its user has no family, the
\* family has no such number.
StillClear(t) ==
  /\ job[t].at \in {"create", "auto"} => Owned(job[t].user) = {}
  /\ job[t].at = "insert" => \A r \in RowsOf(job[t].group) : rows[r].number # job[t].number

\* No two families have one owner.
OneFamilyEach == \A g, h \in Groups : groups[g] \in Users /\ groups[g] = groups[h] => g = h

TurnInv == InTurn => Alone /\ OneFamilyEach /\ NumberOnce /\ \A t \in Threads : StillClear(t)

\* A thread that writes is done, or goes on with its invitation.
LEMMA WriterIsDone ==
  ASSUME Base, [Next]_vars, NEW t \in Threads, NEW r \in Rows, Writes(t, r)
  PROVE  job'[t].at \in {"idle", "invite"}
  <1>1. job'[t] # job[t] /\ job[t].at # "idle" /\ job[t].at # "invite"
    BY DEF Writes, Founds, Invites, Amends, Deletes
  <1> QED
    BY <1>1, JobStep DEF JobMoves, Looks, GoesOn, Checked, Idle

\* A request alone writes what it found to be still possible.
LEMMA TurnStep ==
  ASSUME Base, TurnInv, [HabitNext]_<<vars, habit>>
  PROVE  TurnInv'
  <1>0. [Next]_vars /\ habit' = habit
    BY HabitStep
  <1> SUFFICES ASSUME InTurn
               PROVE  /\ Alone' /\ OneFamilyEach' /\ NumberOnce'
                      /\ \A t \in Threads : StillClear(t)'
    BY <1>0 DEF TurnInv, InTurn
  <1>1. Alone /\ OneFamilyEach /\ NumberOnce /\ \A t \in Threads : StillClear(t) /\ JobKnows(t)
    BY DEF TurnInv, Base
  <1>2. Alone'
    BY <1>1, HabitStep DEF Alone, Within, InTurn
  <1>3. /\ rows \in [Rows -> Member \union {Unborn, Gone}]
        /\ groups \in [Groups -> Users \union {Unborn}] /\ FamilyOfRow
    BY DEF Base, TypeOK
  <1>4. CASE rows' = rows /\ groups' = groups
    <2>1. OneFamilyEach' /\ NumberOnce'
      BY <1>1, <1>4 DEF OneFamilyEach, NumberOnce, LiveRows
    <2>2. ASSUME NEW t \in Threads PROVE StillClear(t)'
      <3>0. /\ \A u : Owned(u)' = Owned(u)
            /\ \A g : RowsOf(g)' = RowsOf(g)
        BY <1>4 DEF Owned, RowsOf, LiveRows
      <3>1. CASE job'[t] = job[t]
        BY <1>1, <1>4, <3>0, <3>1 DEF StillClear
      <3>2. CASE job'[t] = Idle
        BY <3>2 DEF StillClear, Idle
      <3>3. CASE Looks(t)
        BY <3>0, <3>3 DEF Looks, StillClear, Seen
      <3>4. CASE GoesOn(t)
        BY <3>4 DEF GoesOn, StillClear
      <3>5. CASE Checked(t)
        BY <1>4, <3>0, <3>5 DEF Checked, StillClear, Invitable
      <3> QED
        BY <1>0, <3>1, <3>2, <3>3, <3>4, <3>5, JobStep DEF JobMoves
    <2> QED
      BY <1>2, <2>1, <2>2
  <1>5. ASSUME NEW t \in Threads, NEW r \in Rows, Writes(t, r)
        PROVE  OneFamilyEach' /\ NumberOnce' /\ \A s \in Threads : StillClear(s)'
    <2>1. ASSUME NEW s \in Threads PROVE StillClear(s)'
      <3>1. CASE s = t
        BY <1>0, <1>5, <3>1, WriterIsDone DEF StillClear
      <3>2. CASE s # t
        <4>1. job'[s] = job[s] /\ job[s] = Idle
          BY <1>1, <1>5, <3>2 DEF Writes, Alone, Idle
        <4> QED
          BY <4>1 DEF StillClear, Idle
      <3> QED
        BY <3>1, <3>2
    <2>2. OneFamilyEach'
      <3>1. CASE Founds(t, r)
        <4>1. /\ job[t].user \in Users /\ \A g \in Groups : groups[g] # job[t].user
              /\ rows'[r].group \in Groups
          BY <1>1, <3>1 DEF Founds, StillClear, Owned, JobKnows, Member
        <4> QED
          BY <1>1, <1>3, <3>1, <4>1 DEF Founds, OneFamilyEach
      <3>2. CASE groups' = groups
        BY <1>1, <3>2 DEF OneFamilyEach
      <3> QED
        BY <1>5, <3>1, <3>2 DEF Writes
    <2>3. ASSUME NEW a \in Rows, rows'[a] \in Member, rows'[r] \in Member, a # r,
                 rows'[a].group = rows'[r].group, rows'[a].number = rows'[r].number
          PROVE  FALSE
      <3>1. rows'[a] = rows[a]
        BY <1>5, <2>3 DEF Writes
      <3>2. a \in LiveRows /\ groups[rows[a].group] # Unborn
        BY <1>3, <2>3, <3>1 DEF LiveRows, FamilyOfRow
      <3>3. CASE Founds(t, r)
        BY <2>3, <3>1, <3>2, <3>3 DEF Founds
      <3>4. CASE Invites(t, r)
        BY <1>1, <2>3, <3>1, <3>2, <3>4 DEF Invites, StillClear, RowsOf
      <3>5. CASE Amends(t, r)
        BY <1>1, <2>3, <3>1, <3>2, <3>5 DEF Amends, NumberOnce, LiveRows
      <3>6. CASE Deletes(t, r)
        BY <2>3, <3>6, Marks DEF Deletes
      <3> QED
        BY <1>5, <3>3, <3>4, <3>5, <3>6 DEF Writes
    <2>4. NumberOnce'
      <3>1. ASSUME NEW a \in Rows, NEW b \in Rows, rows'[a] \in Member, rows'[b] \in Member,
                   rows'[a].group = rows'[b].group, rows'[a].number = rows'[b].number, a # b
            PROVE  FALSE
        <4>1. CASE a # r /\ b # r
          BY <1>1, <1>5, <3>1, <4>1 DEF Writes, NumberOnce, LiveRows
        <4> QED
          BY <2>3, <3>1, <4>1
      <3> QED
        BY <3>1 DEF NumberOnce, LiveRows
    <2> QED
      BY <2>1, <2>2, <2>4
  <1> QED
    BY <1>0, <1>2, <1>4, <1>5, WriteStep

\* A set of families without two has one at most.
LEMMA AtMostOne ==
  ASSUME OneFamilyEach
  PROVE  FoundsOne
  <1> SUFFICES ASSUME NEW u \in Users PROVE Cardinality(Owned(u)) <= 1
    BY DEF FoundsOne
  <1>1. CASE Owned(u) = {}
    BY <1>1, FS_EmptySet
  <1>2. CASE Owned(u) # {}
    <2>1. PICK g \in Owned(u) : TRUE
      BY <1>2
    <2>2. Owned(u) = {g}
      BY <2>1 DEF OneFamilyEach, Owned
    <2> QED
      BY <2>2, FS_Singleton
  <1> QED
    BY <1>1, <1>2

\* Where requests come one at a time, whatever dies in between and whoever
\* changes numbers, a user founds one family at most and a number is in a
\* family once (create_group, invite_member: each looks before it inserts).
THEOREM NoDoublesHolds == HabitSpec => []NoDoublesInTurn
  <1>1. HabitInit => TurnInv
    BY Marks DEF HabitInit, Init, TurnInv, Alone, OneFamilyEach, NumberOnce, LiveRows, StillClear, Idle
  <1>2. Base /\ TurnInv /\ [HabitNext]_<<vars, habit>> => TurnInv'
    BY TurnStep
  <1>3. TurnInv => NoDoublesInTurn
    BY AtMostOne DEF TurnInv, NoDoublesInTurn
  <1> QED
    BY <1>1, <1>2, <1>3, HabitBase, PTL DEF HabitSpec

-----------------------------------------------------------------------------
(* What members put in, and what they earn.                                 *)

\* Nobody founds a family with a contribution above the salary: create_group
\* does not compare them, as set_contribution does.
SharesWithinSalaries == \A a \in Shares, u \in Users : a <= Salary[u]

\* A membership's contribution is within its user's salary.
RowPays(r) ==
  rows[r] \in Member =>
    IF rows[r].user \in Users THEN rows[r].share <= Salary[rows[r].user] ELSE rows[r].share = 0

\* So is one that a request is about to write, to a membership of its user.
JobPays(t) ==
  /\ job[t].at \in {"create", "share"} => job[t].share <= Salary[job[t].user]
  /\ job[t].at = "share" /\ rows[job[t].row] \in Member => rows[job[t].row].user = job[t].user

\* There are finitely many memberships.
PaysInv ==
  /\ IsFiniteSet(LiveRows)
  /\ habit # "move" => (\A r \in Rows : RowPays(r)) /\ \A t \in Threads : JobPays(t)

\* A thread's record changes by a step of that thread.
LEMMA OwnStep ==
  ASSUME Base, [Next]_vars, NEW t \in Threads, job'[t] # job[t]
  PROVE  Step(t)
  <1>0. job \in [Threads -> Job]
    BY DEF Base, TypeOK
  <1>1. ASSUME NEW s \in Threads, Step(s), s # t PROVE job'[t] = job[t]
    BY <1>0, <1>1 DEF Step, CreateStart, CreateCommit, InviteStart, AutoCommit, InviteCheck, InviteInsert,
       AcceptStart, AcceptCommit, CancelStart, CancelCommit, ShareStart, ShareCommit, Dies, Works, Finish
  <1> QED
    BY <1>1 DEF Next, vars, SpendPersonal, SpendFamily, ChangePhone

\* What a contribution asked for is, and whose.
LEMMA AskStep ==
  ASSUME Base, [Next]_vars, NEW t \in Threads, job'[t] # job[t], job'[t].at \in {"create", "share"}
  PROVE  /\ rows' = rows
         /\ job'[t].user \in Users /\ job'[t].share \in Shares \union {Salary[job'[t].user]}
         /\ job'[t].at = "share" => /\ job'[t].row \in LiveRows
                                    /\ rows[job'[t].row].user = job'[t].user
                                    /\ job'[t].share \in Shares
  <1>0. job \in [Threads -> Job] /\ Idle.at = "idle"
    BY DEF Base, TypeOK, Idle
  <1>1. Step(t)
    BY OwnStep
  <1>2. CASE \E u \in Users, a \in Shares \union {Salary[v] : v \in Users} : CreateStart(t, u, a)
    <2>1. PICK u \in Users, a \in Shares \union {Salary[v] : v \in Users} : CreateStart(t, u, a)
      BY <1>2
    <2>2. /\ job'[t].user = u /\ job'[t].share = a /\ job'[t].at = "create"
          /\ a \in Shares \union {Salary[u]} /\ rows' = rows
      BY <1>0, <2>1 DEF CreateStart, Works, Idle
    <2> QED
      BY <2>2
  <1>3. CASE \E u \in Users, r \in Rows, a \in Shares : ShareStart(t, u, r, a)
    <2>1. PICK u \in Users, r \in Rows, a \in Shares : ShareStart(t, u, r, a)
      BY <1>3
    <2>2. /\ job'[t].user = u /\ job'[t].share = a /\ job'[t].row = r
          /\ r \in LiveRows /\ rows[r].user = u /\ rows' = rows
      BY <1>0, <2>1 DEF ShareStart, Works, Idle
    <2> QED
      BY <2>2
  <1>4. ASSUME \/ \E g \in Groups, r \in Rows : CreateCommit(t, g, r)
               \/ \E r \in Rows, u \in Users \union {NoUser} : InviteInsert(t, r, u)
               \/ AcceptCommit(t) \/ CancelCommit(t) \/ ShareCommit(t) \/ Dies(t)
        PROVE  job'[t] = Idle
    BY <1>0, <1>4 DEF CreateCommit, InviteInsert, AcceptCommit, CancelCommit, ShareCommit, Dies,
       Finish, Works
  <1>5. ASSUME NEW g \in Groups, NEW r \in Rows, AutoCommit(t, g, r) PROVE job'[t].at = "invite"
    BY <1>0, <1>5 DEF AutoCommit, Works, Job
  <1>6. ASSUME NEW u \in Users, NEW n \in Numbers, InviteStart(t, u, n)
        PROVE  job'[t].at \in {"auto", "invite"}
    BY <1>0, <1>6 DEF InviteStart, Works, Idle
  <1>7. ASSUME InviteCheck(t) PROVE job'[t].at \in {"insert", "idle"}
    BY <1>0, <1>7 DEF InviteCheck, Works, Finish, Idle, Job
  <1>8. ASSUME NEW u \in Users, NEW r \in Rows, AcceptStart(t, u, r) \/ CancelStart(t, u, r)
        PROVE  job'[t].at \in {"accept", "cancel"}
    BY <1>0, <1>8 DEF AcceptStart, CancelStart, Works, Idle
  <1> QED
    BY <1>0, <1>1, <1>2, <1>3, <1>4, <1>5, <1>6, <1>7, <1>8 DEF Step

\* What is written as a contribution, and over whose membership.
LEMMA PayStep ==
  ASSUME Base, [Next]_vars, NEW r \in Rows, rows'[r] # rows[r], rows'[r] \in Member
  PROVE  \E t \in Threads :
           \/ /\ job[t].at = "create"
              /\ rows'[r].user = job[t].user /\ rows'[r].share = job[t].share
           \/ job[t].at \in {"auto", "insert"} /\ rows'[r].share = 0
           \/ /\ job[t].at = "accept" /\ r = job[t].row /\ rows[r] \in Member
              /\ rows'[r].user = job[t].user
              /\ rows'[r].share \in {rows[r].share, Salary[job[t].user]}
           \/ /\ job[t].at = "share" /\ r = job[t].row /\ rows[r] \in Member
              /\ rows'[r].user = rows[r].user /\ rows'[r].share = job[t].share
  <1>0. /\ rows \in [Rows -> Member \union {Unborn, Gone}] /\ job \in [Threads -> Job]
        /\ \A t \in Threads : JobKnows(t)
    BY DEF Base, TypeOK
  <1>1. ASSUME NEW t \in Threads, NEW g, NEW s \in Rows, NEW a, Founded(job[t].user, g, s, a)
        PROVE  rows'[r].user = job[t].user /\ rows'[r].share = a
    BY <1>0, <1>1 DEF Founded
  <1>2. ASSUME NEW t \in Threads, NEW g \in Groups, NEW s \in Rows,
               CreateCommit(t, g, s) \/ AutoCommit(t, g, s)
        PROVE  \/ /\ job[t].at = "create"
                  /\ rows'[r].user = job[t].user /\ rows'[r].share = job[t].share
               \/ job[t].at = "auto" /\ rows'[r].share = 0
    BY <1>1, <1>2 DEF CreateCommit, AutoCommit
  <1>3. ASSUME NEW t \in Threads, NEW s \in Rows, NEW u, InviteInsert(t, s, u)
        PROVE  job[t].at = "insert" /\ rows'[r].share = 0
    BY <1>0, <1>3 DEF InviteInsert
  <1>4. ASSUME NEW t \in Threads, AcceptCommit(t)
        PROVE  /\ job[t].at = "accept" /\ r = job[t].row /\ rows[r] \in Member
               /\ rows'[r].user = job[t].user
               /\ rows'[r].share \in {rows[r].share, Salary[job[t].user]}
    <2>1. job[t].at = "accept" /\ r = job[t].row /\ rows[r] \in Member
      BY <1>0, <1>4 DEF AcceptCommit, JobKnows
    <2> DEFINE u == job[t].user
               share == IF job[t].share = 0 /\ Salary[u] > 0 THEN Salary[u] ELSE rows[r].share
               new == [rows[r] EXCEPT !.status = "accepted", !.user = u, !.share = share]
    <2>2. rows' = [rows EXCEPT ![r] = new]
      BY <1>0, <1>4, <2>1, Marks DEF AcceptCommit
    <2>3. share \in {rows[r].share, Salary[u]}
      OBVIOUS
    <2> HIDE DEF share, u
    <2>4. new.user = u /\ new.share = share
      BY <2>1 DEF Member
    <2> HIDE DEF new
    <2>5. rows'[r] = new
      BY <1>0, <2>2
    <2> QED
      BY <2>1, <2>3, <2>4, <2>5 DEF u
  <1>5. ASSUME NEW t \in Threads, CancelCommit(t) PROVE FALSE
    BY <1>0, <1>5, Marks DEF CancelCommit
  <1>6. ASSUME NEW t \in Threads, ShareCommit(t)
        PROVE  /\ job[t].at = "share" /\ r = job[t].row /\ rows[r] \in Member
               /\ rows'[r].user = rows[r].user /\ rows'[r].share = job[t].share
    <2>1. job[t].at = "share" /\ r = job[t].row /\ rows[r] \in Member
      BY <1>0, <1>6 DEF ShareCommit, JobKnows
    <2>2. rows'[r] = [rows[r] EXCEPT !.share = job[t].share]
      BY <1>0, <1>6, <2>1 DEF ShareCommit
    <2> QED
      BY <2>1, <2>2 DEF Member
  <1>7. \/ \E t \in Threads, g \in Groups, s \in Rows : CreateCommit(t, g, s) \/ AutoCommit(t, g, s)
        \/ \E t \in Threads, s \in Rows, u \in Users \union {NoUser} : InviteInsert(t, s, u)
        \/ \E t \in Threads : AcceptCommit(t) \/ CancelCommit(t) \/ ShareCommit(t)
    BY DEF Next, vars, Step, CreateStart, InviteStart, InviteCheck, AcceptStart, CancelStart,
       ShareStart, Dies, SpendPersonal, SpendFamily, ChangePhone
  <1>8. CASE \E t \in Threads, g \in Groups, s \in Rows : CreateCommit(t, g, s) \/ AutoCommit(t, g, s)
    BY <1>2, <1>8
  <1>9. CASE \E t \in Threads, s \in Rows, u \in Users \union {NoUser} : InviteInsert(t, s, u)
    BY <1>3, <1>9
  <1>10. CASE \E t \in Threads : AcceptCommit(t) \/ CancelCommit(t) \/ ShareCommit(t)
    BY <1>4, <1>5, <1>6, <1>10
  <1> QED
    BY <1>7, <1>8, <1>9, <1>10

\* Memberships stay finitely many, and what is in them within the salaries.
LEMMA PaysStep ==
  ASSUME SharesWithinSalaries, Base, UnmovedInv, PaysInv, [HabitNext]_<<vars, habit>>
  PROVE  PaysInv'
  <1>0. [Next]_vars /\ Base' /\ habit' = habit
    BY HabitStep, BaseStep
  <1>1. IsFiniteSet(LiveRows')
    <2>1. CASE rows' = rows
      BY <2>1 DEF PaysInv, LiveRows
    <2>2. ASSUME NEW t \in Threads, NEW r \in Rows, Writes(t, r) PROVE IsFiniteSet(LiveRows')
      <3>1. LiveRows' \subseteq LiveRows \union {r}
        BY <2>2 DEF Writes, LiveRows
      <3> QED
        BY <3>1, FS_AddElement, FS_Subset DEF PaysInv
    <2> QED
      BY <1>0, <2>1, <2>2, WriteStep
  <1>2. SUFFICES ASSUME habit # "move"
                 PROVE  (\A r \in Rows : RowPays(r)') /\ \A t \in Threads : JobPays(t)'
    BY <1>0, <1>1 DEF PaysInv
  <1>3. /\ phone = FirstPhone /\ phone' = phone
        /\ \A r \in Rows : RowIsUsers(r) /\ RowPays(r)
        /\ \A t \in Threads : AccepterIsInvited(t) /\ JobKnows(t) /\ JobPays(t)
    BY <1>2, HabitStep DEF UnmovedInv, PaysInv, Base
  <1>4. /\ rows \in [Rows -> Member \union {Unborn, Gone}] /\ job \in [Threads -> Job]
        /\ Salary \in [Users -> Nat]
    BY Marks DEF Base, TypeOK
  <1>5. ASSUME NEW r \in Rows PROVE RowPays(r)'
    <2>1. CASE rows'[r] = rows[r]
      BY <1>3, <2>1 DEF RowPays
    <2>2. CASE rows'[r] # rows[r] /\ rows'[r] \in Member
      <3>1. PICK t \in Threads :
           \/ /\ job[t].at = "create"
              /\ rows'[r].user = job[t].user /\ rows'[r].share = job[t].share
           \/ job[t].at \in {"auto", "insert"} /\ rows'[r].share = 0
           \/ /\ job[t].at = "accept" /\ r = job[t].row /\ rows[r] \in Member
              /\ rows'[r].user = job[t].user
              /\ rows'[r].share \in {rows[r].share, Salary[job[t].user]}
           \/ /\ job[t].at = "share" /\ r = job[t].row /\ rows[r] \in Member
              /\ rows'[r].user = rows[r].user /\ rows'[r].share = job[t].share
        BY <1>0, <2>2, PayStep
      <3>2. CASE job[t].at = "create" /\ rows'[r].user = job[t].user /\ rows'[r].share = job[t].share
        BY <1>3, <3>2 DEF RowPays, JobPays, JobKnows
      <3>3. CASE rows'[r].share = 0
        BY <1>4, <3>3 DEF RowPays
      <3>4. CASE /\ job[t].at = "accept" /\ r = job[t].row /\ rows[r] \in Member
                 /\ rows'[r].user = job[t].user
                 /\ rows'[r].share \in {rows[r].share, Salary[job[t].user]}
        <4>1. job[t].user \in Users /\ Salary[job[t].user] \in Nat
          BY <1>3, <1>4, <3>4 DEF JobKnows
        <4>2. rows[r].share <= Salary[job[t].user]
          <5>1. CASE rows[r].user \in Users
            <6>1. rows[r].number = FirstPhone[rows[r].user].number
              BY <1>3, <3>4, <5>1 DEF RowIsUsers
            <6>2. rows[r].number = FirstPhone[job[t].user].number
              BY <1>3, <3>4 DEF AccepterIsInvited
            <6>3. rows[r].user = job[t].user
              BY <4>1, <5>1, <6>1, <6>2, OneAccountPerNumber DEF OneAccountPerNumber
            <6> QED
              BY <1>3, <3>4, <5>1, <6>3 DEF RowPays
          <5>2. CASE rows[r].user \notin Users
            BY <1>3, <3>4, <4>1, <5>2 DEF RowPays
          <5> QED
            BY <5>1, <5>2
        <4> QED
          BY <3>4, <4>1, <4>2 DEF RowPays
      <3>5. CASE /\ job[t].at = "share" /\ r = job[t].row /\ rows[r] \in Member
                 /\ rows'[r].user = rows[r].user /\ rows'[r].share = job[t].share
        BY <1>3, <3>5 DEF RowPays, JobPays, JobKnows
      <3> QED
        BY <3>1, <3>2, <3>3, <3>4, <3>5
    <2> QED
      BY <2>1, <2>2 DEF RowPays
  <1>6. ASSUME NEW t \in Threads PROVE JobPays(t)'
    <2>1. CASE job'[t] # job[t] /\ job'[t].at \in {"create", "share"}
      <3>1. /\ rows' = rows
            /\ job'[t].user \in Users /\ job'[t].share \in Shares \union {Salary[job'[t].user]}
            /\ job'[t].at = "share" => /\ job'[t].row \in LiveRows
                                       /\ rows[job'[t].row].user = job'[t].user
        BY <1>0, <2>1, AskStep
      <3>2. job'[t].share <= Salary[job'[t].user]
        BY <1>4, <3>1 DEF SharesWithinSalaries
      <3> QED
        BY <3>1, <3>2 DEF JobPays
    <2>2. CASE job'[t] = job[t]
      <3>1. ASSUME job[t].at = "share", NEW r \in Rows, r = job[t].row, rows[r] # Unborn, rows'[r] \in Member
            PROVE  rows'[r].user = job[t].user
        <4>1. CASE rows'[r] = rows[r]
          BY <1>3, <3>1, <4>1 DEF JobPays
        <4>2. CASE rows'[r] # rows[r]
          <5>1. PICK s \in Threads : Writes(s, r)
            BY <1>0, <4>2, WriteStep DEF Writes
          <5>2. Amends(s, r)
            BY <3>1, <5>1, Marks DEF Writes, Founds, Invites, Deletes
          <5>3. rows[r].user = job[t].user /\ rows[r] \in Member
            BY <1>3, <3>1, <5>2 DEF JobPays, Amends
          <5>4. CASE rows'[r].user = rows[r].user
            BY <5>3, <5>4
          <5>5. CASE job[s].at = "accept" /\ job[s].row = r /\ rows'[r].user = job[s].user
            <6>1. job[s].user \in Users /\ job[t].user \in Users
              BY <1>3, <3>1, <5>5 DEF JobKnows
            <6>2. rows[r].number = FirstPhone[job[t].user].number
              BY <1>3, <5>3, <6>1 DEF RowIsUsers
            <6>3. rows[r].number = FirstPhone[job[s].user].number
              BY <1>3, <5>3, <5>5 DEF AccepterIsInvited
            <6> QED
              BY <5>5, <6>1, <6>2, <6>3, OneAccountPerNumber DEF OneAccountPerNumber
          <5> QED
            BY <5>2, <5>4, <5>5 DEF Amends
        <4> QED
          BY <4>1, <4>2
      <3> QED
        BY <1>3, <2>2, <3>1 DEF JobPays, JobKnows
    <2>3. CASE job'[t].at \notin {"create", "share"}
      BY <2>3 DEF JobPays
    <2> QED
      BY <2>1, <2>2, <2>3
  <1> QED
    BY <1>5, <1>6

\* A household's income as a sum over its memberships.
Paid(l) == [r \in Rows |-> l[r].share]

\* A household's income is the sum of its accepted members' shares.
LEMMA IncomeIs == \A g : Income(g) = SumOf(Paid(rows), Accepted(g))
  <1> TAKE g
  <1> DEFINE S == Accepted(g)
             f == Paid(rows)
             A(k) == [U \in SUBSET S |-> IF U = {} THEN 0
                        ELSE rows[Chosen(U)].share + k[U \ {Chosen(U)}]]
  <1>1. \A r \in S : r \in Rows
    BY DEF Accepted, RowsOf, LiveRows
  <1>2. Income(g) = MapThenSumSet(LAMBDA r : rows[r].share, S)
    BY DEF Income
  <1> HIDE DEF S
  <1>3. Income(g) = (CHOOSE k : k = A(k))[S]
    BY <1>2, Zenon DEF MapThenSumSet, MapThenFoldSet, Chosen
  <1>4. SumOf(f, S) = (CHOOSE k : k = Unfolded(f, S, k))[S]
    BY Zenon DEF SumOf, MapThenSumSet, MapThenFoldSet, Unfolded, Chosen
  <1>5. ASSUME NEW k PROVE A(k) = Unfolded(f, S, k)
    <2>1. ASSUME NEW U \in SUBSET S, U # {} PROVE rows[Chosen(U)].share = f[Chosen(U)]
      <3>1. Chosen(U) \in Rows
        BY <1>1, <2>1, ChosenIn
      <3> QED
        BY <3>1 DEF Paid
    <2> HIDE DEF f
    <2> QED
      BY <2>1 DEF Unfolded
  <1> HIDE DEF A, f
  <1>6. (CHOOSE k : k = A(k)) = (CHOOSE k : k = Unfolded(f, S, k))
    BY <1>5, Zenon
  <1> QED
    BY <1>3, <1>4, <1>6 DEF S, f

\* In a family without doubles the members' contributions are within their pay.
LEMMA WithinMeans ==
  ASSUME Base, UnmovedInv, TurnInv, PaysInv
  PROVE  MeansInTurn
  <1>1. SUFFICES ASSUME habit # "move", InTurn, NEW g \in Groups
                 PROVE  Income(g) <= MapThenSumSet(LAMBDA u : Salary[u], Members(g))
    BY DEF MeansInTurn, HouseholdWithinMeans, InTurn
  <1> DEFINE S == Accepted(g)
             who == [r \in Rows |-> rows[r].user]
             f == Paid(rows)
             k == [r \in Rows |-> Salary[rows[r].user]]
  <1>2. Salary \in [Users -> Nat]
    BY Marks
  <1>3. ASSUME NEW r \in S
        PROVE  /\ r \in Rows /\ rows[r].user \in Users /\ rows[r].number = phone[rows[r].user].number
               /\ f[r] \in Nat /\ k[r] \in Nat /\ f[r] <= k[r]
               /\ who[r] = rows[r].user /\ k[r] = Salary[who[r]]
    <2>1. r \in Rows /\ rows[r] \in Member /\ rows[r].status = "accepted" /\ rows[r].group = g
      BY DEF Accepted, RowsOf, LiveRows
    <2>2. rows[r].user \in Users /\ rows[r].number = phone[rows[r].user].number
      BY <1>1, <2>1 DEF UnmovedInv, RowIsUsers
    <2>3. rows[r].share \in Nat /\ rows[r].share <= Salary[rows[r].user]
      BY <1>1, <2>1, <2>2 DEF PaysInv, RowPays, Member
    <2> QED
      BY <1>2, <2>1, <2>2, <2>3 DEF Paid
  <1>4. IsFiniteSet(S)
    <2>1. S \subseteq LiveRows
      BY DEF Accepted, RowsOf
    <2> QED
      BY <2>1, FS_Subset DEF PaysInv
  <1>5. \A r, s \in S : who[r] = who[s] => r = s
    <2> SUFFICES ASSUME NEW r \in S, NEW s \in S, who[r] = who[s] PROVE r = s
      OBVIOUS
    <2>1. rows[r].number = rows[s].number /\ rows[r].group = rows[s].group
          /\ r \in LiveRows /\ s \in LiveRows
      <3>1. rows[r].user = rows[s].user
        BY <1>3
      <3> QED
        BY <1>3, <3>1 DEF Accepted, RowsOf
    <2> QED
      BY <1>1, <2>1 DEF TurnInv, NumberOnce
  <1>6. Members(g) = {who[r] : r \in S}
    BY <1>3 DEF Members
  <1> HIDE DEF S, who, f, k
  <1>7. SumOf(f, S) <= SumOf(k, S)
    BY <1>3, <1>4, SumLess
  <1>8. SumOf(Salary, {who[r] : r \in S}) = SumOf(k, S)
    <2>1. /\ \A r \in S : k[r] \in Nat
          /\ \A r \in S : Salary[who[r]] = k[r]
      BY <1>3
    <2> QED
      BY <1>4, <1>5, <2>1, SumNamed
  <1>9. MapThenSumSet(LAMBDA u : Salary[u], Members(g)) = SumOf(Salary, Members(g))
    BY Zenon DEF SumOf
  <1>10. Income(g) = SumOf(f, S)
    BY IncomeIs DEF f, S
  <1> QED
    BY <1>6, <1>7, <1>8, <1>9, <1>10

\* Where requests come one at a time and users keep their numbers, a household
\* has no more than its members earn, if none founded it with more: a member
\* who is invited again, or whose request dies, is not counted twice.
THEOREM MeansHold ==
  ASSUME SharesWithinSalaries
  PROVE  HabitSpec => []MeansInTurn
  <1> DEFINE I == UnmovedInv /\ TurnInv /\ PaysInv
  <1>1. HabitInit => I
    <2> SUFFICES ASSUME HabitInit PROVE I
      OBVIOUS
    <2>1. UnmovedInv /\ TurnInv
      BY Marks DEF HabitInit, Init, UnmovedInv, RowIsUsers, AccepterIsInvited, Idle, TurnInv, Alone,
         OneFamilyEach, NumberOnce, LiveRows, StillClear
    <2>2. LiveRows = {} /\ (\A r \in Rows : RowPays(r)) /\ \A t \in Threads : JobPays(t)
      BY Marks DEF HabitInit, Init, LiveRows, RowPays, JobPays, Idle
    <2> QED
      BY <2>1, <2>2, FS_EmptySet DEF PaysInv
  <1>2. Base /\ I /\ [HabitNext]_<<vars, habit>> => I'
    BY UnmovedStep, TurnStep, PaysStep
  <1>3. Base /\ I => MeansInTurn
    BY WithinMeans
  <1> QED
    BY <1>1, <1>2, <1>3, HabitBase, PTL DEF HabitSpec

-----------------------------------------------------------------------------
(* Who spent what.                                                          *)

\* Finitely many users, each with a name of the user's own: the breakdown is
\* keyed by names.
OwnNameEach == IsFiniteSet(Users) /\ \A u, v \in Users : Name[u] = Name[v] => u = v

\* Who has accepted is a user.
AcceptedKnown == \A r \in LiveRows : rows[r].status = "accepted" => rows[r].user \in Users

\* Only a user becomes an accepted member.
LEMMA KnownStep ==
  ASSUME Base, AcceptedKnown, [Next]_vars
  PROVE  AcceptedKnown'
  <1>1. CASE rows' = rows
    BY <1>1 DEF AcceptedKnown, LiveRows
  <1>2. ASSUME NEW t \in Threads, NEW r \in Rows, Writes(t, r), NEW s \in Rows, rows'[s] \in Member,
               rows'[s].status = "accepted"
        PROVE  rows'[s].user \in Users
    <2>1. CASE s # r
      BY <1>2, <2>1 DEF Writes, AcceptedKnown, LiveRows
    <2>2. CASE s = r
      <3>1. job[t].at # "idle" => job[t].user \in Users
        BY DEF Base, JobKnows
      <3>2. CASE Founds(t, r)
        BY <2>2, <3>1, <3>2 DEF Founds
      <3>3. CASE Invites(t, r)
        BY <1>2, <2>2, <3>3 DEF Invites
      <3>4. CASE Amends(t, r)
        BY <1>2, <2>2, <3>1, <3>4 DEF Amends, AcceptedKnown, LiveRows
      <3>5. CASE Deletes(t, r)
        BY <1>2, <2>2, <3>5, Marks DEF Deletes
      <3> QED
        BY <1>2, <3>2, <3>3, <3>4, <3>5 DEF Writes
    <2> QED
      BY <2>1, <2>2
  <1> QED
    BY <1>1, <1>2, WriteStep DEF AcceptedKnown, LiveRows

\* Users with names of their own have labels of their own.
LEMMA LabelsApart ==
  ASSUME OwnNameEach, NEW g, NEW me, NEW u \in Users, NEW v \in Users,
         Label(g, u, me) = Label(g, v, me)
  PROVE  u = v
  <1> DEFINE named(w) == \E r \in RowsOf(g) : rows[r].user = w
  <1>1. CASE named(u) /\ named(v)
    <2>1. [name |-> Name[u], me |-> u = me] = [name |-> Name[v], me |-> v = me]
      BY <1>1 DEF Label
    <2>2. Name[u] = Name[v]
      BY <2>1
    <2> QED
      BY <2>2 DEF OwnNameEach
  <1>2. CASE ~named(u) /\ ~named(v)
    <2>1. [id |-> u] = [id |-> v]
      BY <1>2 DEF Label
    <2> QED
      BY <2>1
  <1>3. CASE named(u) /\ ~named(v)
    <2>1. [name |-> Name[u], me |-> u = me] = [id |-> v]
      BY <1>3 DEF Label
    <2> QED
      BY <2>1
  <1>4. CASE ~named(u) /\ named(v)
    <2>1. [name |-> Name[v], me |-> v = me] = [id |-> u]
      BY <1>4 DEF Label
    <2> QED
      BY <2>1
  <1> QED
    BY <1>1, <1>2, <1>3, <1>4

\* A breakdown keyed by labels that are apart lists what each one spent.
LEMMA ListsAll ==
  ASSUME OwnNameEach, Base, AcceptedKnown, NEW g \in Groups, NEW me, NEW b \in Breakdown(g, me)
  PROVE  /\ \A u \in Members(g) : b[Label(g, u, me)] = book[g][u]
         /\ MapThenSumSet(LAMBDA l : b[l], DOMAIN b) = Total(g)
  <1> DEFINE S == Members(g) \union Spenders(g)
             name == [u \in Users |-> Label(g, u, me)]
  <1>1. S \subseteq Users
    BY DEF Members, Spenders, Accepted, RowsOf, AcceptedKnown
  <1>2. book[g] \in [Users -> Nat]
    BY Marks DEF Base, TypeOK
  <1>3. \A u \in Users \ S : book[g][u] = 0
    BY <1>2 DEF Spenders
  <1>4. {Label(g, u, me) : u \in S} = {name[u] : u \in S}
    BY <1>1
  <1>5. PICK k \in [{Label(g, u, me) : u \in S} -> S] :
          /\ \A l \in {Label(g, u, me) : u \in S} : Label(g, k[l], me) = l
          /\ b = [l \in {Label(g, u, me) : u \in S} |-> book[g][k[l]]]
    BY DEF Breakdown
  <1> HIDE DEF S
  <1>6. ASSUME NEW u \in S PROVE b[Label(g, u, me)] = book[g][u]
    <2>1. k[Label(g, u, me)] \in S /\ Label(g, k[Label(g, u, me)], me) = Label(g, u, me)
      BY <1>5
    <2>2. k[Label(g, u, me)] = u
      BY <1>1, <2>1, LabelsApart
    <2> QED
      BY <1>5, <2>2
  <1>7. \A u, v \in S : name[u] = name[v] => u = v
    BY <1>1, LabelsApart
  <1>8. \A u \in S : b[name[u]] = book[g][u] /\ book[g][u] \in Nat
    BY <1>1, <1>2, <1>6
  <1>9. DOMAIN b = {name[u] : u \in S}
    BY <1>4, <1>5
  <1>10. IsFiniteSet(Users) /\ IsFiniteSet(S) /\ IsFiniteSet(Users \ S)
    BY <1>1, FS_Subset DEF OwnNameEach
  <1> HIDE DEF name
  <1>11. SumOf(b, {name[u] : u \in S}) = SumOf(book[g], S)
    BY <1>7, <1>8, <1>10, SumNamed
  <1>12. SumOf(book[g], Users) = SumOf(book[g], S)
    <2>1. \A u \in Users : book[g][u] \in Nat
      BY <1>2
    <2>2. SumOf(book[g], Users) = SumOf(book[g], S) + SumOf(book[g], Users \ S)
      <3> DEFINE f == book[g]
      <3>1. \A u \in Users : f[u] \in Nat
        BY <2>1
      <3> DEFINE R == Users \ S
      <3>2. /\ Users = S \union R /\ S \intersect R = {} /\ IsFiniteSet(S) /\ IsFiniteSet(R)
            /\ \A u \in S \union R : f[u] \in Nat
        BY <1>1, <1>10, <3>1
      <3> HIDE DEF f, R
      <3>3. SumOf(f, S \union R) = SumOf(f, S) + SumOf(f, R)
        BY <3>2, SumUnion
      <3> QED
        BY <3>2, <3>3 DEF f, R
    <2>3. SumOf(book[g], Users \ S) = 0
      BY <1>3, <1>10, SumZero
    <2>4. SumOf(book[g], S) \in Nat
      BY <1>1, <1>10, <2>1, SumNat
    <2> QED
      BY <2>2, <2>3, <2>4
  <1>13. Total(g) = SumOf(book[g], Users)
    BY Zenon DEF Total, SumOf
  <1>14. MapThenSumSet(LAMBDA l : b[l], DOMAIN b) = SumOf(b, DOMAIN b)
    BY Zenon DEF SumOf
  <1> QED
    BY <1>6, <1>9, <1>11, <1>12, <1>13, <1>14 DEF S

\* Where names differ, the breakdown that any member is shown has a line for
\* each of the family with what that one spent, and its lines add up to the
\* family's total, those of spenders who are no members included
\* (get_family_expenses), whatever runs at the same time.
THEOREM BreakdownHolds ==
  ASSUME OwnNameEach
  PROVE  Spec => []BreakdownComplete
  <1>1. Init => AcceptedKnown
    BY Marks DEF Init, AcceptedKnown, LiveRows
  <1>2. Base /\ AcceptedKnown => BreakdownComplete
    BY ListsAll DEF BreakdownComplete
  <1>3. Base /\ AcceptedKnown /\ [Next]_vars => Base' /\ AcceptedKnown'
    BY BaseStep, KnownStep
  <1> QED
    BY <1>1, <1>2, <1>3, BaseInit, PTL DEF Spec

=============================================================================
