--------------------------- MODULE MCLogin_proofs ---------------------------
(***************************************************************************)
(* Proofs about logging in, for any number of contacts, codes, accounts,   *)
(* addresses and threads, in each of the kinds of behaviour that MCLogin   *)
(* tells apart:                                                            *)
(*   - a person has one account if numbers are spelled one way;            *)
(*   - a logout ends a session, a lock lasts until its time is over;       *)
(*   - wrong passwords and guesses of a code stay within their limits;     *)
(*   - codes in Redis and Postgres keep the promise of OneTimeCode.        *)
(***************************************************************************)
EXTENDS MCLogin, FiniteSetTheorems, TLAPS

-----------------------------------------------------------------------------
(* Counting *)

\* Two disjoint parts of a finite set.
LEMMA TwoParts ==
  ASSUME NEW S, IsFiniteSet(S), NEW A \in SUBSET S, NEW B \in SUBSET S, A \intersect B = {}
  PROVE  Cardinality(A) + Cardinality(B) <= Cardinality(S)
<1>1. IsFiniteSet(A) /\ IsFiniteSet(B)
  BY FS_Subset
<1>2. IsFiniteSet(A \union B) /\ Cardinality(A \union B) <= Cardinality(S)
  BY FS_Subset, A \union B \in SUBSET S
<1>3. Cardinality(A \union B) = Cardinality(A) + Cardinality(B) - Cardinality(A \intersect B)
  BY <1>1, FS_Union
<1>4. Cardinality(A \intersect B) = 0
  BY FS_EmptySet
<1>5. Cardinality(A) \in Nat /\ Cardinality(B) \in Nat
  BY <1>1, FS_CardinalityType
<1> QED
  BY <1>2, <1>3, <1>4, <1>5

One(b) == IF b THEN 1 ELSE 0

\* Two finite sets that may differ in one element.
LEMMA Differ ==
  ASSUME NEW S, IsFiniteSet(S), NEW A \in SUBSET S, NEW B \in SUBSET S, NEW x, A \ {x} = B \ {x}
  PROVE  /\ Cardinality(A) \in Nat /\ Cardinality(B) \in Nat
         /\ Cardinality(B) = Cardinality(A) - One(x \in A) + One(x \in B)
<1> DEFINE C == A \ {x}
<1>1. IsFiniteSet(C) /\ Cardinality(C) \in Nat
  <2>1. C \in SUBSET S
    OBVIOUS
  <2> HIDE DEF C
  <2> QED
    BY <2>1, FS_Subset, FS_CardinalityType
<1>2. IsFiniteSet(A) /\ IsFiniteSet(B)
  BY FS_Subset
<1>3. Cardinality(C) = Cardinality(A) - One(x \in A)
  BY <1>2, FS_RemoveElement, FS_CardinalityType DEF One
<1>4. Cardinality(C) = Cardinality(B) - One(x \in B)
  <2>1. C = B \ {x}
    OBVIOUS
  <2> HIDE DEF C
  <2> QED
    BY <1>2, <2>1, FS_RemoveElement, FS_CardinalityType DEF One
<1> HIDE DEF C
<1>5. Cardinality(A) \in Nat /\ Cardinality(B) \in Nat
  BY <1>2, FS_CardinalityType
<1> QED
  BY <1>1, <1>3, <1>4, <1>5 DEF One

-----------------------------------------------------------------------------
(* Accounts *)

E164(p) == p \in Accounts!Phones /\ p.spelling = "e164"

\* Where everybody spells E.164, all stored and requested phones are so spelled.
OneSpelling ==
  /\ accounts \in [Ids -> Accounts!Account \union {Unborn}]
  /\ \A i \in Accounts!Live : E164(accounts[i].phone)
  /\ login \in [Threads -> Accounts!Job]
  /\ \A t \in Threads : login[t].phone \in Accounts!Phones => E164(login[t].phone)
  /\ \A t \in Threads : login[t].at \in {"insert", "create", "adopt"}
                          => login[t].phone \in Accounts!Phones
  /\ \A t \in Threads : login[t].at = "adopt" =>
       /\ login[t].id \in Accounts!Live
       /\ accounts[login[t].id].phone.number = login[t].phone.number
AccountInv == OneSpelling /\ Accounts!OneAccountPerNumber

\* A thread spells its request E.164 and nobody changes a number.
Steady ==
  /\ \A t \in Threads : login'[t].phone # NoPhone => login'[t].phone.spelling = "e164"
  /\ ~ \E i \in Ids, p \in Accounts!Phones : Accounts!ChangePhone(i, p)

\* Numbers that are spelled alike are alike.
LEMMA SameNumber ==
  ASSUME NEW p, NEW q, E164(p), E164(q), p.number = q.number
  PROVE  p = q
BY DEF E164, Accounts!Phones

\* A request that is spelled E.164 is normal already.
LEMMA NormalIsSame ==
  ASSUME NEW p, E164(p)
  PROVE  Accounts!Normal(p) = p
BY DEF E164, Accounts!Phones, Accounts!Normal

\* What a thread may be doing, given the accounts a.
GoodRequest(j, a) ==
  /\ j \in Accounts!Job
  /\ j.phone \in Accounts!Phones => E164(j.phone)
  /\ j.at \in {"insert", "create", "adopt"} => j.phone \in Accounts!Phones
  /\ j.at = "adopt" => /\ j.id \in Ids /\ a[j.id] # Unborn
                       /\ a[j.id].phone.number = j.phone.number
\* A request that has not begun is well formed.
LEMMA IdleRequest ==
  ASSUME LoginAssumption, NEW a
  PROVE  GoodRequest(Accounts!Idle, a)
BY DEF LoginAssumption, GoodRequest, Accounts!Idle, Accounts!Job

\* If accounts keep their numbers, those that are made have numbers of their own,
\* and threads turn to good requests, the invariant is kept.
LEMMA AccountsKept ==
  ASSUME AccountInv,
         accounts' \in [Ids -> Accounts!Account \union {Unborn}],
         \A i \in Ids : accounts[i] # Unborn =>
            accounts'[i] # Unborn /\ accounts'[i].phone = accounts[i].phone,
         \A i \in Ids : accounts[i] = Unborn /\ accounts'[i] # Unborn =>
            /\ E164(accounts'[i].phone)
            /\ \A k \in Ids \ {i} : accounts'[k] # Unborn =>
                 accounts'[k].phone.number # accounts'[i].phone.number,
         login' \in [Threads -> Accounts!Job],
         \A t \in Threads : login'[t] = login[t] \/ GoodRequest(login'[t], accounts)
  PROVE  AccountInv'
<1>1. OneSpelling'
  BY DEF AccountInv, OneSpelling, GoodRequest, Accounts!Live
<1>2. Accounts!OneAccountPerNumber'
  BY DEF AccountInv, Accounts!OneAccountPerNumber, Accounts!Live
<1> QED
  BY <1>1, <1>2 DEF AccountInv

\* What a request that asks for a code or logs in goes on to do.
LEMMA RequestJob ==
  ASSUME NEW t \in Threads, NEW p \in Accounts!Phones,
         Accounts!Register(t, p) \/ Accounts!Login(t, p)
  PROVE  /\ UNCHANGED <<accounts, sessions, revoked>>
         /\ \E j \in Accounts!Job :
              /\ Accounts!Works(t, j) /\ j.phone = p /\ j.at \in {"insert", "create", "adopt"}
              /\ j.at = "adopt" => /\ j.id \in Ids /\ accounts[j.id] # Unborn
                                   /\ accounts[j.id].phone.number = p.number
<1>1. UNCHANGED <<accounts, sessions, revoked>>
  BY DEF Accounts!Register, Accounts!Login
<1>2. CASE Accounts!Register(t, p)
  <2> DEFINE j == [Accounts!Idle EXCEPT !.at = "insert", !.phone = p]
  <2>1. j \in Accounts!Job /\ j.phone = p /\ j.at = "insert"
    BY DEF Accounts!Idle, Accounts!Job
  <2>2. Accounts!Works(t, j)
    BY <1>2 DEF Accounts!Register
  <2> HIDE DEF j
  <2> QED
    BY <1>1, <2>1, <2>2
<1>3. CASE Accounts!Login(t, p) /\ Accounts!WithNumber(p.number) = {}
  <2> DEFINE j == [Accounts!Idle EXCEPT !.at = "create", !.phone = p]
  <2>1. j \in Accounts!Job /\ j.phone = p /\ j.at = "create"
    BY DEF Accounts!Idle, Accounts!Job
  <2>2. Accounts!Works(t, j)
    BY <1>3 DEF Accounts!Login
  <2> HIDE DEF j
  <2> QED
    BY <1>1, <2>1, <2>2
<1>4. CASE Accounts!Login(t, p) /\ Accounts!WithNumber(p.number) # {}
  <2>1. PICK i \in Accounts!WithNumber(p.number) :
          Accounts!Works(t, [Accounts!Idle EXCEPT !.at = "adopt", !.phone = p, !.id = i,
                               !.normal = accounts[i].phone = Accounts!Normal(p)])
    BY <1>4 DEF Accounts!Login
  <2> DEFINE j == [Accounts!Idle EXCEPT !.at = "adopt", !.phone = p, !.id = i,
                     !.normal = accounts[i].phone = Accounts!Normal(p)]
  <2>2. i \in Ids /\ accounts[i] # Unborn /\ accounts[i].phone.number = p.number
    BY <2>1 DEF Accounts!WithNumber, Accounts!Live
  <2>3. j \in Accounts!Job /\ j.phone = p /\ j.id = i /\ j.at = "adopt"
    BY <2>2 DEF Accounts!Idle, Accounts!Job
  <2>4. Accounts!Works(t, j)
    BY <2>1
  <2> HIDE DEF j
  <2> QED
    BY <1>1, <2>2, <2>3, <2>4
<1> QED
  BY <1>2, <1>3, <1>4

\* Any step of a server whose clients all spell numbers alike keeps them apart.
LEMMA AccountStep ==
  ASSUME LoginAssumption, AccountInv, Accounts!Next, Steady
  PROVE  AccountInv'
<1>0. /\ \A p \in Accounts!Phones : p # NoPhone
      /\ \A a \in Accounts!Account : a # Unborn
      /\ accounts \in [Ids -> Accounts!Account \union {Unborn}]
      /\ login \in [Threads -> Accounts!Job]
      /\ GoodRequest(Accounts!Idle, accounts) /\ Accounts!Idle \in Accounts!Job
  BY IdleRequest DEF LoginAssumption, AccountInv, OneSpelling, GoodRequest
<1>1. ASSUME NEW t \in Threads, NEW j, Accounts!Works(t, j), GoodRequest(j, accounts),
             UNCHANGED accounts
      PROVE  AccountInv'
  <2>1. login' = [login EXCEPT ![t] = j] /\ j \in Accounts!Job
    BY <1>1 DEF Accounts!Works, GoodRequest
  <2> QED
    BY <1>0, <1>1, <2>1, AccountsKept
<1>2. ASSUME NEW t \in Threads, NEW p \in Accounts!Phones,
             Accounts!Register(t, p) \/ Accounts!Login(t, p)
      PROVE  AccountInv'
  <2>1. PICK j \in Accounts!Job :
          /\ Accounts!Works(t, j) /\ j.phone = p
          /\ j.at = "adopt" => /\ j.id \in Ids /\ accounts[j.id] # Unborn
                               /\ accounts[j.id].phone.number = p.number
    BY <1>2, RequestJob
  <2>2. login'[t] = j
    BY <1>0, <2>1 DEF Accounts!Works
  <2>3. GoodRequest(j, accounts)
    BY <1>0, <2>1, <2>2 DEF Steady, GoodRequest, E164
  <2> QED
    BY <1>1, <1>2, <2>1, <2>3, RequestJob
<1>3. ASSUME NEW t \in Threads, NEW i \in Ids, Accounts!RegisterInsert(t, i)
      PROVE  AccountInv'
  <2> DEFINE p == login[t].phone
             a == [phone |-> p, verified |-> FALSE, active |-> TRUE]
  <2>1. E164(p)
    BY <1>3 DEF AccountInv, OneSpelling, Accounts!RegisterInsert
  <2>2. login' = [login EXCEPT ![t] = Accounts!Idle]
    BY <1>3 DEF Accounts!RegisterInsert, Accounts!Finish, Accounts!Works
  <2>3. CASE Accounts!Spelled(p) # {}
    <3>1. UNCHANGED accounts
      BY <1>3, <2>3 DEF Accounts!RegisterInsert
    <3> QED
      BY <1>0, <1>1, <1>3, <3>1 DEF Accounts!RegisterInsert, Accounts!Finish
  <2>4. CASE Accounts!Spelled(p) = {}
    <3>1. accounts' = [accounts EXCEPT ![i] = a] /\ accounts[i] = Unborn
      BY <1>3, <2>4 DEF Accounts!RegisterInsert
    <3>2. a \in Accounts!Account /\ a.phone = p
      BY <2>1 DEF Accounts!Account, E164
    <3>3. \A k \in Ids : accounts[k] # Unborn => accounts[k].phone.number # p.number
      BY <2>1, <2>4, SameNumber DEF AccountInv, OneSpelling, Accounts!Spelled, Accounts!Live
    <3> HIDE DEF a, p
    <3>4. accounts' \in [Ids -> Accounts!Account \union {Unborn}]
      BY <1>0, <3>1, <3>2
    <3> QED
      BY <1>0, <2>1, <2>2, <3>1, <3>2, <3>3, <3>4, AccountsKept
  <2> QED
    BY <2>3, <2>4
<1>4. ASSUME NEW t \in Threads, NEW i \in Ids, NEW r \in Tokens, Accounts!LoginCreate(t, i, r)
      PROVE  AccountInv'
  <2> DEFINE p == login[t].phone
             a == [phone |-> p, verified |-> TRUE, active |-> TRUE]
  <2>1. E164(p) /\ Accounts!Normal(p) = p
    BY <1>4, NormalIsSame DEF AccountInv, OneSpelling, Accounts!LoginCreate
  <2>2. login' = [login EXCEPT ![t] = Accounts!Idle]
    BY <1>4 DEF Accounts!LoginCreate, Accounts!Finish, Accounts!Works
  <2>3. CASE Accounts!Spelled(p) # {}
    <3>1. UNCHANGED accounts
      BY <1>4, <2>1, <2>3 DEF Accounts!LoginCreate
    <3> QED
      BY <1>0, <1>1, <1>4, <3>1 DEF Accounts!LoginCreate, Accounts!Finish
  <2>4. CASE Accounts!Spelled(p) = {}
    <3>1. accounts' = [accounts EXCEPT ![i] = a] /\ accounts[i] = Unborn
      BY <1>4, <2>1, <2>4 DEF Accounts!LoginCreate
    <3>2. a \in Accounts!Account /\ a.phone = p
      BY <2>1 DEF Accounts!Account, E164
    <3>3. \A k \in Ids : accounts[k] # Unborn => accounts[k].phone.number # p.number
      BY <2>1, <2>4, SameNumber DEF AccountInv, OneSpelling, Accounts!Spelled, Accounts!Live
    <3> HIDE DEF a, p
    <3>4. accounts' \in [Ids -> Accounts!Account \union {Unborn}]
      BY <1>0, <3>1, <3>2
    <3> QED
      BY <1>0, <2>1, <2>2, <3>1, <3>2, <3>3, <3>4, AccountsKept
  <2> QED
    BY <2>3, <2>4
<1>5. ASSUME NEW t \in Threads, NEW r \in Tokens, Accounts!LoginAdopt(t, r)
      PROVE  AccountInv'
  <2> DEFINE p == login[t].phone
             i == login[t].id
  <2>1. /\ i \in Ids /\ accounts[i] # Unborn /\ accounts[i].phone.number = p.number
        /\ E164(p) /\ E164(accounts[i].phone)
    BY <1>5 DEF AccountInv, OneSpelling, Accounts!LoginAdopt, Accounts!Live
  <2>2. Accounts!Normal(p) = p /\ accounts[i].phone = p /\ accounts[i] \in Accounts!Account
    BY <1>0, <2>1, NormalIsSame, SameNumber
  <2>3. login' = [login EXCEPT ![t] = Accounts!Idle]
    BY <1>5 DEF Accounts!LoginAdopt, Accounts!Finish, Accounts!Works
  <2>4. accounts' = accounts
        \/ accounts' = [accounts EXCEPT ![i] = [accounts[i] EXCEPT !.verified = TRUE, !.phone = p]]
    BY <1>5, <2>1, <2>2 DEF Accounts!LoginAdopt
  <2>5. [accounts[i] EXCEPT !.verified = TRUE, !.phone = p] \in Accounts!Account
    BY <2>1, <2>2 DEF Accounts!Account, E164
  <2>6. [accounts[i] EXCEPT !.verified = TRUE, !.phone = p].phone = p
    BY <2>2 DEF Accounts!Account
  <2> HIDE DEF i, p
  <2>7. /\ accounts'[i] \in Accounts!Account /\ accounts'[i].phone = accounts[i].phone
        /\ accounts' \in [Ids -> Accounts!Account \union {Unborn}]
        /\ \A k \in Ids \ {i} : accounts'[k] = accounts[k]
    BY <1>0, <2>1, <2>2, <2>4, <2>5, <2>6
  <2> QED
    BY <1>0, <2>1, <2>3, <2>7, AccountsKept
<1>6. ASSUME NEW t \in Threads, NEW r \in Tokens,
             Accounts!Refresh(t, r) \/ Accounts!RefreshIssue(t, r)
      PROVE  AccountInv'
  <2>1. UNCHANGED accounts
    BY <1>6 DEF Accounts!Refresh, Accounts!RefreshIssue
  <2>2. CASE Accounts!RefreshIssue(t, r)
    BY <1>0, <1>1, <2>1, <2>2 DEF Accounts!RefreshIssue, Accounts!Finish
  <2>3. CASE Accounts!Refresh(t, r)
    <3> DEFINE j == [Accounts!Idle EXCEPT !.at = "refresh", !.token = r]
    <3>1. Accounts!Works(t, j)
      BY <2>3 DEF Accounts!Refresh
    <3>2. GoodRequest(j, accounts)
      BY <1>0 DEF GoodRequest, Accounts!Idle, Accounts!Job
    <3> QED
      BY <1>1, <2>1, <3>1, <3>2
  <2> QED
    BY <1>6, <2>2, <2>3
<1>7. ASSUME NEW r \in Tokens, Accounts!Logout(r) \/ Accounts!Expire(r)
      PROVE  AccountInv'
  <2>1. UNCHANGED <<accounts, login>>
    BY <1>7 DEF Accounts!Logout, Accounts!Expire
  <2> QED
    BY <1>0, <2>1, AccountsKept
<1>8. ASSUME NEW i \in Ids, Accounts!Suspend(i)
      PROVE  AccountInv'
  <2>1. /\ accounts' = [accounts EXCEPT ![i].active = ~ @] /\ UNCHANGED login
        /\ accounts[i] \in Accounts!Account
    BY <1>0, <1>8 DEF Accounts!Suspend, Accounts!Live
  <2>2. /\ accounts'[i] \in Accounts!Account /\ accounts'[i].phone = accounts[i].phone
        /\ accounts' \in [Ids -> Accounts!Account \union {Unborn}]
        /\ \A k \in Ids \ {i} : accounts'[k] = accounts[k]
    BY <1>0, <2>1 DEF Accounts!Account
  <2> QED
    BY <1>0, <2>1, <2>2, AccountsKept
<1> QED
  BY <1>2, <1>3, <1>4, <1>5, <1>6, <1>7, <1>8 DEF Accounts!Next, Accounts!Step, Steady

\* The kind of behaviour stays what it was at the start.
HabitOK == habit \in CodeHabits \union AccountHabits \union PasswordHabits

\* What a step of the composition is, by the kind of behaviour.
LEMMA WhoSteps ==
  ASSUME LoginNext, HabitOK
  PROVE  /\ habit' = habit
         /\ habit \in CodeHabits => CodesNext
         /\ habit \in AccountHabits \union PasswordHabits => UNCHANGED vars
         /\ habit \in AccountHabits => AccountsNext
         /\ habit \in CodeHabits \union PasswordHabits => UNCHANGED accountVars
         /\ habit \in PasswordHabits => PasswordsNext
         /\ habit \in CodeHabits \union AccountHabits => UNCHANGED lockVars
<1> USE DEF CodeHabits, AccountHabits, PasswordHabits
<1>1. CASE habit \in CodeHabits
  BY <1>1 DEF LoginNext
<1>2. CASE habit \in AccountHabits
  BY <1>2 DEF LoginNext
<1>3. CASE habit \in PasswordHabits
  BY <1>3 DEF LoginNext
<1> QED
  BY <1>1, <1>2, <1>3 DEF HabitOK

\* No step changes it.
LEMMA HabitKept == LoginSpec => []HabitOK
<1>1. LoginInit => HabitOK
  BY DEF LoginInit, HabitOK
<1>2. HabitOK /\ [LoginNext]_<<vars, accountVars, lockVars, habit>> => HabitOK'
  BY WhoSteps DEF HabitOK
<1> QED
  BY <1>1, <1>2, PTL DEF LoginSpec

\* Where clients spell their number one way, a person has one account, whatever
\* requests overlap: a login looks for the number in one statement and inserts
\* in another, and users.phone is unique by spelling (_login_verified_phone).
THEOREM OneAccountHolds == LoginSpec => []OneAccountSteady
<1> DEFINE Inv == habit = "steady" => AccountInv
<1>1. ASSUME LoginInit PROVE Inv
  <2>1. Accounts!Init
    BY <1>1 DEF LoginInit
  <2>2. Accounts!Live = {}
    BY <2>1 DEF Accounts!Init, Accounts!Live
  <2>3. /\ accounts \in [Ids -> Accounts!Account \union {Unborn}]
        /\ login = [t \in Threads |-> Accounts!Idle]
    BY <2>1 DEF Accounts!Init
  <2>4. \A t \in Threads : GoodRequest(login[t], accounts)
    BY <2>3, IdleRequest, LoginAssumption
  <2>5. OneSpelling
    BY <2>2, <2>3, <2>4 DEF OneSpelling, GoodRequest, Accounts!Live
  <2> QED
    BY <2>2, <2>5 DEF AccountInv, Accounts!OneAccountPerNumber
<1>2. ASSUME Inv, HabitOK, [LoginNext]_<<vars, accountVars, lockVars, habit>> PROVE Inv'
  <2>1. CASE UNCHANGED <<vars, accountVars, lockVars, habit>>
    BY <1>2, <2>1 DEF accountVars, AccountInv, OneSpelling, Accounts!OneAccountPerNumber, Accounts!Live
  <2>2. CASE LoginNext /\ habit = "steady"
    <3>1. AccountsNext /\ habit' = habit /\ AccountInv
      BY <1>2, <2>2, WhoSteps DEF AccountHabits
    <3>2. Accounts!Next /\ Steady
      BY <2>2, <3>1 DEF AccountsNext, Steady
    <3> QED
      BY <3>1, <3>2, AccountStep, LoginAssumption
  <2>3. CASE LoginNext /\ habit # "steady"
    BY <1>2, <2>3, WhoSteps
  <2> QED
    BY <1>2, <2>1, <2>2, <2>3
<1>3. Inv => OneAccountSteady
  BY DEF OneAccountSteady, AccountInv
<1> QED
  BY <1>1, <1>2, <1>3, HabitKept, PTL DEF LoginSpec

\* Where requests come one at a time, none that refreshes is overtaken by the
\* logout of its token.
LogoutInv ==
  habit = "move" =>
    /\ login \in [Threads -> Accounts!Job]
    /\ \A t \in Threads : login[t].at = "refresh" => login[t].token \notin revoked

\* A session that was logged out of is not refreshed, in the time its token
\* would have had (logout, refresh_tokens, blacklist_token).
THEOREM LogoutEndsHolds == LoginSpec => LogoutEnds
<1>1. ASSUME LoginInit PROVE LogoutInv
  BY <1>1 DEF LoginInit, LogoutInv, Accounts!Init, Accounts!Idle, Accounts!Job
<1>2. ASSUME LogoutInv, HabitOK, [LoginNext]_<<vars, accountVars, lockVars, habit>> PROVE LogoutInv'
  <2>1. CASE UNCHANGED <<vars, accountVars, lockVars, habit>>
    BY <1>2, <2>1 DEF LogoutInv, accountVars
  <2>2. CASE LoginNext /\ habit # "move"
    BY <1>2, <2>2, WhoSteps DEF LogoutInv
  <2>3. CASE LoginNext /\ habit = "move"
    <3>1. /\ AccountsNext /\ habit' = habit
          /\ login \in [Threads -> Accounts!Job]
          /\ \A t \in Threads : login[t].at = "refresh" => login[t].token \notin revoked
      BY <1>2, <2>3, WhoSteps DEF AccountHabits, LogoutInv
    <3>2. Accounts!Next /\ \A t \in Threads : login[t] = Accounts!Idle \/ login'[t] # login[t]
      BY <2>3, <3>1 DEF AccountsNext
    <3>3. Accounts!Idle \in Accounts!Job /\ Accounts!Idle.at = "idle"
      BY DEF Accounts!Idle, Accounts!Job
    <3>4. ASSUME NEW t \in Threads, NEW j \in Accounts!Job, Accounts!Works(t, j),
                 j.at # "refresh" \/ j.token \notin revoked, UNCHANGED revoked
          PROVE  LogoutInv'
      BY <3>1, <3>4 DEF Accounts!Works, LogoutInv
    <3>5. ASSUME UNCHANGED login
          PROVE  LogoutInv'
      BY <3>1, <3>2, <3>3, <3>5 DEF LogoutInv
    <3>6. ASSUME NEW t \in Threads, NEW p \in Accounts!Phones,
                 Accounts!Register(t, p) \/ Accounts!Login(t, p)
          PROVE  LogoutInv'
      <4>1. PICK j \in Accounts!Job :
              Accounts!Works(t, j) /\ j.at \in {"insert", "create", "adopt"}
        BY <3>6, RequestJob
      <4> QED
        BY <3>4, <3>6, <4>1, RequestJob
    <3>7. ASSUME NEW t \in Threads, Accounts!Finish(t), UNCHANGED revoked
          PROVE  LogoutInv'
      BY <3>3, <3>4, <3>7 DEF Accounts!Finish
    <3>8. ASSUME NEW t \in Threads, NEW r \in Tokens, Accounts!Refresh(t, r)
          PROVE  LogoutInv'
      <4> DEFINE j == [Accounts!Idle EXCEPT !.at = "refresh", !.token = r]
      <4>1. j \in Accounts!Job /\ j.token = r
        BY DEF Accounts!Idle, Accounts!Job
      <4>2. Accounts!Works(t, j) /\ r \notin revoked /\ UNCHANGED revoked
        BY <3>8 DEF Accounts!Refresh
      <4> QED
        BY <3>4, <4>1, <4>2
    <3>9. ASSUME NEW t \in Threads, Accounts!Step(t)
          PROVE  LogoutInv'
      BY <3>6, <3>7, <3>8, <3>9 DEF Accounts!Step, Accounts!RegisterInsert, Accounts!LoginCreate,
         Accounts!LoginAdopt, Accounts!RefreshIssue
    <3> QED
      BY <3>2, <3>5, <3>9 DEF Accounts!Next, Accounts!Logout, Accounts!Expire, Accounts!Suspend,
         Accounts!ChangePhone
  <2> QED
    BY <1>2, <2>1, <2>2, <2>3
<1>3. ASSUME LogoutInv, HabitOK, [LoginNext]_<<vars, accountVars, lockVars, habit>>
      PROVE  [habit = "steady" \/ \A t \in Threads :
                login[t].at = "refresh" /\ sessions' # sessions => login[t].token \notin revoked]_accountVars
  <2>1. CASE UNCHANGED <<vars, accountVars, lockVars, habit>>
    BY <2>1
  <2>2. CASE LoginNext
    BY <1>3, <2>2, WhoSteps DEF LogoutInv, HabitOK, AccountHabits
  <2> QED
    BY <1>3, <2>1, <2>2
<1> QED
  BY <1>1, <1>2, <1>3, HabitKept, PTL DEF LoginSpec, LogoutEnds

-----------------------------------------------------------------------------
(* Wrong passwords *)

\* What a thread that serves a login holds.
GoodTry(j) ==
  /\ j \in [at : {"idle", "check", "clear.ip", "clear.login", "fail.ip", "lock.ip", "fail.login",
                  "lock.login"},
            ip : Ips \union {NoKey}, login : Logins \union {NoKey}, count : Nat]
  /\ j.at # "idle" => j.ip \in Ips /\ j.login \in Logins
TryType ==
  /\ DOMAIN try = Clients /\ \A t \in Clients : GoodTry(try[t])
  /\ fails \in [Lockout!Keys -> Nat] /\ misses \in [Lockout!Keys -> Nat]

\* Those who will yet count a failure of k, and those who counted one that
\* locks it, but have not set the lock.
IsDue(j, k) == \/ j.at = "fail.ip" /\ k \in {j.ip, j.login}
               \/ j.at \in {"lock.ip", "fail.login"} /\ k = j.login
IsOver(j, k) == /\ \/ j.at = "lock.ip" /\ k = j.ip
                   \/ j.at = "lock.login" /\ k = j.login
                /\ j.count >= Limit[k]
Due(k) == {t \in Clients : IsDue(try[t], k)}
Over(k) == {t \in Clients : IsOver(try[t], k)}

\* Every miss is counted or will be, and the count passes the limit only with
\* those who will lock.
MissInv ==
  /\ TryType
  /\ \A k \in Lockout!Keys : /\ misses[k] <= fails[k] + Cardinality(Due(k))
                             /\ fails[k] < Limit[k] + Cardinality(Over(k))

\* Both counts are numbers.
LEMMA CountsAreNat ==
  ASSUME NEW k
  PROVE  Cardinality(Due(k)) \in Nat /\ Cardinality(Over(k)) \in Nat
<1>1. Due(k) \subseteq Clients /\ Over(k) \subseteq Clients
  BY DEF Due, Over
<1> QED
  BY <1>1, LoginAssumption, FS_Subset, FS_CardinalityType DEF LoginAssumption

\* Their sum bounds the misses of a key.
LEMMA DueOver ==
  ASSUME MissInv, NEW k \in Lockout!Keys
  PROVE  misses[k] < Limit[k] + Cardinality(Clients)
<1>1. Due(k) \intersect Over(k) = {} /\ Due(k) \subseteq Clients /\ Over(k) \subseteq Clients
  BY LoginAssumption DEF LoginAssumption, MissInv, TryType, GoodTry, Due, Over,
     IsDue, IsOver
<1>2. IsFiniteSet(Clients) /\ IsFiniteSet(Due(k)) /\ IsFiniteSet(Over(k))
  BY <1>1, LoginAssumption, FS_Subset DEF LoginAssumption
<1>3. Cardinality(Due(k)) + Cardinality(Over(k)) <= Cardinality(Clients)
  BY <1>1, <1>2, TwoParts
<1>4. Limit[k] \in Nat /\ misses[k] \in Nat /\ fails[k] \in Nat
  BY LoginAssumption DEF LoginAssumption, MissInv, TryType, Lockout!Keys
<1> QED
  BY <1>2, <1>3, <1>4, FS_CardinalityType DEF MissInv

\* How the two counts change when a thread goes from one job to another.
LEMMA CountsMove ==
  ASSUME TryType, NEW t \in Clients, NEW j, try' = [try EXCEPT ![t] = j], NEW k
  PROVE  /\ Cardinality(Due(k)) \in Nat /\ Cardinality(Over(k)) \in Nat
         /\ Cardinality(Due(k)') = Cardinality(Due(k)) - One(IsDue(try[t], k)) + One(IsDue(j, k))
         /\ Cardinality(Over(k)') = Cardinality(Over(k)) - One(IsOver(try[t], k)) + One(IsOver(j, k))
         /\ Cardinality(Due(k)') \in Nat /\ Cardinality(Over(k)') \in Nat
<1>1. IsFiniteSet(Clients)
  BY LoginAssumption DEF LoginAssumption
<1>2. try'[t] = j /\ \A u \in Clients \ {t} : try'[u] = try[u]
  BY DEF TryType
<1>3. /\ Due(k) \ {t} = Due(k)' \ {t} /\ Due(k) \subseteq Clients /\ Due(k)' \subseteq Clients
      /\ t \in Due(k) <=> IsDue(try[t], k)
      /\ t \in Due(k)' <=> IsDue(j, k)
  BY <1>2 DEF Due
<1>4. /\ Over(k) \ {t} = Over(k)' \ {t} /\ Over(k) \subseteq Clients /\ Over(k)' \subseteq Clients
      /\ t \in Over(k) <=> IsOver(try[t], k)
      /\ t \in Over(k)' <=> IsOver(j, k)
  BY <1>2 DEF Over
<1>5. /\ Cardinality(Due(k)) \in Nat /\ Cardinality(Due(k)') \in Nat
      /\ Cardinality(Due(k)') = Cardinality(Due(k)) - One(t \in Due(k)) + One(t \in Due(k)')
  BY <1>1, <1>3, Differ
<1>6. /\ Cardinality(Over(k)) \in Nat /\ Cardinality(Over(k)') \in Nat
      /\ Cardinality(Over(k)') = Cardinality(Over(k)) - One(t \in Over(k)) + One(t \in Over(k)')
  BY <1>1, <1>4, Differ
<1> QED
  BY <1>3, <1>4, <1>5, <1>6 DEF One

\* A thread's step keeps the two bounds of a key if it counts a failure no
\* later than it stops being due, or starts the key anew.
LEMMA MissKept ==
  ASSUME MissInv, NEW t \in Clients, NEW j, try' = [try EXCEPT ![t] = j], GoodTry(j),
         fails' \in [Lockout!Keys -> Nat], misses' \in [Lockout!Keys -> Nat],
         \A k \in Lockout!Keys :
           /\ \/ misses'[k] = 0
              \/ misses'[k] - fails'[k]
                   <= misses[k] - fails[k] + One(IsDue(j, k)) - One(IsDue(try[t], k))
           /\ \/ fails'[k] < Limit[k]
              \/ fails'[k] <= fails[k] + One(IsOver(j, k)) - One(IsOver(try[t], k))
  PROVE  MissInv'
<1>1. TryType /\ TryType'
  BY DEF MissInv, TryType
<1>2. ASSUME NEW k \in Lockout!Keys
      PROVE  /\ misses'[k] <= fails'[k] + Cardinality(Due(k)')
             /\ fails'[k] < Limit[k] + Cardinality(Over(k)')
  <2>1. /\ misses[k] \in Nat /\ fails[k] \in Nat /\ misses'[k] \in Nat /\ fails'[k] \in Nat
        /\ Limit[k] \in Nat
    BY <1>1, LoginAssumption DEF LoginAssumption, TryType, Lockout!Keys
  <2>2. /\ Cardinality(Due(k)) \in Nat /\ Cardinality(Over(k)) \in Nat
        /\ Cardinality(Due(k)') = Cardinality(Due(k)) - One(IsDue(try[t], k)) + One(IsDue(j, k))
        /\ Cardinality(Over(k)') = Cardinality(Over(k)) - One(IsOver(try[t], k)) + One(IsOver(j, k))
        /\ Cardinality(Due(k)') \in Nat /\ Cardinality(Over(k)') \in Nat
    BY <1>1, CountsMove
  <2>3. \A b : One(b) \in {0, 1}
    BY DEF One
  <2> QED
    BY <2>1, <2>2, <2>3 DEF MissInv
<1> QED
  BY <1>1, <1>2 DEF MissInv

\* So it does if it counts nothing and stays due, or over, where it was.
LEMMA MissSame ==
  ASSUME MissInv, NEW t \in Clients, NEW j, try' = [try EXCEPT ![t] = j], GoodTry(j),
         UNCHANGED <<fails, misses>>,
         \A k \in Lockout!Keys : /\ IsDue(try[t], k) => IsDue(j, k)
                                 /\ IsOver(try[t], k) => IsOver(j, k)
  PROVE  MissInv'
<1>1. fails \in [Lockout!Keys -> Nat] /\ misses \in [Lockout!Keys -> Nat]
  BY DEF MissInv, TryType
<1>2. ASSUME NEW k \in Lockout!Keys
      PROVE  /\ misses'[k] - fails'[k]
                  <= misses[k] - fails[k] + One(IsDue(j, k)) - One(IsDue(try[t], k))
             /\ fails'[k] <= fails[k] + One(IsOver(j, k)) - One(IsOver(try[t], k))
  <2>1. /\ misses[k] \in Nat /\ fails[k] \in Nat /\ misses'[k] = misses[k] /\ fails'[k] = fails[k]
    BY <1>1
  <2>2. /\ One(IsDue(try[t], k)) \in {0, 1} /\ One(IsDue(j, k)) \in {0, 1}
        /\ One(IsDue(try[t], k)) <= One(IsDue(j, k))
        /\ One(IsOver(try[t], k)) \in {0, 1} /\ One(IsOver(j, k)) \in {0, 1}
        /\ One(IsOver(try[t], k)) <= One(IsOver(j, k))
    BY DEF One
  <2> QED
    BY <2>1, <2>2
<1>3. fails' \in [Lockout!Keys -> Nat] /\ misses' \in [Lockout!Keys -> Nat]
  BY <1>1
<1> QED
  BY <1>2, <1>3, MissKept

\* And if it starts one key anew and leaves the others.
LEMMA MissForgotten ==
  ASSUME MissInv, NEW t \in Clients, NEW j, try' = [try EXCEPT ![t] = j], GoodTry(j),
         NEW k \in Lockout!Keys,
         fails' = [fails EXCEPT ![k] = 0], misses' = [misses EXCEPT ![k] = 0],
         \A m \in Lockout!Keys \ {k} : /\ IsDue(try[t], m) => IsDue(j, m)
                                       /\ IsOver(try[t], m) => IsOver(j, m)
  PROVE  MissInv'
<1>1. fails \in [Lockout!Keys -> Nat] /\ misses \in [Lockout!Keys -> Nat] /\ Limit[k] \in Nat \ {0}
  BY LoginAssumption DEF LoginAssumption, MissInv, TryType, Lockout!Keys
<1>2. ASSUME NEW m \in Lockout!Keys \ {k}
      PROVE  /\ misses'[m] - fails'[m]
                  <= misses[m] - fails[m] + One(IsDue(j, m)) - One(IsDue(try[t], m))
             /\ fails'[m] <= fails[m] + One(IsOver(j, m)) - One(IsOver(try[t], m))
  <2>1. /\ misses[m] \in Nat /\ fails[m] \in Nat /\ misses'[m] = misses[m] /\ fails'[m] = fails[m]
    BY <1>1
  <2>2. /\ One(IsDue(try[t], m)) \in {0, 1} /\ One(IsDue(j, m)) \in {0, 1}
        /\ One(IsDue(try[t], m)) <= One(IsDue(j, m))
        /\ One(IsOver(try[t], m)) \in {0, 1} /\ One(IsOver(j, m)) \in {0, 1}
        /\ One(IsOver(try[t], m)) <= One(IsOver(j, m))
    BY DEF One
  <2> QED
    BY <2>1, <2>2
<1>3. /\ fails' \in [Lockout!Keys -> Nat] /\ misses' \in [Lockout!Keys -> Nat]
      /\ misses'[k] = 0 /\ fails'[k] < Limit[k]
  BY <1>1
<1> QED
  BY <1>2, <1>3, MissKept

\* No step of a login, and no passing of time, has more misses than the bound.
LEMMA MissStep ==
  ASSUME MissInv, Lockout!Next
  PROVE  MissInv'
<1>0. /\ TryType
      /\ fails \in [Lockout!Keys -> Nat] /\ misses \in [Lockout!Keys -> Nat]
      /\ \A i \in Ips, l \in Logins : i # l /\ i \in Lockout!Keys /\ l \in Lockout!Keys
      /\ Limit \in [Lockout!Keys -> Nat \ {0}]
  BY LoginAssumption DEF MissInv, TryType, LoginAssumption, Lockout!Keys
<1>1. ASSUME UNCHANGED <<fails, try, misses>>
      PROVE  MissInv'
  BY <1>1 DEF MissInv, TryType, Due, Over
<1>2. ASSUME NEW t \in Clients, NEW i \in Ips, NEW l \in Logins, Lockout!Arrive(t, i, l)
      PROVE  MissInv'
  <2>1. try[t] = Lockout!Idle /\ UNCHANGED <<fails, misses>>
    BY <1>2 DEF Lockout!Arrive
  <2>2. CASE UNCHANGED try
    BY <1>1, <2>1, <2>2
  <2>3. CASE Lockout!Works(t, [Lockout!Idle EXCEPT !.at = "check", !.ip = i, !.login = l])
    <3> DEFINE j == [Lockout!Idle EXCEPT !.at = "check", !.ip = i, !.login = l]
    <3>1. GoodTry(j) /\ \A k : ~ IsDue(j, k) /\ ~ IsOver(j, k)
      BY DEF Lockout!Idle, GoodTry, IsDue, IsOver
    <3>2. \A k : ~ IsDue(try[t], k) /\ ~ IsOver(try[t], k)
      BY <2>1 DEF Lockout!Idle, IsDue, IsOver
    <3>3. try' = [try EXCEPT ![t] = j]
      BY <2>3 DEF Lockout!Works
    <3> HIDE DEF j
    <3> QED
      BY <2>1, <3>1, <3>2, <3>3, MissSame
  <2> QED
    BY <1>2, <2>2, <2>3 DEF Lockout!Arrive
<1>3. ASSUME NEW t \in Clients, NEW good \in BOOLEAN, Lockout!Check(t, good)
      PROVE  MissInv'
  <2> DEFINE l == try[t].login
             i == try[t].ip
  <2>1. /\ try[t].at = "check" /\ UNCHANGED fails /\ l \in Logins /\ i \in Ips /\ l # i
        /\ \A k : ~ IsDue(try[t], k) /\ ~ IsOver(try[t], k)
    BY <1>0, <1>3 DEF Lockout!Check, TryType, GoodTry, IsDue, IsOver
  <2>2. ASSUME NEW j, Lockout!Works(t, j), GoodTry(j), UNCHANGED misses,
               \A k : ~ IsDue(j, k) /\ ~ IsOver(j, k)
        PROVE  MissInv'
    BY <2>1, <2>2, MissSame DEF Lockout!Works
  <2>3. CASE l \in locks
    <3>1. GoodTry(Lockout!Idle) /\ \A k : ~ IsDue(Lockout!Idle, k) /\ ~ IsOver(Lockout!Idle, k)
      BY DEF Lockout!Idle, GoodTry, IsDue, IsOver
    <3>2. try[t].login \in locks
      BY <2>3
    <3>3. try' = [try EXCEPT ![t] = Lockout!Idle] /\ misses' = misses
      BY <1>3, <3>2 DEF Lockout!Check, Lockout!Finish, Lockout!Works
    <3> QED
      BY <2>2, <3>1, <3>3 DEF Lockout!Works
  <2>4. CASE l \notin locks /\ good
    <3> DEFINE j == [try[t] EXCEPT !.at = "clear.ip"]
    <3>1. GoodTry(j) /\ \A k : ~ IsDue(j, k) /\ ~ IsOver(j, k)
      BY <1>0, <2>1 DEF TryType, GoodTry, IsDue, IsOver
    <3>2. Lockout!Works(t, j) /\ UNCHANGED misses
      BY <1>3, <2>4 DEF Lockout!Check, Lockout!Goes
    <3> HIDE DEF j
    <3> QED
      BY <2>2, <3>1, <3>2
  <2>5. CASE l \notin locks /\ ~ good
    <3> DEFINE j == [try[t] EXCEPT !.at = "fail.ip"]
    <3>1. GoodTry(j) /\ \A k : ~ IsOver(j, k) /\ (IsDue(j, k) <=> k \in {l, i})
      BY <1>0, <2>1 DEF TryType, GoodTry, IsDue, IsOver
    <3>2. /\ try' = [try EXCEPT ![t] = j]
          /\ misses' = [k \in Lockout!Keys |-> IF k \in {l, i} THEN misses[k] + 1 ELSE misses[k]]
      BY <1>3, <2>5 DEF Lockout!Check, Lockout!Goes, Lockout!Works
    <3> HIDE DEF j, l, i
    <3>3. /\ l \in Lockout!Keys /\ i \in Lockout!Keys
          /\ \A k \in Lockout!Keys : misses[k] \in Nat /\ fails[k] \in Nat
          /\ misses' \in [Lockout!Keys -> Nat] /\ fails' \in [Lockout!Keys -> Nat]
      BY <1>0, <2>1, <3>2
    <3>4. ASSUME NEW k \in Lockout!Keys
          PROVE  /\ misses'[k] - fails'[k]
                      <= misses[k] - fails[k] + One(IsDue(j, k)) - One(IsDue(try[t], k))
                 /\ fails'[k] <= fails[k] + One(IsOver(j, k)) - One(IsOver(try[t], k))
      BY <2>1, <3>1, <3>2, <3>3 DEF One
    <3> QED
      BY <3>1, <3>2, <3>3, <3>4, MissKept
  <2> QED
    BY <2>3, <2>4, <2>5
<1>4. ASSUME NEW t \in Clients, Lockout!Clear(t)
      PROVE  MissInv'
  <2>1. \A m : ~ IsDue(try[t], m) /\ ~ IsOver(try[t], m)
    BY <1>4 DEF Lockout!Clear, IsDue, IsOver
  <2>2. CASE try[t].at = "clear.ip"
    <3> DEFINE k == try[t].ip
               j == [try[t] EXCEPT !.at = "clear.login"]
    <3>1. /\ fails' = [fails EXCEPT ![k] = 0] /\ misses' = [misses EXCEPT ![k] = 0]
          /\ try' = [try EXCEPT ![t] = j]
      BY <1>4, <2>2 DEF Lockout!Clear, Lockout!Goes, Lockout!Works
    <3>2. GoodTry(j) /\ k \in Lockout!Keys
      BY <1>0, <2>2 DEF TryType, GoodTry, Lockout!Keys
    <3> HIDE DEF k, j
    <3> QED
      BY <2>1, <3>1, <3>2, MissForgotten
  <2>3. CASE try[t].at = "clear.login"
    <3> DEFINE k == try[t].login
    <3>1. /\ fails' = [fails EXCEPT ![k] = 0] /\ misses' = [misses EXCEPT ![k] = 0]
          /\ try' = [try EXCEPT ![t] = Lockout!Idle]
      BY <1>4, <2>3 DEF Lockout!Clear, Lockout!Finish, Lockout!Works
    <3>2. GoodTry(Lockout!Idle) /\ k \in Lockout!Keys
      BY <1>0, <2>3 DEF TryType, GoodTry, Lockout!Idle, Lockout!Keys
    <3> HIDE DEF k
    <3> QED
      BY <2>1, <3>1, <3>2, MissForgotten
  <2> QED
    BY <1>4, <2>2, <2>3 DEF Lockout!Clear
<1>5. ASSUME NEW t \in Clients, Lockout!Fail(t)
      PROVE  MissInv'
  <2> DEFINE old == try[t]
             k == IF old.at = "fail.ip" THEN old.ip ELSE old.login
             j == [old EXCEPT !.count = fails'[k],
                              !.at = IF old.at = "fail.ip" THEN "lock.ip" ELSE "lock.login"]
  <2>1. /\ old.at \in {"fail.ip", "fail.login"} /\ GoodTry(old)
        /\ k \in Lockout!Keys /\ old.ip \in Ips /\ old.login \in Logins /\ old.ip # old.login
    BY <1>0, <1>5 DEF Lockout!Fail, TryType, GoodTry
  <2>2. /\ fails' = [fails EXCEPT ![k] = fails[k] + 1] /\ UNCHANGED misses
        /\ try' = [try EXCEPT ![t] = [try[t] EXCEPT !.count = fails'[k],
                                        !.at = IF @ = "fail.ip" THEN "lock.ip" ELSE "lock.login"]]
    BY <1>5 DEF Lockout!Fail, Lockout!Works
  <2>3. fails'[k] = fails[k] + 1 /\ fails'[k] \in Nat
    BY <1>0, <2>1, <2>2
  <2>4. try' = [try EXCEPT ![t] = j]
    BY <2>2
  <2>5. GoodTry(j)
    BY <2>1, <2>3 DEF GoodTry
  <2>6. \A m \in Lockout!Keys :
          /\ IsDue(old, m) <=> IsDue(j, m) \/ m = k
          /\ IsDue(j, m) => m # k
          /\ ~ IsOver(old, m)
          /\ IsOver(j, m) <=> m = k /\ fails'[k] >= Limit[k]
    BY <2>1 DEF IsDue, IsOver, GoodTry
  <2> HIDE DEF old, j, k
  <2>7. \A m \in Lockout!Keys : m # k => fails'[m] = fails[m]
    BY <1>0, <2>2 DEF TryType
  <2>8. ASSUME NEW m \in Lockout!Keys
        PROVE  /\ misses'[m] - fails'[m]
                    <= misses[m] - fails[m] + One(IsDue(j, m)) - One(IsDue(old, m))
               /\ \/ fails'[m] < Limit[m]
                  \/ fails'[m] <= fails[m] + One(IsOver(j, m)) - One(IsOver(old, m))
    <3>1. misses[m] \in Nat /\ fails[m] \in Nat /\ Limit[m] \in Nat /\ misses'[m] = misses[m]
      BY <1>0, <2>2 DEF TryType
    <3>2. CASE m = k
      BY <2>3, <2>6, <3>1, <3>2 DEF One
    <3>3. CASE m # k
      BY <2>6, <2>7, <3>1, <3>3 DEF One
    <3> QED
      BY <3>2, <3>3
  <2>9. fails' \in [Lockout!Keys -> Nat] /\ misses' \in [Lockout!Keys -> Nat]
    BY <1>0, <2>1, <2>2
  <2> QED
    BY <2>4, <2>5, <2>8, <2>9, MissKept DEF old
<1>6. ASSUME NEW t \in Clients, Lockout!Lock(t)
      PROVE  MissInv'
  <2> DEFINE old == try[t]
             k == IF old.at = "lock.ip" THEN old.ip ELSE old.login
  <2>1. /\ old.at \in {"lock.ip", "lock.login"} /\ GoodTry(old)
        /\ k \in Lockout!Keys /\ old.ip \in Ips /\ old.login \in Logins /\ old.ip # old.login
    BY <1>0, <1>6 DEF Lockout!Lock, TryType, GoodTry
  <2>2. PICK j : /\ try' = [try EXCEPT ![t] = j] /\ GoodTry(j)
                 /\ \A m \in Lockout!Keys : (IsDue(j, m) <=> IsDue(old, m)) /\ ~ IsOver(j, m)
    <3>1. CASE old.at = "lock.ip"
      <4> DEFINE j == [old EXCEPT !.at = "fail.login"]
      <4>1. GoodTry(j) /\ \A m : (IsDue(j, m) <=> IsDue(old, m)) /\ ~ IsOver(j, m)
        BY <2>1, <3>1 DEF GoodTry, IsDue, IsOver
      <4>2. try' = [try EXCEPT ![t] = j]
        BY <1>6, <3>1 DEF Lockout!Lock, Lockout!Goes, Lockout!Works
      <4> QED
        BY <4>1, <4>2
    <3>2. CASE old.at = "lock.login"
      <4>1. /\ GoodTry(Lockout!Idle)
            /\ \A m : ~ IsDue(Lockout!Idle, m) /\ ~ IsDue(old, m) /\ ~ IsOver(Lockout!Idle, m)
        BY <3>2 DEF GoodTry, IsDue, IsOver, Lockout!Idle
      <4>2. try' = [try EXCEPT ![t] = Lockout!Idle]
        BY <1>6, <3>2 DEF Lockout!Lock, Lockout!Finish, Lockout!Works
      <4> QED
        BY <4>1, <4>2
    <3> QED
      BY <2>1, <3>1, <3>2
  <2>3. CASE old.count >= Limit[k]
    <3>1. fails' = [fails EXCEPT ![k] = 0] /\ misses' = [misses EXCEPT ![k] = 0]
      BY <1>6, <2>3 DEF Lockout!Lock
    <3>2. \A m \in Lockout!Keys : m # k => ~ IsOver(old, m)
      BY <2>1 DEF IsOver
    <3> HIDE DEF k
    <3> QED
      BY <2>1, <2>2, <3>1, <3>2, MissForgotten
  <2>4. CASE ~ (old.count >= Limit[k])
    <3>1. UNCHANGED <<fails, misses>>
      BY <1>6, <2>4 DEF Lockout!Lock
    <3>2. \A m \in Lockout!Keys : ~ IsOver(old, m)
      BY <2>1, <2>4 DEF IsOver
    <3> QED
      BY <2>2, <3>1, <3>2, MissSame
  <2> QED
    BY <2>3, <2>4
<1>7. ASSUME NEW k \in Lockout!Keys, Lockout!FailsExpire(k)
      PROVE  MissInv'
  <2>1. /\ fails' = [fails EXCEPT ![k] = 0] /\ misses' = [misses EXCEPT ![k] = 0]
        /\ UNCHANGED try
    BY <1>7 DEF Lockout!FailsExpire
  <2>2. TryType' /\ \A m : Due(m)' = Due(m) /\ Over(m)' = Over(m)
    BY <1>0, <2>1 DEF TryType, Due, Over
  <2>3. \A m \in Lockout!Keys : Cardinality(Due(m)) \in Nat /\ Cardinality(Over(m)) \in Nat
    BY CountsAreNat
  <2> QED
    BY <1>0, <2>1, <2>2, <2>3 DEF MissInv, TryType
<1> QED
  BY <1>2, <1>3, <1>4, <1>5, <1>6, <1>7, <1>1 DEF Lockout!Next, Lockout!Step, Lockout!WindowEnds,
     Lockout!LockEnds, Lockout!HourEnds

\* Which holds of every behaviour.
LEMMA MissesKept == LoginSpec => []MissInv
<1>1. ASSUME LoginInit PROVE MissInv
  <2>1. /\ fails = [k \in Lockout!Keys |-> 0] /\ misses = [k \in Lockout!Keys |-> 0]
        /\ try = [t \in Clients |-> Lockout!Idle]
    BY <1>1 DEF LoginInit, Lockout!Init
  <2>2. GoodTry(Lockout!Idle)
    BY DEF GoodTry, Lockout!Idle
  <2>3. TryType
    BY <2>1, <2>2 DEF TryType
  <2>4. ASSUME NEW k \in Lockout!Keys
        PROVE  /\ misses[k] <= fails[k] + Cardinality(Due(k))
               /\ fails[k] < Limit[k] + Cardinality(Over(k))
    <3>1. misses[k] = 0 /\ fails[k] = 0 /\ Limit[k] \in Nat \ {0}
      BY <2>1, LoginAssumption DEF LoginAssumption, Lockout!Keys
    <3> QED
      BY <3>1, CountsAreNat
  <2> QED
    BY <2>3, <2>4 DEF MissInv
<1>2. ASSUME MissInv, HabitOK, [LoginNext]_<<vars, accountVars, lockVars, habit>> PROVE MissInv'
  <2>1. ASSUME UNCHANGED lockVars
        PROVE  MissInv'
    <3>1. UNCHANGED <<fails, try, misses>>
      BY <2>1 DEF lockVars
    <3> QED
      BY <1>2, <3>1 DEF MissInv, TryType, Due, Over
  <2>2. CASE LoginNext
    <3>1. CASE habit \in PasswordHabits
      <4>1. Lockout!Next
        BY <1>2, <2>2, <3>1, WhoSteps DEF PasswordsNext
      <4> QED
        BY <1>2, <4>1, MissStep
    <3>2. CASE habit \in CodeHabits \union AccountHabits
      BY <1>2, <2>1, <2>2, <3>2, WhoSteps
    <3> QED
      BY <1>2, <3>1, <3>2 DEF HabitOK
  <2> QED
    BY <1>2, <2>1, <2>2
<1> QED
  BY <1>1, <1>2, HabitKept, PTL DEF LoginSpec

\* No account or address has more wrong passwords tried than its limit, but for
\* those that were past the check when it was locked (record_failure counts and
\* locks in two calls to Redis, and the check came before both).
THEOREM MissesBoundedHolds == LoginSpec => []MissesBounded
<1>1. MissInv => MissesBounded
  <2> SUFFICES ASSUME MissInv, NEW k \in Lockout!Keys
               PROVE  misses[k] < Limit[k] + Cardinality(Clients)
    BY DEF MissesBounded, Lockout!MissesBounded, Lockout!Cardinality, Cardinality
  <2> QED
    BY DueOver
<1> QED
  BY <1>1, MissesKept, PTL

\* Where logins come one at a time, what a thread past the check holds is not
\* locked.
QueuedInv ==
  /\ DOMAIN try = Clients
  /\ \A t \in Clients :
       /\ try[t].at \in {"check", "clear.ip"} => try[t].ip \notin locks
       /\ try[t].at \in {"clear.ip", "clear.login"} => try[t].login \notin locks

\* A lock lasts until its time is over: a right password does not lift it where
\* logins come one at a time (is_locked, then record_success).
THEOREM LocksLastHolds == LoginSpec => LocksLastInTurn
<1> DEFINE Inv == habit = "queued" => QueuedInv
<1>1. ASSUME LoginInit PROVE Inv
  BY <1>1 DEF LoginInit, Lockout!Init, Lockout!Idle, QueuedInv
<1>2. ASSUME QueuedInv, MissInv, habit = "queued", PasswordsNext PROVE QueuedInv'
  <2>1. /\ Lockout!Next /\ DOMAIN try = Clients
        /\ \A u \in Clients : GoodTry(try[u])
        /\ \A u \in Clients : try[u] = Lockout!Idle \/ try'[u] # try[u]
    BY <1>2 DEF PasswordsNext, QueuedInv, MissInv, TryType
  <2>2. Lockout!Idle.at = "idle"
    BY DEF Lockout!Idle
  <2>3. CASE UNCHANGED try
    BY <2>1, <2>2, <2>3 DEF QueuedInv
  <2>4. ASSUME NEW t \in Clients, NEW j, try' = [try EXCEPT ![t] = j],
               j.at \in {"check", "clear.ip"} => j.ip \notin locks',
               j.at \in {"clear.ip", "clear.login"} => j.login \notin locks'
        PROVE  QueuedInv'
    <3>1. try'[t] = j /\ DOMAIN try' = Clients
      BY <2>1, <2>4
    <3>2. \A u \in Clients \ {t} : try'[u] = Lockout!Idle
      BY <2>1, <2>4
    <3> QED
      BY <2>2, <2>4, <3>1, <3>2 DEF QueuedInv
  <2>5. ASSUME NEW t \in Clients, NEW at, try' = [try EXCEPT ![t] = [try[t] EXCEPT !.at = at]],
               at \in {"check", "clear.ip"} => try[t].ip \notin locks',
               at \in {"clear.ip", "clear.login"} => try[t].login \notin locks'
        PROVE  QueuedInv'
    <3> DEFINE j == [try[t] EXCEPT !.at = at]
    <3>1. j.at = at /\ j.ip = try[t].ip /\ j.login = try[t].login
      BY <2>1 DEF GoodTry
    <3>2. try' = [try EXCEPT ![t] = j]
      BY <2>5
    <3> HIDE DEF j
    <3> QED
      BY <2>4, <2>5, <3>1, <3>2
  <2>6. ASSUME NEW t \in Clients, NEW i \in Ips, NEW l \in Logins, Lockout!Arrive(t, i, l)
        PROVE  QueuedInv'
    <3> DEFINE j == [Lockout!Idle EXCEPT !.at = "check", !.ip = i, !.login = l]
    <3>1. j.at = "check" /\ j.ip = i
      BY DEF Lockout!Idle
    <3>2. UNCHANGED try \/ (try' = [try EXCEPT ![t] = j] /\ i \notin locks)
      BY <2>6 DEF Lockout!Arrive, Lockout!Works
    <3>3. UNCHANGED locks
      BY <2>6 DEF Lockout!Arrive
    <3> HIDE DEF j
    <3> QED
      BY <2>3, <2>4, <3>1, <3>2, <3>3
  <2>7. ASSUME NEW t \in Clients, try' = [try EXCEPT ![t] = Lockout!Idle]
        PROVE  QueuedInv'
    BY <2>2, <2>4, <2>7
  <2>8. ASSUME NEW t \in Clients, NEW good \in BOOLEAN, Lockout!Check(t, good)
        PROVE  QueuedInv'
    <3>1. try[t].at = "check" /\ UNCHANGED locks /\ try[t].ip \notin locks
      BY <1>2, <2>8 DEF Lockout!Check, QueuedInv
    <3>2. CASE try[t].login \in locks
      <4>1. try' = [try EXCEPT ![t] = Lockout!Idle]
        BY <2>8, <3>2 DEF Lockout!Check, Lockout!Finish, Lockout!Works
      <4> QED
        BY <2>7, <4>1
    <3>3. CASE try[t].login \notin locks
      <4>1. CASE good
        <5>1. try' = [try EXCEPT ![t] = [try[t] EXCEPT !.at = "clear.ip"]]
          BY <2>8, <3>3, <4>1 DEF Lockout!Check, Lockout!Goes, Lockout!Works
        <5> QED
          BY <2>5, <3>1, <3>3, <5>1
      <4>2. CASE ~ good
        <5>1. try' = [try EXCEPT ![t] = [try[t] EXCEPT !.at = "fail.ip"]]
          BY <2>8, <3>3, <4>2 DEF Lockout!Check, Lockout!Goes, Lockout!Works
        <5> QED
          BY <2>5, <5>1
      <4> QED
        BY <4>1, <4>2
    <3> QED
      BY <3>2, <3>3
  <2>9. ASSUME NEW t \in Clients, Lockout!Clear(t)
        PROVE  QueuedInv'
    <3>1. try[t].at \in {"clear.ip", "clear.login"} /\ try[t].login \notin locks
      BY <1>2, <2>9 DEF Lockout!Clear, QueuedInv
    <3>2. locks' \subseteq locks
      BY <2>9 DEF Lockout!Clear
    <3>3. CASE try[t].at = "clear.ip"
      <4>1. try' = [try EXCEPT ![t] = [try[t] EXCEPT !.at = "clear.login"]]
        BY <2>9, <3>3 DEF Lockout!Clear, Lockout!Goes, Lockout!Works
      <4> QED
        BY <2>5, <3>1, <3>2, <4>1
    <3>4. CASE try[t].at = "clear.login"
      <4>1. try' = [try EXCEPT ![t] = Lockout!Idle]
        BY <2>9, <3>4 DEF Lockout!Clear, Lockout!Finish, Lockout!Works
      <4> QED
        BY <2>7, <4>1
    <3> QED
      BY <3>1, <3>3, <3>4
  <2>10. ASSUME NEW t \in Clients, Lockout!Fail(t) \/ Lockout!Lock(t)
         PROVE  QueuedInv'
    <3>1. CASE Lockout!Fail(t)
      <4> DEFINE j == [try[t] EXCEPT !.count = fails'[IF try[t].at = "fail.ip" THEN try[t].ip ELSE try[t].login],
                                     !.at = IF @ = "fail.ip" THEN "lock.ip" ELSE "lock.login"]
      <4>1. try' = [try EXCEPT ![t] = j] /\ try[t].at \in {"fail.ip", "fail.login"}
        BY <3>1 DEF Lockout!Fail, Lockout!Works
      <4>2. j.at \notin {"check", "clear.ip", "clear.login"}
        BY <4>1
      <4> HIDE DEF j
      <4> QED
        BY <2>4, <4>1, <4>2
    <3>2. CASE Lockout!Lock(t) /\ try[t].at = "lock.ip"
      <4>1. try' = [try EXCEPT ![t] = [try[t] EXCEPT !.at = "fail.login"]]
        BY <3>2 DEF Lockout!Lock, Lockout!Goes, Lockout!Works
      <4> QED
        BY <2>5, <4>1
    <3>3. CASE Lockout!Lock(t) /\ try[t].at # "lock.ip"
      <4>1. try' = [try EXCEPT ![t] = Lockout!Idle]
        BY <3>3 DEF Lockout!Lock, Lockout!Finish, Lockout!Works
      <4> QED
        BY <2>7, <4>1
    <3> QED
      BY <2>10, <3>1, <3>2, <3>3
  <2> QED
    BY <2>1, <2>3, <2>6, <2>8, <2>9, <2>10 DEF Lockout!Next, Lockout!Step, Lockout!WindowEnds,
       Lockout!FailsExpire, Lockout!LockEnds, Lockout!HourEnds
<1>3. ASSUME Inv, MissInv, HabitOK, [LoginNext]_<<vars, accountVars, lockVars, habit>> PROVE Inv'
  <2>1. CASE UNCHANGED <<vars, accountVars, lockVars, habit>>
    BY <1>3, <2>1 DEF QueuedInv, lockVars
  <2>2. CASE LoginNext
    BY <1>2, <1>3, <2>2, WhoSteps DEF PasswordHabits
  <2> QED
    BY <1>3, <2>1, <2>2
<1>4. ASSUME Inv, HabitOK, [LoginNext]_<<vars, accountVars, lockVars, habit>>
      PROVE  [habit = "racing" \/ \A k \in locks \ locks' : Lockout!LockEnds(k)]_lockVars
  <2>1. CASE UNCHANGED <<vars, accountVars, lockVars, habit>>
    BY <2>1
  <2>2. CASE LoginNext /\ habit = "queued"
    <3> SUFFICES ASSUME NEW k \in locks \ locks'
                 PROVE  Lockout!LockEnds(k)
      OBVIOUS
    <3>1. Lockout!Next /\ QueuedInv
      BY <1>4, <2>2, WhoSteps DEF PasswordsNext, PasswordHabits
    <3>2. \A t \in Clients : ~ Lockout!Clear(t)
      <4> SUFFICES ASSUME NEW t \in Clients, Lockout!Clear(t)
                   PROVE  FALSE
        OBVIOUS
      <4>1. /\ try[t].at \in {"clear.ip", "clear.login"} /\ try[t].login \notin locks
            /\ try[t].at = "clear.ip" => try[t].ip \notin locks
        BY <3>1 DEF Lockout!Clear, QueuedInv
      <4>2. locks' = locks \ {IF try[t].at = "clear.ip" THEN try[t].ip ELSE try[t].login}
        BY DEF Lockout!Clear
      <4> QED
        BY <4>1, <4>2
    <3>3. \A t \in Clients : ~ Lockout!Lock(t)
      BY DEF Lockout!Lock
    <3>4. \E m \in Lockout!Keys : Lockout!LockEnds(m)
      BY <3>1, <3>2, <3>3 DEF Lockout!Next, Lockout!Step, Lockout!WindowEnds, Lockout!FailsExpire,
         Lockout!HourEnds, Lockout!Arrive, Lockout!Check, Lockout!Fail
    <3> QED
      BY <3>4 DEF Lockout!LockEnds
  <2>3. CASE LoginNext /\ habit \in CodeHabits \union AccountHabits
    BY <1>4, <2>3, WhoSteps
  <2> QED
    BY <1>4, <2>1, <2>2, <2>3 DEF HabitOK, PasswordHabits
<1> QED
  BY <1>1, <1>3, <1>4, HabitKept, MissesKept, PTL DEF LoginSpec, LocksLastInTurn

-----------------------------------------------------------------------------
(* One-time codes: the states of the store, and who may act. *)

Sending   == {"count", "store", "clear", "insert", "send"}
Verifying == {"read", "match", "find", "take"}

\* Whoever works does so for a contact, whoever sends has a code.
GoodJob(j) ==
  /\ j \in Job
  /\ IF j.at = "idle" THEN j = Idle ELSE j.contact \in Contacts
  /\ j.at \in Sending => j.code \in Codes
StoreType == TypeOK /\ \A t \in Threads : GoodJob(job[t])

\* A job that goes on is a good one.
LEMMA JobGoes ==
  ASSUME NEW j, GoodJob(j), j.at # "idle",
         NEW at, at \in Verifying \/ (at \in Sending /\ j.at \in Sending),
         NEW k \in Codes \union {NoCode}, at \in Sending => k \in Codes,
         NEW m \in SUBSET Codes
  PROVE  GoodJob([j EXCEPT !.at = at, !.code = k, !.rows = m])
  BY DEF GoodJob, Job, Sending, Verifying

\* What such a job holds.
LEMMA JobHolds ==
  ASSUME NEW j \in Job, NEW at, NEW k, NEW m
  PROVE  /\ [j EXCEPT !.at = at, !.code = k, !.rows = m].at = at
         /\ [j EXCEPT !.at = at, !.code = k, !.rows = m].contact = j.contact
         /\ [j EXCEPT !.at = at, !.code = k, !.rows = m].code = k
         /\ [j EXCEPT !.at = at, !.code = k, !.rows = m].rows = m
<1>1. j \in [at : {"idle"} \union Sending \union Verifying,
             contact : Contacts \union {NoContact}, code : Codes \union {NoCode}, rows : SUBSET Codes]
  BY DEF Job, Sending, Verifying
<1> QED
  BY <1>1

\* What need not be said of it.
LEMMA JobSame ==
  ASSUME NEW j \in Job, NEW at, NEW k, NEW m
  PROVE  /\ [j EXCEPT !.at = at] = [j EXCEPT !.at = at, !.code = j.code, !.rows = j.rows]
         /\ [j EXCEPT !.at = at, !.rows = m] = [j EXCEPT !.at = at, !.code = j.code, !.rows = m]
         /\ [j EXCEPT !.at = at, !.rows = m, !.code = k] = [j EXCEPT !.at = at, !.code = k, !.rows = m]
<1>1. j \in [at : {"idle"} \union Sending \union Verifying,
             contact : Contacts \union {NoContact}, code : Codes \union {NoCode}, rows : SUBSET Codes]
  BY DEF Job, Sending, Verifying
<1> QED
  BY <1>1

\* A job that starts is a good one.
LEMMA JobStarts ==
  ASSUME NEW at \in {"count", "store", "read"}, NEW c \in Contacts, NEW k \in Codes \union {NoCode},
         at # "read" => k \in Codes
  PROVE  /\ GoodJob([Idle EXCEPT !.at = at, !.contact = c, !.code = k])
         /\ [Idle EXCEPT !.at = at, !.contact = c, !.code = k].at = at
         /\ [Idle EXCEPT !.at = at, !.contact = c, !.code = k].contact = c
         /\ [Idle EXCEPT !.at = at, !.contact = c, !.code = k].code = k
  BY DEF Idle, Job, GoodJob, Sending

\* No job is one too.
LEMMA NoJob == GoodJob(Idle) /\ Idle.at = "idle" /\ Idle.code = NoCode
  BY DEF Idle, GoodJob, Job, Sending

\* How thread t's job changes, where no other's does.
Alone(t) == job' = [u \in Threads |-> job'[u]] /\ \A u \in Threads \ {t} : job'[u] = job[u]
NowAt(t, at, k, m) ==
  /\ Alone(t) /\ job[t].at # "idle" /\ GoodJob(job'[t])
  /\ job'[t].at = at /\ job'[t].contact = job[t].contact /\ job'[t].code = k /\ job'[t].rows = m
NowIdle(t) == Alone(t) /\ job[t].at # "idle" /\ job'[t] = Idle
NowNew(t, at, c, k) ==
  /\ Alone(t) /\ job[t] = Idle /\ GoodJob(job'[t])
  /\ job'[t].at = at /\ job'[t].contact = c /\ job'[t].code = k

\* Going on, in these terms.
LEMMA Turns ==
  ASSUME StoreType, NEW t \in Threads, job[t].at # "idle",
         NEW at, at \in Verifying \/ (at \in Sending /\ job[t].at \in Sending),
         NEW k \in Codes \union {NoCode}, at \in Sending => k \in Codes,
         NEW m \in SUBSET Codes,
         job' = [job EXCEPT ![t] = [job[t] EXCEPT !.at = at, !.code = k, !.rows = m]]
  PROVE  NowAt(t, at, k, m)
<1> DEFINE j == [job[t] EXCEPT !.at = at, !.code = k, !.rows = m]
<1>1. GoodJob(job[t]) /\ job[t] \in Job /\ DOMAIN job = Threads
  BY DEF StoreType, TypeOK
<1>2. GoodJob(j)
  BY <1>1, JobGoes
<1>3. j.at = at /\ j.contact = job[t].contact /\ j.code = k /\ j.rows = m
  BY <1>1, JobHolds
<1>4. job' = [job EXCEPT ![t] = j]
  OBVIOUS
<1> HIDE DEF j
<1>5. job'[t] = j /\ Alone(t)
  BY <1>1, <1>4 DEF Alone
<1> QED
  BY <1>2, <1>3, <1>5 DEF NowAt

\* Goes changes the place alone.
LEMMA GoesOn ==
  ASSUME StoreType, NEW t \in Threads, job[t].at # "idle",
         NEW at, at \in Verifying \/ (at \in Sending /\ job[t].at \in Sending),
         Goes(t, at) \/ job' = [job EXCEPT ![t] = [job[t] EXCEPT !.at = at]]
  PROVE  NowAt(t, at, job[t].code, job[t].rows)
<1>1. GoodJob(job[t]) /\ job[t] \in Job
  BY DEF StoreType, TypeOK
<1>2. /\ job[t].code \in Codes \union {NoCode} /\ job[t].rows \in SUBSET Codes
      /\ at \in Sending => job[t].code \in Codes
  BY <1>1 DEF GoodJob, Job, Sending, Verifying
<1>3. [job[t] EXCEPT !.at = at]
        = [job[t] EXCEPT !.at = at, !.code = job[t].code, !.rows = job[t].rows]
  BY <1>1, JobSame
<1>4. job' = [job EXCEPT ![t] = [job[t] EXCEPT !.at = at, !.code = job[t].code, !.rows = job[t].rows]]
  BY <1>3 DEF Goes, Works
<1> QED
  BY <1>2, <1>4, Turns

\* Ending.
LEMMA Ends ==
  ASSUME StoreType, NEW t \in Threads, job[t].at # "idle", Finish(t)
  PROVE  NowIdle(t)
<1>1. DOMAIN job = Threads
  BY DEF StoreType, TypeOK
<1> QED
  BY <1>1 DEF Finish, Works, NowIdle, Alone

\* The steps of a sending request, in these terms.
LEMMA SendingSteps ==
  ASSUME StoreType, NEW t \in Threads
  PROVE  /\ \A c \in Contacts, k \in Codes : SendStart(t, c, k)
              => NowNew(t, IF up THEN "count" ELSE "store", c, k) /\ k \notin Issued
         /\ SendCount(t) => /\ job[t].at = "count"
                            /\ NowIdle(t) \/ NowAt(t, "store", job[t].code, job[t].rows)
         /\ StoreInRedis(t) =>
              /\ job[t].at = "store"
              /\ IF up THEN NowAt(t, "clear", job[t].code, job[t].rows)
                       ELSE NowAt(t, "insert", job[t].code, table[job[t].contact])
         /\ StoreClear(t) =>
              /\ job[t].at = "clear"
              /\ IF up THEN NowAt(t, "send", job[t].code, job[t].rows)
                       ELSE NowAt(t, "insert", job[t].code, table[job[t].contact])
         /\ StoreInsert(t) => job[t].at = "insert" /\ NowAt(t, "send", job[t].code, {})
         /\ Send(t) => job[t].at = "send" /\ NowIdle(t)
<1>0. /\ GoodJob(job[t]) /\ job[t] \in Job /\ DOMAIN job = Threads
      /\ \A c \in Contacts : table[c] \in SUBSET Codes
      /\ job[t].at \in Sending => job[t].code \in Codes /\ job[t].contact \in Contacts
  BY NoJob DEF StoreType, TypeOK, GoodJob, Sending
<1>1. ASSUME NEW c \in Contacts, NEW k \in Codes, SendStart(t, c, k)
      PROVE  NowNew(t, IF up THEN "count" ELSE "store", c, k) /\ k \notin Issued
  <2> DEFINE j == [Idle EXCEPT !.at = IF up THEN "count" ELSE "store", !.contact = c, !.code = k]
  <2>1. /\ GoodJob(j) /\ j.at = (IF up THEN "count" ELSE "store") /\ j.contact = c /\ j.code = k
    BY DEF Idle, Job, GoodJob, Sending
  <2>2. job[t] = Idle /\ job' = [job EXCEPT ![t] = j] /\ k \notin Issued
    BY <1>1 DEF SendStart, Works
  <2> HIDE DEF j
  <2> QED
    BY <1>0, <2>1, <2>2 DEF NowNew, Alone
<1>2. ASSUME SendCount(t)
      PROVE  /\ job[t].at = "count"
             /\ NowIdle(t) \/ NowAt(t, "store", job[t].code, job[t].rows)
  <2>1. job[t].at = "count" /\ (Finish(t) \/ Goes(t, "store"))
    BY <1>2 DEF SendCount
  <2> QED
    BY <2>1, GoesOn, Ends DEF Sending
<1>3. ASSUME StoreInRedis(t)
      PROVE  /\ job[t].at = "store"
             /\ IF up THEN NowAt(t, "clear", job[t].code, job[t].rows)
                      ELSE NowAt(t, "insert", job[t].code, table[job[t].contact])
  <2>1. job[t].at = "store" /\ up => Goes(t, "clear")
    BY <1>3 DEF StoreInRedis
  <2>2. ~ up => job' = [job EXCEPT ![t] = [job[t] EXCEPT !.at = "insert", !.rows = table[job[t].contact]]]
    BY <1>3 DEF StoreInRedis, Works
  <2>3. job[t].at = "store"
    BY <1>3 DEF StoreInRedis
  <2>4. [job[t] EXCEPT !.at = "insert", !.rows = table[job[t].contact]]
          = [job[t] EXCEPT !.at = "insert", !.code = job[t].code, !.rows = table[job[t].contact]]
    BY <1>0, JobSame
  <2>5. CASE up
    BY <2>1, <2>3, <2>5, GoesOn DEF Sending
  <2>6. CASE ~ up
    BY <1>0, <2>2, <2>3, <2>4, <2>6, Turns DEF Sending
  <2> QED
    BY <2>3, <2>5, <2>6
<1>4. ASSUME StoreClear(t)
      PROVE  /\ job[t].at = "clear"
             /\ IF up THEN NowAt(t, "send", job[t].code, job[t].rows)
                      ELSE NowAt(t, "insert", job[t].code, table[job[t].contact])
  <2>1. job[t].at = "clear" /\ (up => Goes(t, "send"))
    BY <1>4 DEF StoreClear
  <2>2. ~ up => job' = [job EXCEPT ![t] = [job[t] EXCEPT !.at = "insert", !.rows = table[job[t].contact]]]
    BY <1>4 DEF StoreClear, Works
  <2>3. [job[t] EXCEPT !.at = "insert", !.rows = table[job[t].contact]]
          = [job[t] EXCEPT !.at = "insert", !.code = job[t].code, !.rows = table[job[t].contact]]
    BY <1>0, JobSame
  <2>4. CASE up
    BY <2>1, <2>4, GoesOn DEF Sending
  <2>5. CASE ~ up
    BY <1>0, <2>1, <2>2, <2>3, <2>5, Turns DEF Sending
  <2> QED
    BY <2>1, <2>4, <2>5
<1>5. ASSUME StoreInsert(t)
      PROVE  job[t].at = "insert" /\ NowAt(t, "send", job[t].code, {})
  <2>1. job[t].at = "insert" /\ job' = [job EXCEPT ![t] = [job[t] EXCEPT !.at = "send", !.rows = {}]]
    BY <1>5 DEF StoreInsert, Works
  <2>2. [job[t] EXCEPT !.at = "send", !.rows = {}]
          = [job[t] EXCEPT !.at = "send", !.code = job[t].code, !.rows = {}]
    BY <1>0, JobSame
  <2> QED
    BY <1>0, <2>1, <2>2, Turns DEF Sending
<1>6. ASSUME Send(t)
      PROVE  job[t].at = "send" /\ NowIdle(t)
  BY <1>6, Ends DEF Send
<1> QED
  BY <1>1, <1>2, <1>3, <1>4, <1>5, <1>6

\* The steps of a verifying request.
LEMMA VerifyingSteps ==
  ASSUME StoreType, NEW t \in Threads
  PROVE  /\ \A c \in Contacts, k \in known \union {NoCode} : VerifyStart(t, c, k)
              => /\ job[t] = Idle
                 /\ IF up /\ attempts[c] >= MaxTries THEN UNCHANGED job ELSE NowNew(t, "read", c, k)
         /\ VerifyRead(t) =>
              /\ job[t].at = "read"
              /\ IF ~ up \/ cache[job[t].contact] = NoCode
                 THEN NowAt(t, "find", job[t].code, job[t].rows)
                 ELSE IF cache[job[t].contact] = job[t].code
                      THEN NowAt(t, "match", job[t].code, job[t].rows) ELSE NowIdle(t)
         /\ VerifyMatch(t) =>
              /\ job[t].at = "match"
              /\ IF up THEN NowIdle(t) ELSE NowAt(t, "find", job[t].code, job[t].rows)
         /\ VerifyFind(t) =>
              /\ job[t].at = "find"
              /\ IF job[t].code \in table[job[t].contact]
                 THEN NowAt(t, "take", IF job[t].code \in expired THEN NoCode ELSE job[t].code,
                            table[job[t].contact])
                 ELSE NowIdle(t)
         /\ VerifyTake(t) => job[t].at = "take" /\ NowIdle(t)
         /\ Dies(t) => NowIdle(t)
<1>0. /\ GoodJob(job[t]) /\ job[t] \in Job /\ DOMAIN job = Threads /\ known \subseteq Codes
      /\ \A c \in Contacts : table[c] \in SUBSET Codes
      /\ job[t].at \in Verifying => job[t].contact \in Contacts
  BY NoJob DEF StoreType, TypeOK, GoodJob, Verifying
<1>1. ASSUME NEW c \in Contacts, NEW k \in known \union {NoCode}, VerifyStart(t, c, k)
      PROVE  /\ job[t] = Idle
             /\ IF up /\ attempts[c] >= MaxTries THEN UNCHANGED job ELSE NowNew(t, "read", c, k)
  <2> DEFINE j == [Idle EXCEPT !.at = "read", !.contact = c, !.code = k]
  <2>1. GoodJob(j) /\ j.at = "read" /\ j.contact = c /\ j.code = k
    BY <1>0, JobStarts
  <2>2. job[t] = Idle /\ IF up /\ attempts[c] >= MaxTries THEN UNCHANGED job
                         ELSE job' = [job EXCEPT ![t] = j]
    BY <1>1 DEF VerifyStart, Works
  <2> HIDE DEF j
  <2> QED
    BY <1>0, <2>1, <2>2 DEF NowNew, Alone
<1>2. ASSUME VerifyRead(t)
      PROVE  /\ job[t].at = "read"
             /\ IF ~ up \/ cache[job[t].contact] = NoCode
                THEN NowAt(t, "find", job[t].code, job[t].rows)
                ELSE IF cache[job[t].contact] = job[t].code
                     THEN NowAt(t, "match", job[t].code, job[t].rows) ELSE NowIdle(t)
  <2>1. /\ job[t].at = "read"
        /\ IF ~ up \/ cache[job[t].contact] = NoCode THEN Goes(t, "find")
           ELSE IF cache[job[t].contact] = job[t].code THEN Goes(t, "match") ELSE Finish(t)
    BY <1>2 DEF VerifyRead
  <2> QED
    BY <2>1, GoesOn, Ends DEF Verifying
<1>3. ASSUME VerifyMatch(t)
      PROVE  /\ job[t].at = "match"
             /\ IF up THEN NowIdle(t) ELSE NowAt(t, "find", job[t].code, job[t].rows)
  <2>1. job[t].at = "match" /\ IF up THEN Finish(t) ELSE Goes(t, "find")
    BY <1>3 DEF VerifyMatch
  <2> QED
    BY <2>1, GoesOn, Ends DEF Verifying
<1>4. ASSUME VerifyFind(t)
      PROVE  /\ job[t].at = "find"
             /\ IF job[t].code \in table[job[t].contact]
                THEN NowAt(t, "take", IF job[t].code \in expired THEN NoCode ELSE job[t].code,
                           table[job[t].contact])
                ELSE NowIdle(t)
  <2> DEFINE k == IF job[t].code \in expired THEN NoCode ELSE job[t].code
  <2>1. /\ job[t].at = "find"
        /\ IF job[t].code \in table[job[t].contact]
           THEN job' = [job EXCEPT ![t] = [job[t] EXCEPT !.at = "take", !.rows = table[job[t].contact],
                                                         !.code = k]]
           ELSE Finish(t)
    BY <1>4 DEF VerifyFind, Works
  <2>2. k \in Codes \union {NoCode}
    BY <1>0 DEF Job
  <2> HIDE DEF k
  <2>3. [job[t] EXCEPT !.at = "take", !.rows = table[job[t].contact], !.code = k]
          = [job[t] EXCEPT !.at = "take", !.code = k, !.rows = table[job[t].contact]]
    BY <1>0, JobSame
  <2>4. CASE job[t].code \in table[job[t].contact]
    <3>1. NowAt(t, "take", k, table[job[t].contact])
      BY <1>0, <2>1, <2>2, <2>3, <2>4, Turns DEF Verifying, Sending
    <3> QED
      BY <2>1, <2>4, <3>1 DEF k
  <2>5. CASE job[t].code \notin table[job[t].contact]
    BY <2>1, <2>5, Ends
  <2> QED
    BY <2>4, <2>5
<1>5. ASSUME VerifyTake(t)
      PROVE  job[t].at = "take" /\ NowIdle(t)
  BY <1>5, Ends DEF VerifyTake
<1>6. ASSUME Dies(t)
      PROVE  NowIdle(t)
  <2>1. job[t].at # "idle"
    BY <1>0, <1>6 DEF Dies, GoodJob, Job, Idle
  <2> QED
    BY <1>6, <2>1, Ends DEF Dies
<1> QED
  BY <1>1, <1>2, <1>3, <1>4, <1>5, <1>6

\* Whatever the new job, the others' stay good.
LEMMA JobsStayGood ==
  ASSUME StoreType, NEW t \in Threads, Alone(t), GoodJob(job'[t])
  PROVE  job' \in [Threads -> Job] /\ \A u \in Threads : GoodJob(job'[u])
<1>1. \A u \in Threads : GoodJob(job'[u]) /\ job'[u] \in Job
  BY DEF StoreType, Alone, GoodJob
<1> QED
  BY <1>1 DEF Alone

\* One of a thread's steps, in these terms.
LEMMA StepIs ==
  ASSUME StoreType, NEW t \in Threads, Step(t)
  PROVE  /\ UNCHANGED <<up, expired>>
         /\ UNCHANGED job \/ (Alone(t) /\ GoodJob(job'[t]) /\ job'[t].at # job[t].at)
         /\ job[t] = Idle \/ NowIdle(t) \/ \E at, k, m : NowAt(t, at, k, m)
<1> USE NoJob DEF NowIdle, NowNew, NowAt
<1>1. CASE \E c \in Contacts, k \in Codes : SendStart(t, c, k)
  BY <1>1, SendingSteps DEF SendStart, kept
<1>2. CASE SendCount(t)
  BY <1>2, SendingSteps DEF SendCount
<1>3. CASE StoreInRedis(t)
  BY <1>3, SendingSteps DEF StoreInRedis
<1>4. CASE StoreClear(t)
  BY <1>4, SendingSteps DEF StoreClear
<1>5. CASE StoreInsert(t)
  BY <1>5, SendingSteps DEF StoreInsert
<1>6. CASE Send(t)
  BY <1>6, SendingSteps DEF Send, kept
<1>7. CASE \E c \in Contacts, k \in known \union {NoCode} : VerifyStart(t, c, k)
  BY <1>7, VerifyingSteps DEF VerifyStart
<1>8. CASE VerifyRead(t)
  BY <1>8, VerifyingSteps DEF VerifyRead, kept
<1>9. CASE VerifyMatch(t)
  BY <1>9, VerifyingSteps DEF VerifyMatch
<1>10. CASE VerifyFind(t)
  BY <1>10, VerifyingSteps DEF VerifyFind, kept
<1>11. CASE VerifyTake(t)
  BY <1>11, VerifyingSteps DEF VerifyTake
<1>12. CASE Dies(t)
  BY <1>12, VerifyingSteps DEF Dies, kept
<1> QED
  BY <1>1, <1>2, <1>3, <1>4, <1>5, <1>6, <1>7, <1>8, <1>9, <1>10, <1>11, <1>12 DEF Step

\* No step leaves the type.
LEMMA StoreTypeStep ==
  ASSUME StoreType, Next
  PROVE  StoreType'
<1>0. /\ up \in BOOLEAN
      /\ cache \in [Contacts -> Codes \union {NoCode}]
      /\ attempts \in [Contacts -> 0 .. MaxTries]
      /\ cooldown \subseteq Contacts /\ sends \in [Contacts -> 0 .. MaxSends + 1]
      /\ table \in [Contacts -> SUBSET Codes]
      /\ expired \subseteq Codes /\ known \subseteq Codes
      /\ job \in [Threads -> Job]
      /\ accepted \in [Codes -> Nat] /\ tried \in [Codes -> Nat]
      /\ \A u \in Threads : GoodJob(job[u])
  BY DEF StoreType, TypeOK
<1>1. MaxTries \in Nat \ {0} /\ MaxSends \in Nat \ {0} /\ NoCode \notin Codes /\ NoContact \notin Contacts
  BY OtpAssumption DEF OtpAssumption
<1>2. ASSUME NEW t \in Threads, Step(t)
      PROVE  StoreType'
  <2>1. job' \in [Threads -> Job] /\ \A u \in Threads : GoodJob(job'[u])
    BY <1>0, <1>2, StepIs, JobsStayGood
  <2>2. up' \in BOOLEAN /\ expired' \subseteq Codes
    BY <1>0, <1>2, StepIs
  <2>3. /\ job[t].at \in Sending => job[t].contact \in Contacts /\ job[t].code \in Codes
        /\ job[t].at \in Verifying => job[t].contact \in Contacts
    BY <1>0 DEF GoodJob, Sending, Verifying, Idle
  <2> SUFFICES
        /\ cache' \in [Contacts -> Codes \union {NoCode}]
        /\ attempts' \in [Contacts -> 0 .. MaxTries]
        /\ cooldown' \subseteq Contacts /\ sends' \in [Contacts -> 0 .. MaxSends + 1]
        /\ table' \in [Contacts -> SUBSET Codes] /\ known' \subseteq Codes
        /\ accepted' \in [Codes -> Nat] /\ tried' \in [Codes -> Nat]
    BY <2>1, <2>2 DEF StoreType, TypeOK
  <2>4. CASE \E c \in Contacts, k \in Codes : SendStart(t, c, k)
    BY <1>0, <2>4 DEF SendStart, kept
  <2>5. CASE SendCount(t)
    BY <1>0, <1>1, <2>3, <2>5 DEF SendCount, Sending
  <2>6. CASE StoreInRedis(t)
    BY <1>0, <2>3, <2>6 DEF StoreInRedis, Sending
  <2>7. CASE StoreClear(t)
    BY <1>0, <1>1, <2>7 DEF StoreClear
  <2>8. CASE StoreInsert(t)
    BY <1>0, <1>1, <2>3, <2>8 DEF StoreInsert, Sending
  <2>9. CASE Send(t)
    BY <1>0, <2>3, <2>9 DEF Send, kept, Sending
  <2>10. CASE \E c \in Contacts, k \in known \union {NoCode} : VerifyStart(t, c, k)
    BY <1>0, <1>1, <2>10 DEF VerifyStart
  <2>11. CASE VerifyRead(t)
    BY <1>0, <2>11 DEF VerifyRead, kept
  <2>12. CASE VerifyMatch(t)
    BY <1>0, <2>12 DEF VerifyMatch
  <2>13. CASE VerifyFind(t)
    BY <1>0, <2>13 DEF VerifyFind, kept
  <2>14. CASE VerifyTake(t)
    <3>1. table' \in [Contacts -> SUBSET Codes]
      BY <1>0, <2>14 DEF VerifyTake
    <3>2. accepted' \in [Codes -> Nat]
      <4>1. CASE job[t].code = NoCode
        BY <1>0, <2>14, <4>1 DEF VerifyTake
      <4>2. CASE job[t].code # NoCode
        <5>1. accepted' = [accepted EXCEPT ![job[t].code] = accepted[job[t].code] + 1]
          BY <2>14, <4>2 DEF VerifyTake
        <5>2. job[t].code \in Codes
          BY <1>0, <4>2 DEF Job
        <5>3. accepted[job[t].code] + 1 \in Nat
          BY <1>0, <5>2
        <5> QED
          BY <1>0, <5>1, <5>2, <5>3
      <4> QED
        BY <4>1, <4>2
    <3> QED
      BY <1>0, <2>14, <3>1, <3>2 DEF VerifyTake
  <2>15. CASE Dies(t)
    BY <1>0, <2>15 DEF Dies, kept
  <2> QED
    BY <1>2, <2>4, <2>5, <2>6, <2>7, <2>8, <2>9, <2>10, <2>11, <2>12, <2>13, <2>14, <2>15 DEF Step
<1>3. ASSUME NEW k \in Codes, Expire(k)
      PROVE  StoreType'
  <2>1. cache' \in [Contacts -> Codes \union {NoCode}] /\ expired' \subseteq Codes
    BY <1>0, <1>3 DEF Expire
  <2> QED
    BY <1>0, <1>3, <2>1 DEF Expire, StoreType, TypeOK
<1>4. ASSUME NEW c \in Contacts, AttemptsExpire(c) \/ CooldownEnds(c) \/ WindowEnds(c)
      PROVE  StoreType'
  <2>1. /\ attempts' \in [Contacts -> 0 .. MaxTries] /\ cooldown' \subseteq Contacts
        /\ sends' \in [Contacts -> 0 .. MaxSends + 1]
    BY <1>0, <1>1, <1>4 DEF AttemptsExpire, CooldownEnds, WindowEnds
  <2>2. UNCHANGED <<up, cache, table, expired, known, job, accepted, tried>>
    BY <1>4 DEF AttemptsExpire, CooldownEnds, WindowEnds
  <2> QED
    BY <1>0, <2>1, <2>2 DEF StoreType, TypeOK
<1>5. ASSUME RedisTurns
      PROVE  StoreType'
  BY <1>0, <1>5 DEF RedisTurns, StoreType, TypeOK
<1> QED
  BY <1>2, <1>3, <1>4, <1>5 DEF Next

\* One thread works at most.
OneWorks == \A t, u \in Threads : job[t].at # "idle" /\ job[u].at # "idle" => t = u

\* A set with one element at most.
LEMMA AtMostOne ==
  ASSUME NEW S, IsFiniteSet(S), Cardinality(S) <= 1, NEW x \in S, NEW y \in S
  PROVE  x = y
<1>1. SUFFICES ASSUME x # y
               PROVE  FALSE
  OBVIOUS
<1>2. IsFiniteSet(S \ {x}) /\ Cardinality(S \ {x}) = Cardinality(S) - 1
  BY FS_RemoveElement
<1>3. Cardinality(S \ {x}) # 0
  BY <1>1, <1>2, FS_EmptySet
<1>4. Cardinality(S) \in Nat /\ Cardinality(S \ {x}) \in Nat
  BY <1>2, FS_CardinalityType
<1> QED
  BY <1>2, <1>3, <1>4

\* Where requests come one at a time, nobody works while another does, and
\* time does not pass while anybody does.
LEMMA InTurnStep ==
  ASSUME StoreType, StoreType', CodesNext, habit # "overlap", OneWorks
  PROVE  /\ OneWorks'
         /\ \A t \in Threads : Step(t) => \A u \in Threads \ {t} : job[u] = Idle
         /\ UNCHANGED <<job, up>> => \A u \in Threads : job[u] = Idle
<1>1. /\ IsFiniteSet(Threads) /\ Cardinality(Working') <= 1
      /\ Working # {} => job' # job \/ up' # up
  BY LoginAssumption DEF LoginAssumption, CodesNext
<1>2. /\ \A u \in Threads : u \in Working <=> job[u].at # "idle"
      /\ \A u \in Threads : u \in Working' <=> job'[u].at # "idle"
      /\ \A u \in Threads : job[u].at = "idle" => job[u] = Idle
      /\ Working \subseteq Threads /\ Working' \subseteq Threads
  BY NoJob DEF StoreType, GoodJob, Working
<1>3. OneWorks'
  <2>1. IsFiniteSet(Working')
    BY <1>1, <1>2, FS_Subset
  <2> SUFFICES ASSUME NEW t \in Working', NEW u \in Working'
               PROVE  t = u
    BY <1>2 DEF OneWorks
  <2> QED
    BY <1>1, <2>1, AtMostOne
<1>4. ASSUME NEW t \in Threads, Step(t), NEW u \in Threads \ {t}
      PROVE  job[u] = Idle
  <2>1. SUFFICES ASSUME job[u].at # "idle"
                 PROVE  FALSE
    BY <1>2
  <2>2. UNCHANGED up /\ (UNCHANGED job \/ (Alone(t) /\ GoodJob(job'[t]) /\ job'[t].at # job[t].at))
    BY <1>4, StepIs
  <2>3. Alone(t) /\ job'[t].at # job[t].at
    BY <1>1, <1>2, <2>1, <2>2
  <2>4. job'[u].at # "idle" /\ t # u
    BY <2>1, <2>3 DEF Alone
  <2>5. job[t].at = "idle"
    BY <2>1, <2>4 DEF OneWorks
  <2> QED
    BY <1>3, <2>3, <2>4, <2>5 DEF OneWorks
<1>5. UNCHANGED <<job, up>> => \A u \in Threads : job[u] = Idle
  BY <1>1, <1>2
<1> QED
  BY <1>3, <1>4, <1>5

-----------------------------------------------------------------------------
(* One-time codes in Redis, where requests come one at a time. *)

Nobody == \A u \in Threads : job[u] = Idle

\* The guesses counted against a contact, by what the one that works does.
LEMMA TriesAre ==
  ASSUME StoreType, StoreType', InTurn, habit' = habit, NEW t \in Threads,
         \A u \in Threads \ {t} : job[u] = Idle /\ job'[u] = Idle
  PROVE  /\ Tries = IF job[t].at = "clear" THEN [attempts EXCEPT ![job[t].contact] = 0] ELSE attempts
         /\ Tries' = IF job'[t].at = "clear" THEN [attempts' EXCEPT ![job'[t].contact] = 0]
                     ELSE attempts'
<1>1. /\ attempts \in [Contacts -> 0 .. MaxTries] /\ attempts' \in [Contacts -> 0 .. MaxTries]
      /\ InTurn' /\ Idle.at # "clear"
  BY NoJob DEF StoreType, TypeOK, InTurn
<1>2. \A c \in Contacts :
        /\ Counted(c) = IF job[t].at = "clear" /\ job[t].contact = c THEN 0 ELSE attempts[c]
        /\ Counted(c)' = IF job'[t].at = "clear" /\ job'[t].contact = c THEN 0 ELSE attempts'[c]
  <2> TAKE c \in Contacts
  <2>1. (\E u \in Threads : job[u].at = "clear" /\ job[u].contact = c)
          <=> job[t].at = "clear" /\ job[t].contact = c
    BY <1>1
  <2>2. (\E u \in Threads : job'[u].at = "clear" /\ job'[u].contact = c)
          <=> job'[t].at = "clear" /\ job'[t].contact = c
    BY <1>1
  <2> QED
    BY <1>1, <2>1, <2>2 DEF Counted
<1>3. Tries = IF job[t].at = "clear" THEN [attempts EXCEPT ![job[t].contact] = 0] ELSE attempts
  BY <1>1, <1>2 DEF Tries
<1>4. Tries' = IF job'[t].at = "clear" THEN [attempts' EXCEPT ![job'[t].contact] = 0] ELSE attempts'
  BY <1>1, <1>2 DEF Tries
<1> QED
  BY <1>3, <1>4

\* And where nobody works.
LEMMA TriesAtRest ==
  ASSUME StoreType, StoreType', InTurn, habit' = habit, Nobody, UNCHANGED job
  PROVE  Tries = attempts /\ Tries' = attempts'
<1>1. /\ attempts \in [Contacts -> 0 .. MaxTries] /\ attempts' \in [Contacts -> 0 .. MaxTries]
      /\ InTurn' /\ Idle.at # "clear"
  BY NoJob DEF StoreType, TypeOK, InTurn
<1>2. \A c \in Contacts : Counted(c) = attempts[c] /\ Counted(c)' = attempts'[c]
  BY <1>1 DEF Counted, Nobody
<1> QED
  BY <1>1, <1>2 DEF Tries

\* A code that was generated and is not stored yet.
Fresh(k) == /\ k \in Codes /\ accepted[k] = 0 /\ tried[k] = 0 /\ k \notin expired
            /\ \A c \in Contacts : cache[c] # k /\ k \notin table[c]

\* Where Redis is there, codes are in Redis alone, each for one contact, and
\* compared no more often than the guesses counted, one of which may be under way.
ThereJob(j) ==
  /\ j.at \notin {"insert", "take"}
  /\ j.at \in {"count", "store"} => Fresh(j.code)
  /\ j.at = "clear" => cache[j.contact] = j.code
  /\ j.at = "match" => cache[j.contact] = j.code /\ j.code # NoCode
  /\ j.at = "read" /\ cache[j.contact] # NoCode => tried[cache[j.contact]] < attempts[j.contact]
ThereInv ==
  /\ up /\ \A c \in Contacts : table[c] = {}
  /\ \A c, d \in Contacts : cache[c] = cache[d] /\ cache[c] # NoCode => c = d
  /\ \A c \in Contacts : cache[c] # NoCode => tried[cache[c]] <= Tries[c]
  /\ \A k \in Codes : tried[k] <= MaxTries
  /\ \A t \in Threads : ThereJob(job[t])

\* A code that nothing was issued with is fresh.
LEMMA NotIssued ==
  ASSUME StoreType, NEW k \in Codes, k \notin Issued
  PROVE  Fresh(k) /\ \A t \in Threads : job[t].code # k
<1>1. accepted[k] \in Nat /\ tried[k] \in Nat
  BY DEF StoreType, TypeOK
<1>2. /\ k \notin expired /\ ~ (accepted[k] + tried[k] > 0)
      /\ \A c \in Contacts : ~ (k = cache[c] \/ k \in table[c])
      /\ \A t \in Threads : job[t].code # k
  BY DEF Issued
<1>3. accepted[k] = 0 /\ tried[k] = 0
  BY <1>1, <1>2
<1> QED
  BY <1>2, <1>3 DEF Fresh

\* What the one that works may leave behind.
LEMMA ThereKept ==
  ASSUME NEW t \in Threads, \A u \in Threads \ {t} : job'[u] = Idle, ThereJob(job[t])', up',
         \A c \in Contacts : table'[c] = {},
         \A c, d \in Contacts : cache'[c] = cache'[d] /\ cache'[c] # NoCode => c = d,
         \A c \in Contacts : cache'[c] # NoCode => tried'[cache'[c]] <= Tries'[c],
         \A k \in Codes : tried'[k] <= MaxTries
  PROVE  ThereInv'
<1>1. \A u \in Threads \ {t} : ThereJob(job[u])'
  BY NoJob DEF ThereJob
<1> QED
  BY <1>1 DEF ThereInv

\* What the promise sees of a store in Redis.
LEMMA ThereIs ==
  ASSUME StoreType, StoreType', habit = "there", habit' = habit
  PROVE  /\ InTurn /\ Live = cache /\ Live' = cache' /\ Late = expired /\ Late' = expired'
         /\ Used = {k \in Codes : accepted[k] > 0} /\ Used' = {k \in Codes : accepted'[k] > 0}
<1>1. InTurn /\ InTurn'
  BY DEF InTurn
<1>2. cache \in [Contacts -> Codes \union {NoCode}] /\ cache' \in [Contacts -> Codes \union {NoCode}]
  BY DEF StoreType, TypeOK
<1>3. \A c \in Contacts : Usable(c) = cache[c] /\ Usable(c)' = cache'[c]
  BY <1>1 DEF Usable
<1> QED
  BY <1>1, <1>2, <1>3 DEF Live, Used, Late

\* Each step of a thread is a step of the promise, and leaves such a state.
LEMMA ThereThreadStep ==
  ASSUME StoreType, StoreType', habit = "there", habit' = habit, ThereInv,
         NEW t \in Threads, Step(t), \A u \in Threads \ {t} : job[u] = Idle,
         job[t].at = "clear" => ~ Dies(t)
  PROVE  ThereInv' /\ (Promise!Next \/ UNCHANGED <<Live, Tries, Used, Late>>)
<1> USE NoJob
<1>1. /\ cache \in [Contacts -> Codes \union {NoCode}] /\ attempts \in [Contacts -> 0 .. MaxTries]
      /\ accepted \in [Codes -> Nat] /\ tried \in [Codes -> Nat] /\ known \subseteq Codes
      /\ MaxTries \in Nat \ {0} /\ NoCode \notin Codes /\ GoodJob(job[t])
      /\ cache' \in [Contacts -> Codes \union {NoCode}] /\ attempts' \in [Contacts -> 0 .. MaxTries]
  BY OtpAssumption DEF OtpAssumption, StoreType, TypeOK
<1>2. /\ up /\ \A c \in Contacts : table[c] = {}
      /\ \A c, d \in Contacts : cache[c] = cache[d] /\ cache[c] # NoCode => c = d
      /\ \A c \in Contacts : cache[c] # NoCode => tried[cache[c]] <= Tries[c]
      /\ \A k \in Codes : tried[k] <= MaxTries
      /\ ThereJob(job[t])
  BY DEF ThereInv
<1>3. /\ UNCHANGED <<up, expired>> /\ \A u \in Threads \ {t} : job'[u] = Idle
  <2>1. UNCHANGED job \/ Alone(t)
    BY StepIs
  <2> QED
    BY <2>1, StepIs DEF Alone
<1>4. /\ Live = cache /\ Live' = cache' /\ UNCHANGED Late
      /\ Used = {k \in Codes : accepted[k] > 0} /\ Used' = {k \in Codes : accepted'[k] > 0}
      /\ InTurn
  BY <1>3, ThereIs
<1>5. /\ Tries = IF job[t].at = "clear" THEN [attempts EXCEPT ![job[t].contact] = 0] ELSE attempts
      /\ Tries' = IF job'[t].at = "clear" THEN [attempts' EXCEPT ![job'[t].contact] = 0] ELSE attempts'
  BY <1>3, <1>4, TriesAre
\* Steps that the promise does not see, and that compare nothing.
<1>6. ASSUME UNCHANGED <<cache, table, accepted, tried>>, Tries' = Tries, ThereJob(job[t])'
      PROVE  ThereInv' /\ UNCHANGED <<Live, Tries, Used, Late>>
  <2>1. ThereInv'
    BY <1>2, <1>3, <1>6, ThereKept
  <2> QED
    BY <1>4, <1>6, <2>1
<1>7. ASSUME NEW c \in Contacts, NEW k \in Codes, SendStart(t, c, k)
      PROVE  ThereInv' /\ UNCHANGED <<Live, Tries, Used, Late>>
  <2>1. /\ NowNew(t, "count", c, k) /\ Fresh(k) /\ UNCHANGED <<cache, table, accepted, tried, attempts>>
    BY <1>2, <1>7, SendingSteps, NotIssued DEF SendStart, kept
  <2>2. job'[t].at = "count" /\ job'[t].code = k /\ job[t].at = "idle"
    BY <2>1 DEF NowNew
  <2>3. Fresh(k)'
    BY <1>3, <2>1 DEF Fresh
  <2> QED
    BY <1>5, <1>6, <2>1, <2>2, <2>3 DEF ThereJob
<1>8. ASSUME SendCount(t)
      PROVE  ThereInv' /\ UNCHANGED <<Live, Tries, Used, Late>>
  <2>1. UNCHANGED <<cache, table, accepted, tried, attempts>> /\ job[t].at = "count"
    BY <1>8 DEF SendCount
  <2>2. job'[t] = Idle \/ (job'[t].at = "store" /\ job'[t].code = job[t].code)
    BY <1>8, SendingSteps DEF NowIdle, NowAt
  <2>3. PICK k : k = job[t].code
    OBVIOUS
  <2>4. Fresh(k)
    BY <1>2, <2>1, <2>3 DEF ThereJob
  <2>5. Fresh(k)'
    BY <1>3, <2>1, <2>4 DEF Fresh
  <2> QED
    BY <1>5, <1>6, <2>1, <2>2, <2>3, <2>5 DEF ThereJob
<1>9. ASSUME StoreInRedis(t)
      PROVE  ThereInv' /\ Promise!Next
  <2> DEFINE c == job[t].contact
             k == job[t].code
  <2>1. /\ job[t].at = "store" /\ cache' = [cache EXCEPT ![c] = k]
        /\ UNCHANGED <<attempts, table, accepted, tried>>
    BY <1>2, <1>9 DEF StoreInRedis
  <2>2. job'[t].at = "clear" /\ job'[t].contact = c /\ job'[t].code = k
    BY <1>2, <1>9, SendingSteps DEF NowAt
  <2>3. Fresh(k) /\ c \in Contacts
    BY <1>1, <1>2, <2>1 DEF ThereJob, GoodJob
  <2> HIDE DEF c, k
  <2>4. Tries = attempts /\ Tries' = [attempts EXCEPT ![c] = 0]
    BY <1>5, <2>1, <2>2
  <2>5. k \in Codes /\ k \notin Used /\ k \notin Late
    BY <1>4, <2>3, ThereIs DEF Fresh
  <2>6. UNCHANGED <<Used, Late>> /\ Live' = [Live EXCEPT ![c] = k] /\ Tries' = [Tries EXCEPT ![c] = 0]
    BY <1>4, <2>1, <2>4
  <2>7. Promise!Next
    BY <2>3, <2>5, <2>6 DEF Promise!Next, Promise!Issue
  <2>8. ThereJob(job[t])'
    BY <1>1, <2>1, <2>2, <2>3 DEF ThereJob
  <2>9. \A d, e \in Contacts : cache'[d] = cache'[e] /\ cache'[d] # NoCode => d = e
    BY <1>1, <1>2, <2>1, <2>3 DEF Fresh
  <2>10. \A d \in Contacts : cache'[d] # NoCode => tried'[cache'[d]] <= Tries'[d]
    BY <1>1, <1>2, <2>1, <2>3, <2>4 DEF Fresh
  <2>11. ThereInv'
    BY <1>2, <1>3, <2>1, <2>8, <2>9, <2>10, ThereKept
  <2> QED
    BY <2>7, <2>11
<1>10. ASSUME StoreClear(t)
       PROVE  ThereInv' /\ UNCHANGED <<Live, Tries, Used, Late>>
  <2>1. /\ UNCHANGED <<cache, table, accepted, tried>> /\ job[t].at = "clear"
        /\ attempts' = [attempts EXCEPT ![job[t].contact] = 0]
    BY <1>2, <1>10 DEF StoreClear
  <2>2. job'[t].at = "send"
    BY <1>2, <1>10, SendingSteps DEF NowAt
  <2> QED
    BY <1>5, <1>6, <2>1, <2>2 DEF ThereJob
<1>11. ASSUME Send(t)
       PROVE  ThereInv' /\ UNCHANGED <<Live, Tries, Used, Late>>
  <2>1. UNCHANGED <<cache, table, accepted, tried, attempts>> /\ job[t].at = "send" /\ job'[t] = Idle
    BY <1>11, SendingSteps DEF Send, kept, NowIdle
  <2> QED
    BY <1>5, <1>6, <2>1 DEF ThereJob
<1>12. ASSUME NEW c \in Contacts, NEW k \in known \union {NoCode}, VerifyStart(t, c, k)
       PROVE  ThereInv' /\ Promise!Next
  <2>1. job[t] = Idle /\ UNCHANGED <<accepted, tried>>
    BY <1>12 DEF VerifyStart
  <2>2. CASE attempts[c] >= MaxTries
    <3>1. /\ cache' = [cache EXCEPT ![c] = NoCode] /\ attempts' = [attempts EXCEPT ![c] = 0]
          /\ table' = [table EXCEPT ![c] = {}] /\ UNCHANGED job
      BY <1>2, <1>12, <2>2 DEF VerifyStart
    <3>2. Tries = attempts /\ Tries' = attempts' /\ Tries[c] = MaxTries
      BY <1>1, <1>5, <2>1, <2>2, <3>1
    <3>3. Live' = [Live EXCEPT ![c] = NoCode] /\ Tries' = [Tries EXCEPT ![c] = 0] /\ UNCHANGED <<Used, Late>>
      BY <1>4, <2>1, <3>1, <3>2
    <3>4. Promise!Next
      BY <3>2, <3>3 DEF Promise!Next, Promise!Void
    <3>5. \A d, e \in Contacts : cache'[d] = cache'[e] /\ cache'[d] # NoCode => d = e
      BY <1>1, <1>2, <3>1
    <3>6. \A d \in Contacts : cache'[d] # NoCode => tried'[cache'[d]] <= Tries'[d]
      BY <1>1, <1>2, <2>1, <3>1, <3>2
    <3>7. \A d \in Contacts : table'[d] = {}
      BY <1>2, <3>1
    <3>8. ThereJob(job[t])'
      BY <2>1, <3>1 DEF ThereJob
    <3>9. ThereInv'
      BY <1>2, <1>3, <2>1, <3>5, <3>6, <3>7, <3>8, ThereKept
    <3> QED
      BY <3>4, <3>9
  <2>3. CASE ~ (attempts[c] >= MaxTries)
    <3>1. attempts' = [attempts EXCEPT ![c] = attempts[c] + 1] /\ UNCHANGED <<cache, table>>
      BY <1>2, <1>12, <2>3 DEF VerifyStart
    <3>2. job'[t].at = "read" /\ job'[t].contact = c
      BY <1>2, <1>12, <2>3, VerifyingSteps DEF NowNew
    <3>3. Tries = attempts /\ Tries' = attempts' /\ Tries[c] < MaxTries
      BY <1>1, <1>5, <2>1, <2>3, <3>2
    <3>4. Tries' = [Tries EXCEPT ![c] = Tries[c] + 1] /\ UNCHANGED <<Live, Used, Late>>
      BY <1>4, <2>1, <3>1, <3>3
    <3>5. Promise!Next
      BY <3>3, <3>4 DEF Promise!Next, Promise!Try
    <3>6. \A d \in Contacts : cache[d] # NoCode => tried[cache[d]] \in Nat /\ attempts[d] \in Nat
      BY <1>1
    <3>7. \A d \in Contacts : cache'[d] # NoCode => tried'[cache'[d]] <= Tries'[d]
      BY <1>1, <1>2, <2>1, <3>1, <3>3, <3>6
    <3>8. cache[c] # NoCode => tried[cache[c]] < attempts'[c]
      BY <1>1, <1>2, <3>1, <3>3, <3>6
    <3>9. ThereJob(job[t])'
      BY <2>1, <3>1, <3>2, <3>8 DEF ThereJob
    <3>10. ThereInv'
      BY <1>2, <1>3, <2>1, <3>1, <3>7, <3>9, ThereKept
    <3> QED
      BY <3>5, <3>10
  <2> QED
    BY <2>2, <2>3
<1>13. ASSUME VerifyRead(t)
       PROVE  ThereInv' /\ UNCHANGED <<Live, Tries, Used, Late>>
  <2> DEFINE c == job[t].contact
  <2>1. job[t].at = "read" /\ c \in Contacts /\ UNCHANGED <<cache, table, accepted, attempts>>
    BY <1>1, <1>13 DEF VerifyRead, kept, GoodJob
  <2>2. CASE cache[c] = NoCode
    <3>1. UNCHANGED tried /\ job'[t].at = "find"
      BY <1>13, <2>2, VerifyingSteps DEF VerifyRead, NowAt
    <3> QED
      BY <1>5, <1>6, <2>1, <3>1 DEF ThereJob
  <2>3. CASE cache[c] # NoCode
    <3>1. tried' = [tried EXCEPT ![cache[c]] = tried[cache[c]] + 1]
      BY <1>2, <1>13, <2>3 DEF VerifyRead
    <3>2. job'[t] = Idle \/ (job'[t].at = "match" /\ job'[t].contact = c /\ job'[t].code = cache[c])
      BY <1>2, <1>13, <2>3, VerifyingSteps DEF NowAt, NowIdle
    <3>3. tried[cache[c]] < attempts[c] /\ cache[c] \in Codes
      BY <1>1, <1>2, <2>1, <2>3 DEF ThereJob
    <3> HIDE DEF c
    <3>4. Tries = attempts /\ Tries' = attempts
      BY <1>5, <2>1, <3>2
    <3>5. ThereJob(job[t])'
      BY <2>1, <2>3, <3>2 DEF ThereJob
    <3>6. \A d \in Contacts : cache[d] # NoCode => tried[cache[d]] \in Nat /\ attempts[d] \in 0 .. MaxTries
      BY <1>1
    <3>7. \A d \in Contacts : cache'[d] # NoCode => tried'[cache'[d]] <= Tries'[d]
      <4> SUFFICES ASSUME NEW d \in Contacts, cache[d] # NoCode
                   PROVE  tried'[cache[d]] <= attempts[d]
        BY <2>1, <3>4
      <4>1. CASE d = c
        BY <1>1, <3>1, <3>3, <3>6, <4>1
      <4>2. CASE d # c
        <5>1. cache[d] # cache[c] /\ cache[d] \in Codes
          BY <1>1, <1>2, <2>1, <4>2
        <5> QED
          BY <1>1, <1>2, <3>1, <3>4, <5>1
      <4> QED
        BY <4>1, <4>2
    <3>8. \A k \in Codes : tried'[k] <= MaxTries
      BY <1>1, <1>2, <2>1, <3>1, <3>3, <3>6
    <3>9. ThereInv'
      BY <1>2, <1>3, <2>1, <3>5, <3>7, <3>8, ThereKept
    <3> QED
      BY <1>4, <2>1, <3>4, <3>9
  <2> QED
    BY <2>2, <2>3
<1>14. ASSUME VerifyMatch(t)
       PROVE  ThereInv' /\ Promise!Next
  <2> DEFINE c == job[t].contact
             k == job[t].code
  <2>1. /\ job[t].at = "match" /\ UNCHANGED <<attempts, table, tried>>
        /\ cache' = [cache EXCEPT ![c] = NoCode] /\ accepted' = [accepted EXCEPT ![k] = accepted[k] + 1]
    BY <1>2, <1>14 DEF VerifyMatch
  <2>2. job'[t] = Idle
    BY <1>2, <1>14, VerifyingSteps DEF NowIdle
  <2>3. cache[c] = k /\ k # NoCode /\ c \in Contacts
    BY <1>1, <1>2, <2>1 DEF ThereJob, GoodJob
  <2> HIDE DEF c, k
  <2>4. Tries = attempts /\ Tries' = attempts /\ k \in Codes
    BY <1>1, <1>5, <2>1, <2>2, <2>3
  <2>5. Used' = Used \union {Live[c]} /\ Live[c] # NoCode /\ Live' = [Live EXCEPT ![c] = NoCode]
    <3>1. \A m \in Codes : accepted'[m] > 0 <=> accepted[m] > 0 \/ m = k
      BY <1>1, <2>1, <2>4
    <3> QED
      BY <1>4, <2>1, <2>3, <2>4, <3>1
  <2>6. Promise!Next
    BY <1>4, <2>3, <2>4, <2>5 DEF Promise!Next, Promise!Accept
  <2>7. \A d, e \in Contacts : cache'[d] = cache'[e] /\ cache'[d] # NoCode => d = e
    BY <1>1, <1>2, <2>1
  <2>8. \A d \in Contacts : cache'[d] # NoCode => tried'[cache'[d]] <= Tries'[d]
    BY <1>1, <1>2, <2>1, <2>4
  <2>9. ThereJob(job[t])'
    BY <2>2 DEF ThereJob
  <2>10. ThereInv'
    BY <1>2, <1>3, <2>1, <2>7, <2>8, <2>9, ThereKept
  <2> QED
    BY <2>6, <2>10
<1>15. ASSUME VerifyFind(t)
       PROVE  ThereInv' /\ UNCHANGED <<Live, Tries, Used, Late>>
  <2>1. UNCHANGED <<cache, table, accepted, tried, attempts>> /\ job[t].at = "find"
    BY <1>15 DEF VerifyFind, kept
  <2>2. job[t].contact \in Contacts
    BY <1>1, <2>1 DEF GoodJob
  <2>3. job'[t] = Idle
    BY <1>2, <1>15, <2>2, VerifyingSteps DEF NowIdle
  <2> QED
    BY <1>5, <1>6, <2>1, <2>3 DEF ThereJob
<1>16. ASSUME Dies(t)
       PROVE  ThereInv' /\ UNCHANGED <<Live, Tries, Used, Late>>
  <2>1. UNCHANGED <<cache, table, accepted, tried, attempts>> /\ job'[t] = Idle /\ job[t].at # "clear"
    BY <1>16, VerifyingSteps DEF Dies, kept, NowIdle
  <2> QED
    BY <1>5, <1>6, <2>1 DEF ThereJob
<1>17. ~ StoreInsert(t) /\ ~ VerifyTake(t)
  BY <1>2 DEF StoreInsert, VerifyTake, ThereJob
<1> QED
  BY <1>7, <1>8, <1>9, <1>10, <1>11, <1>12, <1>13, <1>14, <1>15, <1>16, <1>17 DEF Step

\* So is the passing of time, when nobody works.
LEMMA ThereTimeStep ==
  ASSUME StoreType, StoreType', habit = "there", habit' = habit, ThereInv, Nobody,
         \/ \E k \in Codes : Expire(k)
         \/ \E c \in Contacts : AttemptsExpire(c) \/ CooldownEnds(c) \/ WindowEnds(c)
  PROVE  ThereInv' /\ (Promise!Next \/ UNCHANGED <<Live, Tries, Used, Late>>)
<1>1. /\ cache \in [Contacts -> Codes \union {NoCode}] /\ attempts \in [Contacts -> 0 .. MaxTries]
      /\ tried \in [Codes -> Nat] /\ NoCode \notin Codes
  BY OtpAssumption DEF OtpAssumption, StoreType, TypeOK
<1>2. UNCHANGED <<up, job, table, accepted, tried>>
  BY DEF Expire, AttemptsExpire, CooldownEnds, WindowEnds
<1>3. /\ Live = cache /\ Live' = cache' /\ Late = expired /\ Late' = expired' /\ UNCHANGED Used
      /\ Tries = attempts /\ Tries' = attempts'
  BY <1>2, ThereIs, TriesAtRest
<1>4. /\ up' /\ \A c \in Contacts : table'[c] = {}
      /\ \A c, d \in Contacts : cache[c] = cache[d] /\ cache[c] # NoCode => c = d
      /\ \A c \in Contacts : cache[c] # NoCode => tried[cache[c]] <= attempts[c]
      /\ \A k \in Codes : tried'[k] <= MaxTries
      /\ \A t \in Threads : ThereJob(job[t])'
  <2>1. \A t \in Threads : job'[t].at = "idle"
    BY <1>2, NoJob DEF Nobody
  <2> QED
    BY <1>2, <1>3, <2>1 DEF ThereInv, ThereJob
<1>5. ASSUME NEW k \in Codes, Expire(k)
      PROVE  ThereInv' /\ Promise!Next
  <2>1. /\ cache' = [c \in Contacts |-> IF cache[c] = k THEN NoCode ELSE cache[c]]
        /\ expired' = expired \union {k} /\ UNCHANGED attempts
    BY <1>5 DEF Expire
  <2>2. Promise!Next
    BY <1>3, <2>1 DEF Promise!Next, Promise!Expire
  <2> QED
    BY <1>1, <1>2, <1>3, <1>4, <2>1, <2>2 DEF ThereInv
<1>6. ASSUME NEW c \in Contacts, AttemptsExpire(c)
      PROVE  ThereInv' /\ Promise!Next
  <2>1. cache[c] = NoCode /\ attempts' = [attempts EXCEPT ![c] = 0] /\ UNCHANGED <<cache, expired>>
    BY <1>6 DEF AttemptsExpire
  <2>2. Promise!Next
    BY <1>3, <2>1 DEF Promise!Next, Promise!Forget
  <2> QED
    BY <1>1, <1>2, <1>3, <1>4, <2>1, <2>2 DEF ThereInv
<1>7. ASSUME NEW c \in Contacts, CooldownEnds(c) \/ WindowEnds(c)
      PROVE  ThereInv' /\ UNCHANGED <<Live, Tries, Used, Late>>
  <2>1. UNCHANGED <<cache, attempts, expired>>
    BY <1>7 DEF CooldownEnds, WindowEnds
  <2> QED
    BY <1>1, <1>2, <1>3, <1>4, <2>1 DEF ThereInv
<1> QED
  BY <1>5, <1>6, <1>7

-----------------------------------------------------------------------------
(* One-time codes in Postgres, where requests come one at a time. *)

\* Where Redis is away, codes are in Postgres alone, one for each contact; what
\* a request has read of it is still so when it writes.
AwayJob(j) ==
  /\ j.at \notin {"count", "clear", "match"}
  /\ j.at \in {"store", "insert"} => accepted[j.code] = 0 /\ j.code \notin expired
  /\ j.at \in {"insert", "take"} => j.rows = table[j.contact]
  /\ j.at = "take" => IF j.code = NoCode THEN table[j.contact] \subseteq expired
                      ELSE j.code \in table[j.contact] \ expired
AwayInv ==
  /\ ~ up /\ attempts = [c \in Contacts |-> 0] /\ tried = [k \in Codes |-> 0]
  /\ \A c \in Contacts : \A k, m \in table[c] : k = m
  /\ \A t \in Threads : AwayJob(job[t])

OneOf(S, E) == IF S \subseteq E THEN NoCode ELSE CHOOSE k \in S \ E : TRUE

\* What the promise sees of such a table.
LEMMA AwayIs ==
  ASSUME StoreType, StoreType', habit = "away", habit' = habit
  PROVE  /\ InTurn /\ Late = expired /\ Late' = expired'
         /\ Used = {k \in Codes : accepted[k] > 0} /\ Used' = {k \in Codes : accepted'[k] > 0}
         /\ Live = [c \in Contacts |-> OneOf(table[c], expired)]
         /\ Live' = [c \in Contacts |-> OneOf(table'[c], expired')]
<1>1. InTurn /\ InTurn'
  BY DEF InTurn
<1>2. \A c \in Contacts :
        /\ Usable(c) = OneOf(table[c], expired)
        /\ Usable(c)' = OneOf(table'[c], expired')
  BY <1>1 DEF Usable, OneOf
<1> QED
  BY <1>1, <1>2 DEF Live, Used, Late

\* One code is the one that is chosen.
LEMMA Chosen ==
  ASSUME NEW S, NEW E, NEW k \in S \ E, \A m \in S : m = k
  PROVE  OneOf(S, E) = k
  BY DEF OneOf

\* And none is, where all are over.
LEMMA NoneChosen ==
  ASSUME NEW S, NEW E, S \subseteq E
  PROVE  OneOf(S, E) = NoCode
  BY DEF OneOf

\* Each step of a thread is a step of the promise, and leaves such a state.
LEMMA AwayThreadStep ==
  ASSUME StoreType, StoreType', habit = "away", habit' = habit, AwayInv,
         NEW t \in Threads, Step(t), \A u \in Threads \ {t} : job[u] = Idle
  PROVE  AwayInv' /\ (Promise!Next \/ UNCHANGED <<Live, Tries, Used, Late>>)
<1> USE NoJob
<1>1. /\ table \in [Contacts -> SUBSET Codes] /\ accepted \in [Codes -> Nat]
      /\ NoCode \notin Codes /\ GoodJob(job[t])
      /\ job[t].at # "idle" => job[t].contact \in Contacts
  BY OtpAssumption DEF OtpAssumption, StoreType, TypeOK, GoodJob
<1>2. /\ ~ up /\ attempts = [c \in Contacts |-> 0] /\ tried = [k \in Codes |-> 0]
      /\ \A c \in Contacts : \A k, m \in table[c] : k = m
      /\ AwayJob(job[t])
  BY DEF AwayInv
<1>3. /\ UNCHANGED <<up, expired>> /\ \A u \in Threads \ {t} : job'[u] = Idle
  <2>1. UNCHANGED job \/ Alone(t)
    BY StepIs
  <2> QED
    BY <2>1, StepIs DEF Alone
<1>4. /\ InTurn /\ UNCHANGED Late /\ Late = expired
      /\ Used = {k \in Codes : accepted[k] > 0} /\ Used' = {k \in Codes : accepted'[k] > 0}
      /\ Live = [c \in Contacts |-> OneOf(table[c], expired)]
      /\ Live' = [c \in Contacts |-> OneOf(table'[c], expired)]
  BY <1>3, AwayIs
<1>5. ASSUME UNCHANGED attempts
      PROVE  Tries = attempts /\ Tries' = attempts
  BY <1>2, <1>3, <1>4, <1>5, TriesAre
<1>6. ASSUME UNCHANGED <<attempts, tried>>, \A c \in Contacts : \A k, m \in table'[c] : k = m,
             AwayJob(job[t])'
      PROVE  AwayInv'
  <2>1. \A u \in Threads \ {t} : AwayJob(job[u])'
    BY <1>3 DEF AwayJob
  <2> QED
    BY <1>2, <1>3, <1>6, <2>1 DEF AwayInv
<1>7. ASSUME UNCHANGED <<attempts, tried, table, accepted>>, AwayJob(job[t])'
      PROVE  AwayInv' /\ UNCHANGED <<Live, Tries, Used, Late>>
  BY <1>2, <1>4, <1>5, <1>6, <1>7
<1>8. ASSUME NEW c \in Contacts, NEW k \in Codes, SendStart(t, c, k)
      PROVE  AwayInv' /\ UNCHANGED <<Live, Tries, Used, Late>>
  <2>1. NowNew(t, "store", c, k) /\ Fresh(k) /\ UNCHANGED <<attempts, tried, table, accepted>>
    BY <1>2, <1>8, SendingSteps, NotIssued DEF SendStart, kept
  <2>2. AwayJob(job[t])'
    BY <1>3, <2>1 DEF NowNew, AwayJob, Fresh
  <2> QED
    BY <1>7, <2>1, <2>2
<1>9. ASSUME StoreInRedis(t)
      PROVE  AwayInv' /\ UNCHANGED <<Live, Tries, Used, Late>>
  <2>1. /\ NowAt(t, "insert", job[t].code, table[job[t].contact]) /\ job[t].at = "store"
        /\ UNCHANGED <<attempts, tried, table, accepted>>
    BY <1>2, <1>9, SendingSteps DEF StoreInRedis
  <2>2. AwayJob(job[t])'
    BY <1>2, <1>3, <2>1 DEF NowAt, AwayJob
  <2> QED
    BY <1>7, <2>1, <2>2
<1>10. ASSUME StoreInsert(t)
       PROVE  AwayInv' /\ Promise!Next
  <2> DEFINE c == job[t].contact
             k == job[t].code
  <2>1. /\ NowAt(t, "send", k, {}) /\ job[t].at = "insert" /\ UNCHANGED <<attempts, tried, accepted>>
        /\ table' = [table EXCEPT ![c] = (table[c] \ job[t].rows) \union {k}]
    BY <1>2, <1>10, SendingSteps DEF StoreInsert
  <2>2. /\ c \in Contacts /\ k \in Codes /\ accepted[k] = 0 /\ k \notin expired
        /\ job[t].rows = table[c]
    BY <1>1, <1>2, <2>1 DEF AwayJob, GoodJob, Sending
  <2>3. AwayJob(job[t])'
    BY <2>1 DEF NowAt, AwayJob
  <2> HIDE DEF c, k
  <2>4. table' = [table EXCEPT ![c] = {k}]
    BY <1>1, <2>1, <2>2
  <2>5. \A d \in Contacts : \A m, n \in table'[d] : m = n
    BY <1>1, <1>2, <2>2, <2>4
  <2>6. OneOf({k}, expired) = k
    BY <2>2, Chosen
  <2>7. Live' = [Live EXCEPT ![c] = k]
    BY <1>1, <1>4, <2>2, <2>4, <2>6
  <2>8. Tries' = [Tries EXCEPT ![c] = 0] /\ UNCHANGED <<Used, Late>> /\ k \notin Used \union Late
    BY <1>2, <1>4, <1>5, <2>1, <2>2
  <2>9. Promise!Next
    BY <2>2, <2>7, <2>8 DEF Promise!Next, Promise!Issue
  <2> QED
    BY <1>6, <2>1, <2>3, <2>5, <2>9
<1>11. ASSUME Send(t) \/ Dies(t)
       PROVE  AwayInv' /\ UNCHANGED <<Live, Tries, Used, Late>>
  <2>1. UNCHANGED <<attempts, tried, table, accepted>> /\ job'[t] = Idle
    BY <1>11, SendingSteps, VerifyingSteps DEF Send, Dies, kept, NowIdle
  <2>2. AwayJob(job[t])'
    BY <2>1 DEF AwayJob
  <2> QED
    BY <1>7, <2>1, <2>2
<1>12. ASSUME NEW c \in Contacts, NEW k \in known \union {NoCode}, VerifyStart(t, c, k)
       PROVE  AwayInv' /\ UNCHANGED <<Live, Tries, Used, Late>>
  <2>1. UNCHANGED <<attempts, tried, table, accepted>> /\ job'[t].at = "read"
    BY <1>2, <1>12, VerifyingSteps DEF VerifyStart, NowNew
  <2>2. AwayJob(job[t])'
    BY <2>1 DEF AwayJob
  <2> QED
    BY <1>7, <2>1, <2>2
<1>13. ASSUME VerifyRead(t)
       PROVE  AwayInv' /\ UNCHANGED <<Live, Tries, Used, Late>>
  <2>1. UNCHANGED <<attempts, tried, table, accepted>> /\ job'[t].at = "find"
    BY <1>2, <1>13, VerifyingSteps DEF VerifyRead, kept, NowAt
  <2>2. AwayJob(job[t])'
    BY <2>1 DEF AwayJob
  <2> QED
    BY <1>7, <2>1, <2>2
<1>14. ASSUME VerifyFind(t)
       PROVE  AwayInv' /\ UNCHANGED <<Live, Tries, Used, Late>>
  <2>1. /\ UNCHANGED <<attempts, tried, table, accepted>> /\ job[t].at = "find"
        /\ job[t].contact \in Contacts
    BY <1>1, <1>14 DEF VerifyFind, kept
  <2>2. CASE job[t].code \in table[job[t].contact]
    <3>1. NowAt(t, "take", IF job[t].code \in expired THEN NoCode ELSE job[t].code, table[job[t].contact])
      BY <1>14, <2>2, VerifyingSteps
    <3>2. job[t].code \in expired => table[job[t].contact] \subseteq expired
      BY <1>2, <2>1, <2>2
    <3>3. job[t].code # NoCode
      BY <1>1, <2>1, <2>2
    <3>4. AwayJob(job[t])'
      BY <1>3, <2>1, <2>2, <3>1, <3>2, <3>3 DEF NowAt, AwayJob
    <3> QED
      BY <1>7, <2>1, <3>4
  <2>3. CASE job[t].code \notin table[job[t].contact]
    <3>1. job'[t] = Idle
      BY <1>14, <2>3, VerifyingSteps DEF NowIdle
    <3>2. AwayJob(job[t])'
      BY <3>1 DEF AwayJob
    <3> QED
      BY <1>7, <2>1, <3>2
  <2> QED
    BY <2>2, <2>3
<1>15. ASSUME VerifyTake(t)
       PROVE  AwayInv' /\ (Promise!Next \/ UNCHANGED <<Live, Tries, Used, Late>>)
  <2> DEFINE c == job[t].contact
             k == job[t].code
  <2>1. /\ job[t].at = "take" /\ job'[t] = Idle /\ UNCHANGED <<attempts, tried>>
        /\ table' = [table EXCEPT ![c] = table[c] \ job[t].rows]
        /\ accepted' = IF k = NoCode THEN accepted ELSE [accepted EXCEPT ![k] = accepted[k] + 1]
    BY <1>15, VerifyingSteps DEF VerifyTake, NowIdle
  <2>2. /\ c \in Contacts /\ job[t].rows = table[c]
        /\ IF k = NoCode THEN table[c] \subseteq expired ELSE k \in table[c] \ expired
    BY <1>1, <1>2, <2>1 DEF AwayJob
  <2>3. AwayJob(job[t])'
    BY <2>1 DEF AwayJob
  <2> HIDE DEF c, k
  <2>4. table' = [table EXCEPT ![c] = {}]
    BY <1>1, <2>1, <2>2
  <2>5. \A d \in Contacts : \A m, n \in table'[d] : m = n
    BY <1>1, <1>2, <2>2, <2>4
  <2>6. OneOf({}, expired) = NoCode
    BY NoneChosen
  <2>7. Live' = [Live EXCEPT ![c] = NoCode]
    BY <1>1, <1>4, <2>2, <2>4, <2>6
  <2>8. AwayInv'
    BY <1>6, <2>1, <2>3, <2>5
  <2>9. CASE k = NoCode
    <3>1. Live[c] = NoCode
      BY <1>4, <2>2, <2>9, NoneChosen
    <3>2. UNCHANGED <<Live, Tries, Used, Late>>
      BY <1>4, <1>5, <2>1, <2>7, <2>9, <3>1
    <3> QED
      BY <2>8, <3>2
  <2>10. CASE k # NoCode
    <3>1. Live[c] = k /\ k \in Codes
      BY <1>1, <1>2, <1>4, <2>2, <2>10, Chosen
    <3>2. \A m \in Codes : accepted'[m] > 0 <=> accepted[m] > 0 \/ m = k
      BY <1>1, <2>1, <2>10, <3>1
    <3>3. Used' = Used \union {Live[c]} /\ UNCHANGED <<Tries, Late>>
      BY <1>4, <1>5, <2>1, <3>1, <3>2
    <3>4. Promise!Next
      BY <2>2, <2>7, <2>10, <3>1, <3>3 DEF Promise!Next, Promise!Accept
    <3> QED
      BY <2>8, <3>4
  <2> QED
    BY <2>9, <2>10
<1>16. ~ SendCount(t) /\ ~ StoreClear(t) /\ ~ VerifyMatch(t)
  BY <1>2 DEF SendCount, StoreClear, VerifyMatch, AwayJob
<1> QED
  BY <1>8, <1>9, <1>10, <1>11, <1>12, <1>13, <1>14, <1>15, <1>16 DEF Step

\* So is the passing of time, when nobody works.
LEMMA AwayTimeStep ==
  ASSUME StoreType, StoreType', habit = "away", habit' = habit, AwayInv, Nobody,
         \/ \E k \in Codes : Expire(k)
         \/ \E c \in Contacts : AttemptsExpire(c) \/ CooldownEnds(c) \/ WindowEnds(c)
  PROVE  AwayInv' /\ (Promise!Next \/ UNCHANGED <<Live, Tries, Used, Late>>)
<1>1. table \in [Contacts -> SUBSET Codes] /\ NoCode \notin Codes
  BY OtpAssumption DEF OtpAssumption, StoreType, TypeOK
<1>2. /\ ~ up /\ attempts = [c \in Contacts |-> 0] /\ tried = [k \in Codes |-> 0]
      /\ \A c \in Contacts : \A k, m \in table[c] : k = m
  BY DEF AwayInv
<1>3. UNCHANGED <<up, attempts, job, table, accepted, tried>>
  BY <1>2 DEF Expire, AttemptsExpire, CooldownEnds, WindowEnds
<1>4. AwayInv'
  <2>1. \A t \in Threads : AwayJob(job[t])'
    BY <1>3, NoJob DEF Nobody, AwayJob
  <2> QED
    BY <1>2, <1>3, <2>1 DEF AwayInv
<1>5. /\ Late = expired /\ Late' = expired' /\ UNCHANGED <<Used, Tries>>
      /\ Live = [c \in Contacts |-> OneOf(table[c], expired)]
      /\ Live' = [c \in Contacts |-> OneOf(table[c], expired')]
  BY <1>3, AwayIs, TriesAtRest
<1>6. ASSUME NEW k \in Codes, Expire(k)
      PROVE  Promise!Next
  <2>1. expired' = expired \union {k}
    BY <1>6 DEF Expire
  <2>2. ASSUME NEW c \in Contacts
        PROVE  OneOf(table[c], expired') = IF Live[c] = k THEN NoCode ELSE Live[c]
    <3>1. CASE table[c] \subseteq expired
      <4>1. table[c] \subseteq expired'
        BY <2>1, <3>1
      <4>2. OneOf(table[c], expired) = NoCode /\ OneOf(table[c], expired') = NoCode
        BY <3>1, <4>1, NoneChosen
      <4> QED
        BY <1>5, <4>2
    <3>2. CASE ~ (table[c] \subseteq expired)
      <4>1. PICK m \in table[c] : m \notin expired
        BY <3>2
      <4>2. \A n \in table[c] : n = m
        BY <1>2, <4>1
      <4>3. m \in table[c] \ expired
        BY <4>1
      <4>4. Live[c] = m
        <5>1. OneOf(table[c], expired) = m
          BY <4>2, <4>3, Chosen
        <5> QED
          BY <1>5, <5>1
      <4>5. CASE m = k
        <5>1. table[c] \subseteq expired'
          BY <2>1, <4>2, <4>5
        <5> QED
          BY <4>4, <4>5, <5>1, NoneChosen
      <4>6. CASE m # k
        <5>1. m \in table[c] \ expired'
          BY <2>1, <4>3, <4>6
        <5>2. OneOf(table[c], expired') = m
          BY <4>2, <5>1, Chosen
        <5> QED
          BY <4>4, <4>6, <5>2
      <4> QED
        BY <4>5, <4>6
    <3> QED
      BY <3>1, <3>2
  <2>3. Live' = [c \in Contacts |-> IF Live[c] = k THEN NoCode ELSE Live[c]]
    BY <1>5, <2>2
  <2> QED
    BY <1>5, <2>1, <2>3 DEF Promise!Next, Promise!Expire
<1>7. ASSUME NEW c \in Contacts, AttemptsExpire(c) \/ CooldownEnds(c) \/ WindowEnds(c)
      PROVE  UNCHANGED <<Live, Tries, Used, Late>>
  <2>1. UNCHANGED expired
    BY <1>7 DEF AttemptsExpire, CooldownEnds, WindowEnds
  <2> QED
    BY <1>5, <2>1
<1> QED
  BY <1>4, <1>6, <1>7

\* Where requests come one at a time, the store is in one of these states.
TurnInv ==
  /\ habit # "overlap" => OneWorks
  /\ habit = "there" => ThereInv
  /\ habit = "away" => AwayInv

\* Elsewhere nothing is promised.
LEMMA NotPromised ==
  ASSUME ~ InTurn, ~ InTurn'
  PROVE  UNCHANGED <<Live, Tries, Used, Late>>
<1>1. habit # "there" /\ habit' # "there"
  BY DEF InTurn
<1>2. \A c \in Contacts : /\ Usable(c) = NoCode /\ Usable(c)' = NoCode
                          /\ Counted(c) = 0 /\ Counted(c)' = 0
  BY <1>1 DEF Usable, Counted
<1>3. UNCHANGED <<Live, Tries>>
  BY <1>2 DEF Live, Tries
<1> QED
  BY <1>3 DEF Used, Late

\* A step of the composition is a step of one of the stores, or of none.
LEMMA TurnStep ==
  ASSUME StoreType, StoreType', TurnInv, HabitOK, LoginNext
  PROVE  TurnInv' /\ (Promise!Next \/ UNCHANGED <<Live, Tries, Used, Late>>)
<1>1. habit' = habit
  BY WhoSteps
<1>2. CASE habit \in AccountHabits \union PasswordHabits
  <2>1. UNCHANGED vars
    BY <1>2, WhoSteps
  <2>2. ~ InTurn /\ ~ InTurn' /\ habit \notin {"there", "away", "overlap"}
    BY <1>1, <1>2 DEF InTurn, AccountHabits, PasswordHabits
  <2>3. UNCHANGED <<Live, Tries, Used, Late>>
    BY <2>2, NotPromised
  <2>4. TurnInv'
    BY <1>1, <2>1, <2>2 DEF TurnInv, OneWorks, vars
  <2> QED
    BY <2>3, <2>4
<1>3. CASE habit \in {"overlap", "outage"}
  <2>1. ~ InTurn /\ ~ InTurn' /\ CodesNext
    BY <1>1, <1>3, WhoSteps DEF InTurn, CodeHabits
  <2>2. UNCHANGED <<Live, Tries, Used, Late>>
    BY <2>1, NotPromised
  <2>3. TurnInv'
    BY <1>1, <1>3, <2>1, InTurnStep DEF TurnInv
  <2> QED
    BY <2>2, <2>3
<1>4. CASE habit \in {"there", "away"}
  <2>1. CodesNext
    BY <1>4, WhoSteps DEF CodeHabits
  <2>2. /\ OneWorks'
        /\ \A t \in Threads : Step(t) => \A u \in Threads \ {t} : job[u] = Idle
        /\ UNCHANGED <<job, up>> => \A u \in Threads : job[u] = Idle
    BY <1>4, <2>1, InTurnStep DEF TurnInv
  <2>3. /\ Next /\ UNCHANGED up
        /\ \A t \in Threads : job[t].at = "clear" => ~ Dies(t)
    BY <1>4, <2>1 DEF CodesNext, InTurn
  <2>4. CASE \E t \in Threads : Step(t)
    <3>1. PICK t \in Threads : Step(t)
      BY <2>4
    <3>2. CASE habit = "there"
      <4>1. ThereInv' /\ (Promise!Next \/ UNCHANGED <<Live, Tries, Used, Late>>)
        BY <1>1, <2>2, <2>3, <3>1, <3>2, ThereThreadStep DEF TurnInv
      <4> QED
        BY <1>1, <2>2, <3>2, <4>1 DEF TurnInv
    <3>3. CASE habit = "away"
      <4>1. AwayInv' /\ (Promise!Next \/ UNCHANGED <<Live, Tries, Used, Late>>)
        BY <1>1, <2>2, <3>1, <3>3, AwayThreadStep DEF TurnInv
      <4> QED
        BY <1>1, <2>2, <3>3, <4>1 DEF TurnInv
    <3> QED
      BY <1>4, <3>2, <3>3
  <2>5. CASE \/ \E k \in Codes : Expire(k)
             \/ \E c \in Contacts : AttemptsExpire(c) \/ CooldownEnds(c) \/ WindowEnds(c)
    <3>1. UNCHANGED <<job, up>>
      BY <2>5 DEF Expire, AttemptsExpire, CooldownEnds, WindowEnds
    <3>2. Nobody
      BY <2>2, <3>1 DEF Nobody
    <3>3. CASE habit = "there"
      <4>1. ThereInv' /\ (Promise!Next \/ UNCHANGED <<Live, Tries, Used, Late>>)
        BY <1>1, <2>5, <3>2, <3>3, ThereTimeStep DEF TurnInv
      <4> QED
        BY <1>1, <2>2, <3>3, <4>1 DEF TurnInv
    <3>4. CASE habit = "away"
      <4>1. AwayInv' /\ (Promise!Next \/ UNCHANGED <<Live, Tries, Used, Late>>)
        BY <1>1, <2>5, <3>2, <3>4, AwayTimeStep DEF TurnInv
      <4> QED
        BY <1>1, <2>2, <3>4, <4>1 DEF TurnInv
    <3> QED
      BY <1>4, <3>3, <3>4
  <2>6. ~ RedisTurns
    BY <2>3 DEF RedisTurns, StoreType, TypeOK
  <2> QED
    BY <2>3, <2>4, <2>5, <2>6 DEF Next
<1> QED
  BY <1>2, <1>3, <1>4 DEF HabitOK, CodeHabits

\* Nothing leaves the type of the store.
LEMMA StoreTypeKept == LoginSpec => []StoreType
<1>1. ASSUME LoginInit PROVE StoreType
  <2>1. Init
    BY <1>1 DEF LoginInit
  <2>2. \A t \in Threads : job[t] = Idle
    BY <2>1 DEF Init
  <2>3. job \in [Threads -> Job] /\ \A t \in Threads : GoodJob(job[t])
    BY <2>1, <2>2, NoJob DEF Init, GoodJob
  <2>4. MaxTries \in Nat /\ MaxSends \in Nat
    BY OtpAssumption DEF OtpAssumption
  <2> QED
    BY <2>1, <2>3, <2>4 DEF Init, StoreType, TypeOK
<1>2. ASSUME StoreType, HabitOK, [LoginNext]_<<vars, accountVars, lockVars, habit>> PROVE StoreType'
  <2>1. ASSUME UNCHANGED vars
        PROVE  StoreType'
    BY <1>2, <2>1 DEF StoreType, TypeOK, vars, kept
  <2>2. CASE LoginNext /\ habit \in CodeHabits
    BY <1>2, <2>2, WhoSteps, StoreTypeStep DEF CodesNext
  <2>3. CASE LoginNext /\ habit \in AccountHabits \union PasswordHabits
    BY <1>2, <2>1, <2>3, WhoSteps
  <2> QED
    BY <1>2, <2>1, <2>2, <2>3 DEF HabitOK
<1> QED
  BY <1>1, <1>2, HabitKept, PTL DEF LoginSpec

\* At the start the store is in one of these states, and promises nothing.
LEMMA TurnInit ==
  ASSUME LoginInit
  PROVE  TurnInv /\ Promise!Init
<1>1. Init /\ up = (habit # "away")
  BY DEF LoginInit
<1>2. Nobody /\ \A t \in Threads : job[t].at = "idle"
  BY <1>1, NoJob DEF Init, Nobody
<1>3. /\ cache = [c \in Contacts |-> NoCode] /\ attempts = [c \in Contacts |-> 0]
      /\ table = [c \in Contacts |-> {}] /\ expired = {}
      /\ accepted = [k \in Codes |-> 0] /\ tried = [k \in Codes |-> 0] /\ MaxTries \in Nat
  BY <1>1, OtpAssumption DEF Init, OtpAssumption
<1>4. habit = "there" => ThereInv
  <2>1. \A t \in Threads : ThereJob(job[t])
    BY <1>2 DEF ThereJob
  <2>2. /\ \A c \in Contacts : cache[c] = NoCode /\ table[c] = {}
        /\ \A k \in Codes : tried[k] <= MaxTries
    BY <1>3
  <2> QED
    BY <1>1, <2>1, <2>2 DEF ThereInv
<1>5. habit = "away" => AwayInv
  BY <1>1, <1>2, <1>3 DEF AwayInv, AwayJob
<1>6. TurnInv
  BY <1>2, <1>4, <1>5 DEF TurnInv, OneWorks
<1>7. \A c \in Contacts : Usable(c) = NoCode /\ Counted(c) = 0
  BY <1>3 DEF Usable, Counted
<1>8. Promise!Init
  BY <1>3, <1>7 DEF Promise!Init, Live, Tries, Used, Late
<1> QED
  BY <1>6, <1>8

\* The state of the store is one of these throughout.
LEMMA TurnKept == LoginSpec => []TurnInv
<1>1. LoginInit => TurnInv
  BY TurnInit
<1>2. ASSUME TurnInv, StoreType, StoreType', HabitOK, [LoginNext]_<<vars, accountVars, lockVars, habit>>
      PROVE  TurnInv'
  <2>1. CASE UNCHANGED <<vars, accountVars, lockVars, habit>>
    BY <1>2, <2>1 DEF TurnInv, OneWorks, ThereInv, ThereJob, Fresh, AwayInv, AwayJob, vars, kept,
       Tries, Counted, InTurn
  <2>2. CASE LoginNext
    BY <1>2, <2>2, TurnStep
  <2> QED
    BY <1>2, <2>1, <2>2
<1> QED
  BY <1>1, <1>2, HabitKept, StoreTypeKept, PTL DEF LoginSpec

\* Where requests come one at a time, store_otp and consume_otp implement
\* OneTimeCode, over Redis and over Postgres: one code at a time for a contact,
\* accepted once, in time, within its guesses, and not lost otherwise.
THEOREM CodesKeepPromiseHolds == LoginSpec => CodesKeepPromise
<1>1. LoginInit => Promise!Init
  BY TurnInit
<1>2. ASSUME TurnInv, StoreType, StoreType', HabitOK, [LoginNext]_<<vars, accountVars, lockVars, habit>>
      PROVE  [Promise!Next]_<<Live, Tries, Used, Late>>
  <2>1. CASE UNCHANGED <<vars, accountVars, lockVars, habit>>
    BY <2>1 DEF vars, kept, Live, Tries, Used, Late, Usable, Counted, InTurn
  <2>2. CASE LoginNext
    BY <1>2, <2>2, TurnStep
  <2> QED
    BY <1>2, <2>1, <2>2
<1> QED
  BY <1>1, <1>2, HabitKept, StoreTypeKept, TurnKept, PTL DEF LoginSpec, CodesKeepPromise, Promise!Spec

-----------------------------------------------------------------------------
(* Guesses, where requests overlap. *)

N == Cardinality(Threads)

IsReading(j, c)  == j.at = "read" /\ j.contact = c
IsClearing(j, c) == j.at = "clear" /\ j.contact = c
Reading(c)  == {t \in Threads : IsReading(job[t], c)}
Clearing(c) == {t \in Threads : IsClearing(job[t], c)}

\* A code was compared no more often than the guesses counted, but for those
\* who will yet forget the guesses, and who compare once more each; unless all
\* threads are about to forget them and nobody has compared it.
Spare(c) ==
  \/ tried[cache[c]] + Cardinality(Reading(c)) + MaxTries * Cardinality(Clearing(c))
       <= attempts[c] + (N - 1) * MaxTries + 1
  \/ Cardinality(Clearing(c)) = N /\ tried[cache[c]] = 0

OverlapInv ==
  /\ up /\ expired = {}
  /\ \A t \in Threads : /\ job[t].at # "insert"
                        /\ job[t].at \in {"count", "store"} =>
                             /\ tried[job[t].code] = 0 /\ \A c \in Contacts : cache[c] # job[t].code
  /\ \A t, u \in Threads :
       job[t].at \in {"count", "store"} /\ job[u].at \in {"count", "store"}
         /\ job[t].code = job[u].code => t = u
  /\ \A c, d \in Contacts : cache[c] = cache[d] /\ cache[c] # NoCode => c = d
  /\ \A c \in Contacts : cache[c] # NoCode => Spare(c)
  /\ \A k \in Codes : tried[k] <= N * MaxTries + 1

\* A product changes by one factor.
LEMMA Product ==
  ASSUME NEW m \in Nat, NEW a \in Nat
  PROVE  m * a \in Nat /\ m * (a + 1) = m * a + m
  OBVIOUS

\* Readers and forgetters are threads, no thread is both.
LEMMA Readers ==
  ASSUME NEW c
  PROVE  /\ N \in Nat /\ Cardinality(Reading(c)) \in Nat /\ Cardinality(Clearing(c)) \in Nat
         /\ Cardinality(Reading(c)) + Cardinality(Clearing(c)) <= N
         /\ Cardinality(Clearing(c)) = N => Clearing(c) = Threads
<1>1. /\ IsFiniteSet(Threads) /\ Reading(c) \subseteq Threads /\ Clearing(c) \subseteq Threads
      /\ Reading(c) \intersect Clearing(c) = {}
  BY LoginAssumption DEF LoginAssumption, Reading, Clearing, IsReading, IsClearing
<1>2. /\ N \in Nat /\ Cardinality(Reading(c)) \in Nat /\ Cardinality(Clearing(c)) \in Nat
  BY <1>1, FS_Subset, FS_CardinalityType DEF N
<1>3. Cardinality(Reading(c)) + Cardinality(Clearing(c)) <= N
  BY <1>1, TwoParts DEF N
<1>4. Cardinality(Clearing(c)) = N => Clearing(c) = Threads
  BY <1>1, FS_Subset DEF N
<1> QED
  BY <1>2, <1>3, <1>4

\* How their numbers change with one thread's job.
LEMMA ReadersMove ==
  ASSUME NEW t \in Threads, Alone(t), NEW c
  PROVE  /\ Cardinality(Reading(c)) \in Nat /\ Cardinality(Reading(c)') \in Nat
         /\ Cardinality(Reading(c)')
              = Cardinality(Reading(c)) - One(IsReading(job[t], c)) + One(IsReading(job'[t], c))
         /\ Cardinality(Clearing(c)) \in Nat /\ Cardinality(Clearing(c)') \in Nat
         /\ Cardinality(Clearing(c)')
              = Cardinality(Clearing(c)) - One(IsClearing(job[t], c)) + One(IsClearing(job'[t], c))
<1>1. IsFiniteSet(Threads)
  BY LoginAssumption DEF LoginAssumption
<1>2. /\ Reading(c) \in SUBSET Threads /\ Reading(c)' \in SUBSET Threads
      /\ Reading(c) \ {t} = Reading(c)' \ {t}
      /\ t \in Reading(c) <=> IsReading(job[t], c)
      /\ t \in Reading(c)' <=> IsReading(job'[t], c)
  BY DEF Reading, Alone
<1>3. /\ Clearing(c) \in SUBSET Threads /\ Clearing(c)' \in SUBSET Threads
      /\ Clearing(c) \ {t} = Clearing(c)' \ {t}
      /\ t \in Clearing(c) <=> IsClearing(job[t], c)
      /\ t \in Clearing(c)' <=> IsClearing(job'[t], c)
  BY DEF Clearing, Alone
<1>4. /\ Cardinality(Reading(c)) \in Nat /\ Cardinality(Reading(c)') \in Nat
      /\ Cardinality(Reading(c)')
           = Cardinality(Reading(c)) - One(t \in Reading(c)) + One(t \in Reading(c)')
  BY <1>1, <1>2, Differ
<1>5. /\ Cardinality(Clearing(c)) \in Nat /\ Cardinality(Clearing(c)') \in Nat
      /\ Cardinality(Clearing(c)')
           = Cardinality(Clearing(c)) - One(t \in Clearing(c)) + One(t \in Clearing(c)')
  BY <1>1, <1>3, Differ
<1> QED
  BY <1>2, <1>3, <1>4, <1>5 DEF One

\* A step that makes nobody forget, and compares what was counted, keeps the bound.
LEMMA SpareKept ==
  ASSUME StoreType, StoreType', OverlapInv, NEW t \in Threads, Alone(t),
         NEW c \in Contacts, cache'[c] = cache[c], cache[c] # NoCode,
         ~ IsClearing(job'[t], c),
         IsClearing(job[t], c) => /\ tried'[cache[c]] = tried[cache[c]]
                                  /\ ~ IsReading(job'[t], c)
                                  /\ attempts'[c] = 0 \/ attempts'[c] = attempts[c],
         ~ IsClearing(job[t], c) =>
           tried'[cache[c]] + One(IsReading(job'[t], c)) + attempts[c]
             <= tried[cache[c]] + One(IsReading(job[t], c)) + attempts'[c]
  PROVE  Spare(c)'
<1> DEFINE k == cache[c]
           r == Cardinality(Reading(c))
           a == Cardinality(Clearing(c))
           s == Cardinality(Reading(c)')
           b == Cardinality(Clearing(c)')
           limit == (N - 1) * MaxTries + 1
<1>1. /\ tried[k] \in Nat /\ tried'[k] \in Nat /\ attempts[c] \in 0 .. MaxTries
      /\ attempts'[c] \in 0 .. MaxTries /\ MaxTries \in Nat \ {0}
  BY OtpAssumption DEF OtpAssumption, StoreType, TypeOK
<1>2. /\ r \in Nat /\ a \in Nat /\ s \in Nat /\ b \in Nat
      /\ s = r - One(IsReading(job[t], c)) + One(IsReading(job'[t], c))
      /\ b = a - One(IsClearing(job[t], c)) + One(IsClearing(job'[t], c))
  BY ReadersMove
<1>3. N \in Nat /\ r + a <= N /\ (a = N => Clearing(c) = Threads)
  BY Readers
<1>4. limit \in Int
  BY <1>1, <1>3
<1>5. \/ tried[k] + r + MaxTries * a <= attempts[c] + limit
      \/ a = N /\ tried[k] = 0
  <2>1. Spare(c)
    BY DEF OverlapInv
  <2>2. attempts[c] \in Int /\ (N - 1) * MaxTries \in Int
    BY <1>1, <1>3
  <2>3. attempts[c] + limit = attempts[c] + (N - 1) * MaxTries + 1
    BY <2>2
  <2> HIDE DEF limit
  <2> QED
    BY <2>1, <2>3 DEF Spare
<1>6. One(FALSE) = 0 /\ One(TRUE) = 1 /\ \A p : One(p) \in {0, 1}
  BY DEF One
<1>7. tried'[k] + s + MaxTries * b <= attempts'[c] + limit
  <2> HIDE DEF k, r, a, s, b
  <2>1. CASE IsClearing(job[t], c)
    <3>1. ~ IsReading(job[t], c)
      BY <2>1 DEF IsReading, IsClearing
    <3>2. b + 1 = a /\ s = r
      BY <1>2, <2>1, <3>1 DEF One
    <3>3. MaxTries * a = MaxTries * b + MaxTries /\ MaxTries * b \in Nat
      BY <1>1, <1>2, <3>2, Product
    <3>4. tried'[k] = tried[k] /\ (attempts'[c] = 0 \/ attempts'[c] = attempts[c])
      BY <2>1 DEF k
    <3>5. CASE tried[k] + r + MaxTries * a <= attempts[c] + limit
      <4> HIDE DEF limit
      <4> QED
        BY <1>1, <1>2, <1>4, <3>2, <3>3, <3>4, <3>5
    <3>6. CASE a = N /\ tried[k] = 0
      <4>1. r = 0 /\ b = N - 1
        BY <1>2, <1>3, <3>2, <3>6
      <4>2. MaxTries * b = (N - 1) * MaxTries
        BY <1>1, <1>3, <4>1
      <4>3. tried'[k] + s + MaxTries * b = MaxTries * b
        BY <1>1, <3>2, <3>3, <3>4, <3>6, <4>1
      <4> QED
        BY <1>1, <1>4, <3>3, <4>2, <4>3
    <3> QED
      BY <1>5, <3>5, <3>6
  <2>2. CASE ~ IsClearing(job[t], c)
    <3>1. b = a
      BY <1>2, <1>6, <2>2 DEF One
    <3>2. a # N
      BY <1>3, <2>2 DEF Clearing
    <3>3. tried[k] + r + MaxTries * a <= attempts[c] + limit
      BY <1>5, <3>2
    <3>4. /\ tried'[k] + One(IsReading(job'[t], c)) + attempts[c]
               <= tried[k] + One(IsReading(job[t], c)) + attempts'[c]
          /\ MaxTries * a \in Nat
      BY <1>1, <1>2, <2>2, Product DEF k
    <3>5. One(IsReading(job'[t], c)) \in {0, 1} /\ One(IsReading(job[t], c)) \in {0, 1}
      BY <1>6
    <3> HIDE DEF limit
    <3> QED
      BY <1>1, <1>2, <1>4, <3>1, <3>3, <3>4, <3>5
  <2> QED
    BY <2>1, <2>2
<1>8. tried'[cache'[c]] + Cardinality(Reading(c)') + MaxTries * Cardinality(Clearing(c)')
        <= attempts'[c] + (N - 1) * MaxTries + 1
  <2>1. tried'[cache'[c]] = tried'[k]
    OBVIOUS
  <2> HIDE DEF k
  <2>2. attempts'[c] \in Int /\ (N - 1) * MaxTries \in Int
    BY <1>1, <1>3
  <2> QED
    BY <1>7, <2>1, <2>2
<1> HIDE DEF k, r, a, s, b, limit
<1> QED
  BY <1>8 DEF Spare, N

\* What the bound says of one code.
LEMMA CapOf ==
  ASSUME NEW x \in Nat, NEW r \in Nat, NEW a \in Nat, NEW m \in Nat, NEW n \in Nat, NEW g \in Nat,
         x + r + m * a <= g + (n - 1) * m + 1, g <= m
  PROVE  x <= n * m + 1
<1>1. m * a \in Nat /\ (n - 1) * m = n * m - m /\ n * m \in Nat
  OBVIOUS
<1> QED
  BY <1>1

\* And of one that was stored a moment ago, while another thread is elsewhere.
LEMMA CapNew ==
  ASSUME NEW r \in Nat, NEW a \in Nat, NEW m \in Nat \ {0}, NEW n \in Nat, r + a <= n, a < n
  PROVE  r + m * a <= (n - 1) * m + 1
<1> DEFINE e == m - 1
           d == n - 1 - a
<1>1. e \in Nat /\ d \in Nat
  OBVIOUS
<1>2. e * d \in Nat
  BY <1>1
<1>3. e * d = (n - 1) * m - m * a - (n - 1) + a
  OBVIOUS
<1>4. m * a \in Nat /\ (n - 1) * m \in Nat
  OBVIOUS
<1> HIDE DEF e, d
<1> QED
  BY <1>2, <1>3, <1>4

\* A step that stores no code in Redis, but may take some away.
LEMMA OverlapShrinks ==
  ASSUME StoreType, OverlapInv, NEW t \in Threads, Alone(t), up', expired' = {},
         \A c \in Contacts : cache'[c] \in {cache[c], NoCode},
         \A k \in Codes : (\A c \in Contacts : cache[c] # k) => tried'[k] = tried[k],
         job'[t].at # "insert",
         job'[t].at \in {"count", "store"} =>
           \/ job[t].at \in {"count", "store"} /\ job'[t].code = job[t].code
           \/ Fresh(job'[t].code) /\ \A u \in Threads : job[u].code # job'[t].code,
         \A c \in Contacts : cache'[c] # NoCode => Spare(c)',
         \A k \in Codes : tried'[k] <= N * MaxTries + 1
  PROVE  OverlapInv'
<1>1. /\ \A u \in Threads \ {t} : job'[u] = job[u] /\ NoCode \notin Codes
      /\ \A u \in Threads : job[u].at \in {"count", "store"} => job[u].code \in Codes
  BY OtpAssumption DEF OtpAssumption, Alone, StoreType, GoodJob, Sending
<1>2. ASSUME NEW k \in Codes, tried[k] = 0, \A c \in Contacts : cache[c] # k
      PROVE  tried'[k] = 0 /\ \A c \in Contacts : cache'[c] # k
  <2>1. k # NoCode
    BY OtpAssumption DEF OtpAssumption
  <2> QED
    BY <1>2, <2>1
<1>3. ASSUME NEW u \in Threads, job'[u].at \in {"count", "store"}
      PROVE  tried'[job'[u].code] = 0 /\ \A c \in Contacts : cache'[c] # job'[u].code
  <2>1. CASE job[u].at \in {"count", "store"} /\ job'[u].code = job[u].code
    <3>1. /\ tried[job[u].code] = 0 /\ \A c \in Contacts : cache[c] # job[u].code
          /\ job[u].code \in Codes
      BY <1>1, <2>1 DEF OverlapInv
    <3> QED
      BY <1>2, <2>1, <3>1
  <2>2. CASE Fresh(job'[u].code)
    <3>1. /\ job'[u].code \in Codes /\ tried[job'[u].code] = 0
          /\ \A c \in Contacts : cache[c] # job'[u].code
      BY <2>2 DEF Fresh
    <3> QED
      BY <1>2, <3>1
  <2> QED
    BY <1>1, <1>3, <2>1, <2>2
<1>4. \A u \in Threads : job'[u].at # "insert"
  BY <1>1 DEF OverlapInv
<1>5. ASSUME NEW u \in Threads, NEW w \in Threads,
             job'[u].at \in {"count", "store"}, job'[w].at \in {"count", "store"},
             job'[u].code = job'[w].code
      PROVE  u = w
  BY <1>1, <1>5 DEF OverlapInv
<1>6. \A c, d \in Contacts : cache'[c] = cache'[d] /\ cache'[c] # NoCode => c = d
  BY DEF OverlapInv
<1> QED
  BY <1>3, <1>4, <1>5, <1>6 DEF OverlapInv

\* Each step of a thread leaves such a state, where no code expires.
LEMMA OverlapThreadStep ==
  ASSUME StoreType, StoreType', OverlapInv, NEW t \in Threads, Step(t)
  PROVE  OverlapInv'
<1> USE NoJob
<1>1. /\ cache \in [Contacts -> Codes \union {NoCode}] /\ attempts \in [Contacts -> 0 .. MaxTries]
      /\ tried \in [Codes -> Nat] /\ known \subseteq Codes /\ job \in [Threads -> Job]
      /\ MaxTries \in Nat \ {0} /\ NoCode \notin Codes /\ GoodJob(job[t])
      /\ tried' \in [Codes -> Nat] /\ attempts' \in [Contacts -> 0 .. MaxTries]
  BY OtpAssumption DEF OtpAssumption, StoreType, TypeOK
<1>2. /\ up /\ expired = {} /\ job[t].at # "insert"
      /\ job[t].at \in {"count", "store"} =>
           tried[job[t].code] = 0 /\ \A c \in Contacts : cache[c] # job[t].code
      /\ \A c, d \in Contacts : cache[c] = cache[d] /\ cache[c] # NoCode => c = d
      /\ \A k \in Codes : tried[k] <= N * MaxTries + 1
  BY DEF OverlapInv
<1>3. UNCHANGED up /\ up' /\ expired' = {} /\ Alone(t)
  <2>1. UNCHANGED <<up, expired>> /\ (UNCHANGED job \/ Alone(t))
    BY StepIs
  <2>2. UNCHANGED job => Alone(t)
    BY <1>1 DEF Alone
  <2> QED
    BY <1>2, <2>1, <2>2
\* Steps that touch neither the codes nor the counts.
<1>4. ASSUME UNCHANGED <<cache, tried, attempts>>, job'[t].at \notin {"insert", "clear", "read"},
             job'[t].at \in {"count", "store"} =>
               \/ job[t].at \in {"count", "store"} /\ job'[t].code = job[t].code
               \/ Fresh(job'[t].code) /\ \A u \in Threads : job[u].code # job'[t].code
      PROVE  OverlapInv'
  <2>1. ASSUME NEW c \in Contacts, cache[c] # NoCode
        PROVE  Spare(c)'
    <3>1. ~ IsClearing(job'[t], c) /\ ~ IsReading(job'[t], c)
      BY <1>4 DEF IsClearing, IsReading
    <3>2. One(IsReading(job'[t], c)) = 0 /\ One(IsReading(job[t], c)) \in {0, 1}
      BY <3>1 DEF One
    <3>3. tried[cache[c]] \in Nat /\ attempts[c] \in Nat
      BY <1>1, <2>1
    <3>4. tried'[cache[c]] + One(IsReading(job'[t], c)) + attempts[c]
            <= tried[cache[c]] + One(IsReading(job[t], c)) + attempts'[c]
      BY <1>4, <3>2, <3>3
    <3>5. cache'[c] = cache[c] /\ tried'[cache[c]] = tried[cache[c]] /\ attempts'[c] = attempts[c]
      BY <1>4
    <3> QED
      BY <1>3, <2>1, <3>1, <3>4, <3>5, SpareKept
  <2>2. /\ \A c \in Contacts : cache'[c] \in {cache[c], NoCode}
        /\ \A c \in Contacts : cache'[c] # NoCode => Spare(c)'
        /\ \A k \in Codes : tried'[k] = tried[k] /\ tried'[k] <= N * MaxTries + 1
    BY <1>2, <1>4, <2>1
  <2> QED
    BY <1>3, <1>4, <2>2, OverlapShrinks
<1>5. ASSUME NEW c \in Contacts, NEW k \in Codes, SendStart(t, c, k)
      PROVE  OverlapInv'
  <2>1. NowNew(t, "count", c, k) /\ k \notin Issued /\ UNCHANGED <<cache, tried, attempts>>
    BY <1>2, <1>5, SendingSteps DEF SendStart, kept
  <2>2. Fresh(k) /\ \A u \in Threads : job[u].code # k
    BY <2>1, NotIssued
  <2>3. job'[t].at = "count" /\ job'[t].code = k
    BY <2>1 DEF NowNew
  <2> QED
    BY <1>4, <2>1, <2>2, <2>3
<1>6. ASSUME SendCount(t)
      PROVE  OverlapInv'
  <2>1. UNCHANGED <<cache, tried, attempts>> /\ job[t].at = "count"
    BY <1>6 DEF SendCount
  <2>2. job'[t].at = "idle" \/ (job'[t].at = "store" /\ job'[t].code = job[t].code)
    BY <1>6, SendingSteps DEF NowIdle, NowAt
  <2> QED
    BY <1>4, <2>1, <2>2
<1>7. ASSUME Send(t) \/ VerifyFind(t) \/ VerifyTake(t)
      PROVE  OverlapInv'
  <2>1. UNCHANGED <<cache, tried, attempts>>
    BY <1>7 DEF Send, VerifyFind, VerifyTake, kept
  <2>2. job'[t].at \in {"idle", "take"}
    BY <1>7, SendingSteps, VerifyingSteps DEF NowIdle, NowAt
  <2> QED
    BY <1>4, <2>1, <2>2
<1>8. ASSUME Dies(t)
      PROVE  OverlapInv'
  <2>1. UNCHANGED <<cache, tried, attempts>> /\ job'[t].at = "idle"
    BY <1>8, VerifyingSteps DEF Dies, kept, NowIdle
  <2> QED
    BY <1>4, <2>1
<1>9. ASSUME StoreClear(t)
      PROVE  OverlapInv'
  <2> DEFINE d == job[t].contact
  <2>1. /\ UNCHANGED <<cache, tried>> /\ job[t].at = "clear" /\ attempts' = [attempts EXCEPT ![d] = 0]
    BY <1>2, <1>9 DEF StoreClear
  <2>2. job'[t].at = "send"
    BY <1>2, <1>9, SendingSteps DEF NowAt
  <2>3. ASSUME NEW c \in Contacts, cache[c] # NoCode
        PROVE  Spare(c)'
    <3>1. ~ IsClearing(job'[t], c) /\ ~ IsReading(job'[t], c) /\ ~ IsReading(job[t], c)
      BY <2>1, <2>2 DEF IsClearing, IsReading
    <3>2. One(IsReading(job'[t], c)) = 0 /\ One(IsReading(job[t], c)) = 0
      BY <3>1 DEF One
    <3>3. ~ IsClearing(job[t], c) => attempts'[c] = attempts[c]
      BY <1>1, <2>1 DEF IsClearing
    <3>4. attempts'[c] = 0 \/ attempts'[c] = attempts[c]
      BY <1>1, <2>1
    <3>5. tried[cache[c]] \in Nat /\ attempts[c] \in Nat /\ tried'[cache[c]] = tried[cache[c]]
      BY <1>1, <2>1, <2>3
    <3>6. ~ IsClearing(job[t], c) =>
            tried'[cache[c]] + One(IsReading(job'[t], c)) + attempts[c]
              <= tried[cache[c]] + One(IsReading(job[t], c)) + attempts'[c]
      BY <3>2, <3>3, <3>5
    <3> QED
      BY <1>3, <2>1, <2>3, <3>1, <3>4, <3>5, <3>6, SpareKept
  <2>4. /\ \A c \in Contacts : cache'[c] \in {cache[c], NoCode}
        /\ \A c \in Contacts : cache'[c] # NoCode => Spare(c)'
        /\ \A k \in Codes : tried'[k] = tried[k] /\ tried'[k] <= N * MaxTries + 1
    BY <1>2, <2>1, <2>3
  <2> QED
    BY <1>3, <2>2, <2>4, OverlapShrinks
<1>10. ASSUME NEW d \in Contacts, NEW k \in known \union {NoCode}, VerifyStart(t, d, k)
       PROVE  OverlapInv'
  <2>1. UNCHANGED tried /\ job[t].at = "idle"
    BY <1>10 DEF VerifyStart
  <2>2. CASE attempts[d] >= MaxTries
    <3>1. /\ cache' = [cache EXCEPT ![d] = NoCode] /\ attempts' = [attempts EXCEPT ![d] = 0]
          /\ UNCHANGED job
      BY <1>2, <1>10, <2>2 DEF VerifyStart
    <3>2. ASSUME NEW c \in Contacts, cache'[c] # NoCode
          PROVE  Spare(c)'
      <4>1. cache'[c] = cache[c] /\ attempts'[c] = attempts[c] /\ cache[c] # NoCode /\ c # d
        BY <1>1, <3>1, <3>2
      <4>2. /\ ~ IsClearing(job'[t], c) /\ ~ IsReading(job'[t], c) /\ ~ IsClearing(job[t], c)
            /\ ~ IsReading(job[t], c)
        BY <2>1, <3>1 DEF IsClearing, IsReading
      <4>3. One(IsReading(job'[t], c)) = 0 /\ One(IsReading(job[t], c)) = 0
        BY <4>2 DEF One
      <4>4. tried[cache[c]] \in Nat /\ attempts[c] \in Nat
        BY <1>1, <4>1
      <4>5. tried'[cache[c]] + One(IsReading(job'[t], c)) + attempts[c]
              <= tried[cache[c]] + One(IsReading(job[t], c)) + attempts'[c]
        BY <2>1, <4>1, <4>3, <4>4
      <4> QED
        BY <1>3, <4>1, <4>2, <4>5, SpareKept
    <3>3. /\ \A c \in Contacts : cache'[c] \in {cache[c], NoCode}
          /\ \A m \in Codes : tried'[m] = tried[m] /\ tried'[m] <= N * MaxTries + 1
          /\ job'[t].at = "idle"
      BY <1>1, <1>2, <2>1, <3>1
    <3> QED
      BY <1>3, <3>2, <3>3, OverlapShrinks
  <2>3. CASE ~ (attempts[d] >= MaxTries)
    <3>1. attempts' = [attempts EXCEPT ![d] = attempts[d] + 1] /\ UNCHANGED cache
      BY <1>2, <1>10, <2>3 DEF VerifyStart
    <3>2. job'[t].at = "read" /\ job'[t].contact = d
      BY <1>2, <1>10, <2>3, VerifyingSteps DEF NowNew
    <3>3. ASSUME NEW c \in Contacts, cache[c] # NoCode
          PROVE  Spare(c)'
      <4>1. ~ IsClearing(job'[t], c) /\ ~ IsClearing(job[t], c)
        BY <2>1, <3>2 DEF IsClearing
      <4>2. /\ One(IsReading(job'[t], c)) = IF c = d THEN 1 ELSE 0
            /\ One(IsReading(job[t], c)) = 0
        BY <2>1, <3>2 DEF One, IsReading
      <4>3. attempts'[c] = IF c = d THEN attempts[c] + 1 ELSE attempts[c]
        BY <1>1, <3>1
      <4>4. tried[cache[c]] \in Nat /\ attempts[c] \in Nat /\ tried'[cache[c]] = tried[cache[c]]
        BY <1>1, <2>1, <3>3
      <4>5. tried'[cache[c]] + One(IsReading(job'[t], c)) + attempts[c]
              <= tried[cache[c]] + One(IsReading(job[t], c)) + attempts'[c]
        BY <4>2, <4>3, <4>4
      <4> QED
        BY <1>3, <3>1, <3>3, <4>1, <4>5, SpareKept
    <3>4. /\ \A c \in Contacts : cache'[c] \in {cache[c], NoCode}
          /\ \A c \in Contacts : cache'[c] # NoCode => Spare(c)'
          /\ \A m \in Codes : tried'[m] = tried[m] /\ tried'[m] <= N * MaxTries + 1
      BY <1>2, <2>1, <3>1, <3>3
    <3> QED
      BY <1>3, <3>2, <3>4, OverlapShrinks
  <2> QED
    BY <2>2, <2>3
<1>11. ASSUME VerifyRead(t)
       PROVE  OverlapInv'
  <2>a. PICK d \in Contacts : d = job[t].contact
    BY <1>1, <1>11 DEF VerifyRead, GoodJob
  <2>b. PICK k \in Codes \union {NoCode} : k = cache[d]
    BY <1>1
  <2>1. /\ job[t].at = "read" /\ UNCHANGED <<cache, attempts>>
        /\ IF k = NoCode THEN UNCHANGED tried ELSE tried' = [tried EXCEPT ![k] = tried[k] + 1]
    BY <1>2, <1>11, <2>a, <2>b DEF VerifyRead, kept
  <2>2. job'[t].at \in {"find", "match", "idle"}
    BY <1>11, VerifyingSteps DEF NowAt, NowIdle
  <2>3. CASE k = NoCode
    BY <1>4, <2>1, <2>2, <2>3
  <2>4. CASE k # NoCode
    <3>1. k \in Codes
      BY <2>4
    <3>2. ASSUME NEW c \in Contacts, cache[c] # NoCode
          PROVE  Spare(c)'
      <4>1. ~ IsClearing(job'[t], c) /\ ~ IsClearing(job[t], c)
        BY <2>1, <2>2 DEF IsClearing
      <4>2. One(IsReading(job'[t], c)) = 0 /\ One(IsReading(job[t], c)) = IF c = d THEN 1 ELSE 0
        BY <2>1, <2>2, <2>a DEF One, IsReading
      <4>3. c # d <=> cache[c] # k
        BY <1>2, <2>4, <2>b
      <4>4. tried'[cache[c]] = IF c = d THEN tried[cache[c]] + 1 ELSE tried[cache[c]]
        BY <1>1, <2>1, <2>4, <3>1, <3>2, <4>3
      <4>5. tried[cache[c]] \in Nat /\ attempts[c] \in Nat /\ attempts'[c] = attempts[c]
        BY <1>1, <2>1, <3>2
      <4>6. tried'[cache[c]] + One(IsReading(job'[t], c)) + attempts[c]
              <= tried[cache[c]] + One(IsReading(job[t], c)) + attempts'[c]
        BY <4>2, <4>4, <4>5
      <4> QED
        BY <1>3, <2>1, <3>2, <4>1, <4>6, SpareKept
    <3>3. ASSUME NEW m \in Codes
          PROVE  tried'[m] <= N * MaxTries + 1
      <4>1. CASE m # k
        BY <1>1, <1>2, <2>1, <2>4, <4>1
      <4>2. CASE m = k
        <5>1. Spare(d)' /\ cache'[d] = k
          BY <2>1, <2>4, <2>b, <3>2
        <5>2. /\ tried'[k] \in Nat /\ Cardinality(Reading(d)') \in Nat /\ Cardinality(Clearing(d)') \in Nat
              /\ attempts'[d] \in 0 .. MaxTries /\ N \in Nat
          <6>1. N \in Nat
            BY Readers
          <6>2. Cardinality(Reading(d)') \in Nat /\ Cardinality(Clearing(d)') \in Nat
            BY <1>3, ReadersMove
          <6> QED
            BY <1>1, <3>1, <6>1, <6>2
        <5>3. \/ tried'[k] + Cardinality(Reading(d)') + MaxTries * Cardinality(Clearing(d)')
                   <= attempts'[d] + (N - 1) * MaxTries + 1
              \/ tried'[k] = 0
          BY <5>1 DEF Spare
        <5>4. CASE tried'[k] = 0
          <6>1. N * MaxTries \in Nat
            BY <1>1, <5>2
          <6> QED
            BY <4>2, <5>4, <6>1
        <5>5. CASE tried'[k] + Cardinality(Reading(d)') + MaxTries * Cardinality(Clearing(d)')
                     <= attempts'[d] + (N - 1) * MaxTries + 1
          <6>1. attempts'[d] \in Nat /\ attempts'[d] <= MaxTries /\ MaxTries \in Nat
            BY <1>1, <5>2
          <6>2. tried'[k] <= N * MaxTries + 1
            BY <5>2, <5>5, <6>1, CapOf
          <6> QED
            BY <4>2, <6>2
        <5> QED
          BY <5>3, <5>4, <5>5
      <4> QED
        BY <4>1, <4>2
    <3>4. /\ \A c \in Contacts : cache'[c] \in {cache[c], NoCode}
          /\ \A c \in Contacts : cache'[c] # NoCode => Spare(c)'
          /\ \A m \in Codes : (\A c \in Contacts : cache[c] # m) => tried'[m] = tried[m]
      BY <1>1, <2>1, <2>4, <2>b, <3>2
    <3> QED
      BY <1>3, <2>2, <3>3, <3>4, OverlapShrinks
  <2> QED
    BY <2>3, <2>4
<1>12. ASSUME VerifyMatch(t)
       PROVE  OverlapInv'
  <2>1. /\ UNCHANGED <<tried, attempts>> /\ job[t].at = "match" /\ job'[t].at = "idle"
        /\ cache' = [cache EXCEPT ![job[t].contact] = NoCode]
    BY <1>2, <1>12, VerifyingSteps DEF VerifyMatch, NowIdle
  <2>2. ASSUME NEW c \in Contacts, cache'[c] # NoCode
        PROVE  Spare(c)'
    <3>1. cache'[c] = cache[c] /\ cache[c] # NoCode
      BY <1>1, <2>1, <2>2
    <3>2. /\ ~ IsClearing(job'[t], c) /\ ~ IsReading(job'[t], c) /\ ~ IsClearing(job[t], c)
          /\ ~ IsReading(job[t], c)
      BY <2>1 DEF IsClearing, IsReading
    <3>3. One(IsReading(job'[t], c)) = 0 /\ One(IsReading(job[t], c)) = 0
      BY <3>2 DEF One
    <3>4. tried[cache[c]] \in Nat /\ attempts[c] \in Nat
      BY <1>1, <3>1
    <3>5. tried'[cache[c]] + One(IsReading(job'[t], c)) + attempts[c]
            <= tried[cache[c]] + One(IsReading(job[t], c)) + attempts'[c]
      BY <2>1, <3>3, <3>4
    <3> QED
      BY <1>3, <3>1, <3>2, <3>5, SpareKept
  <2>3. /\ \A c \in Contacts : cache'[c] \in {cache[c], NoCode}
        /\ \A m \in Codes : tried'[m] = tried[m] /\ tried'[m] <= N * MaxTries + 1
    BY <1>1, <1>2, <2>1
  <2> QED
    BY <1>3, <2>1, <2>2, <2>3, OverlapShrinks
\* A new code: nobody has compared it, and one more will forget the guesses.
<1>13. ASSUME StoreInRedis(t)
       PROVE  OverlapInv'
  <2>a. PICK d \in Contacts : d = job[t].contact
    BY <1>1, <1>13 DEF StoreInRedis, GoodJob, Sending
  <2>b. PICK k \in Codes : k = job[t].code
    BY <1>1, <1>13 DEF StoreInRedis, GoodJob, Sending
  <2>1. /\ job[t].at = "store" /\ cache' = [cache EXCEPT ![d] = k] /\ UNCHANGED <<attempts, tried>>
    BY <1>2, <1>13, <2>a, <2>b DEF StoreInRedis
  <2>2. job'[t].at = "clear" /\ job'[t].contact = d /\ job'[t].code = k
    BY <1>2, <1>13, <2>a, <2>b, SendingSteps DEF NowAt
  <2>3. tried[k] = 0 /\ (\A c \in Contacts : cache[c] # k)
    BY <1>2, <2>1, <2>b
  <2>4. ASSUME NEW u \in Threads \ {t}, job[u].at \in {"count", "store"}
        PROVE  job[u].code # k
    BY <2>1, <2>4, <2>b DEF OverlapInv
  <2>5. Spare(d)'
    <3>1. /\ Cardinality(Reading(d)) \in Nat /\ Cardinality(Reading(d)') \in Nat
          /\ Cardinality(Clearing(d)) \in Nat /\ Cardinality(Clearing(d)') \in Nat
          /\ Cardinality(Reading(d)') = Cardinality(Reading(d))
          /\ Cardinality(Clearing(d)') = Cardinality(Clearing(d)) + 1
      <4>1. /\ One(IsReading(job[t], d)) = 0 /\ One(IsReading(job'[t], d)) = 0
            /\ One(IsClearing(job[t], d)) = 0 /\ One(IsClearing(job'[t], d)) = 1
        BY <2>1, <2>2 DEF One, IsReading, IsClearing
      <4> QED
        BY <1>3, <4>1, ReadersMove
    <3>2. /\ N \in Nat /\ Cardinality(Reading(d)') + Cardinality(Clearing(d)') <= N
      <4>1. /\ IsFiniteSet(Threads) /\ Reading(d)' \in SUBSET Threads /\ Clearing(d)' \in SUBSET Threads
            /\ Reading(d)' \intersect Clearing(d)' = {}
        BY LoginAssumption DEF LoginAssumption, Reading, Clearing, IsReading, IsClearing
      <4> QED
        BY <4>1, TwoParts, Readers DEF N
    <3>3. tried'[cache'[d]] = 0 /\ attempts'[d] \in Nat
      BY <1>1, <2>1, <2>3
    <3>4. CASE Cardinality(Clearing(d)') = N
      BY <3>3, <3>4 DEF Spare
    <3>5. CASE Cardinality(Clearing(d)') # N
      <4>1. Cardinality(Reading(d)') + MaxTries * Cardinality(Clearing(d)') <= (N - 1) * MaxTries + 1
        BY <1>1, <3>1, <3>2, <3>5, CapNew
      <4>2. (N - 1) * MaxTries \in Int /\ MaxTries * Cardinality(Clearing(d)') \in Nat
        BY <1>1, <3>1, <3>2
      <4>3. tried'[cache'[d]] + Cardinality(Reading(d)') + MaxTries * Cardinality(Clearing(d)')
              <= attempts'[d] + (N - 1) * MaxTries + 1
        BY <3>1, <3>3, <4>1, <4>2
      <4> QED
        BY <4>3 DEF Spare
    <3> QED
      BY <3>4, <3>5
  <2>6. ASSUME NEW c \in Contacts \ {d}, cache[c] # NoCode
        PROVE  Spare(c)'
    <3>1. cache'[c] = cache[c] /\ attempts'[c] = attempts[c] /\ tried'[cache[c]] = tried[cache[c]]
      BY <1>1, <2>1
    <3>2. /\ ~ IsClearing(job'[t], c) /\ ~ IsReading(job'[t], c) /\ ~ IsClearing(job[t], c)
          /\ ~ IsReading(job[t], c)
      BY <2>1, <2>2 DEF IsClearing, IsReading
    <3>3. One(IsReading(job'[t], c)) = 0 /\ One(IsReading(job[t], c)) = 0
      BY <3>2 DEF One
    <3>4. tried[cache[c]] \in Nat /\ attempts[c] \in Nat
      BY <1>1, <2>6
    <3>5. tried'[cache[c]] + One(IsReading(job'[t], c)) + attempts[c]
            <= tried[cache[c]] + One(IsReading(job[t], c)) + attempts'[c]
      BY <3>1, <3>3, <3>4
    <3> QED
      BY <1>3, <2>6, <3>1, <3>2, <3>5, SpareKept
  <2>7. \A c \in Contacts : cache'[c] # NoCode => Spare(c)'
    BY <1>1, <2>1, <2>5, <2>6
  <2>8. /\ \A u \in Threads \ {t} : job'[u] = job[u]
        /\ \A u \in Threads \ {t} : job[u].at # "insert"
    BY <1>3 DEF Alone, OverlapInv
  <2>9. \A u \in Threads : job'[u].at # "insert"
    BY <2>2, <2>8
  <2>10. ASSUME NEW u \in Threads, job'[u].at \in {"count", "store"}
         PROVE  u # t /\ tried'[job'[u].code] = 0 /\ \A c \in Contacts : cache'[c] # job'[u].code
    <3>1. u # t /\ job'[u] = job[u]
      BY <2>2, <2>8, <2>10
    <3>2. tried[job[u].code] = 0 /\ \A c \in Contacts : cache[c] # job[u].code
      BY <2>10, <3>1 DEF OverlapInv
    <3>3. job[u].code # k
      BY <2>4, <2>10, <3>1
    <3> QED
      BY <1>1, <2>1, <3>1, <3>2, <3>3
  <2>11. ASSUME NEW u \in Threads, NEW w \in Threads,
                job'[u].at \in {"count", "store"}, job'[w].at \in {"count", "store"},
                job'[u].code = job'[w].code
         PROVE  u = w
    <3>1. job'[u] = job[u] /\ job'[w] = job[w]
      BY <2>8, <2>10, <2>11
    <3> QED
      BY <2>11, <3>1 DEF OverlapInv
  <2>12. \A c, e \in Contacts : cache'[c] = cache'[e] /\ cache'[c] # NoCode => c = e
    BY <1>1, <1>2, <2>1, <2>3
  <2>13. \A m \in Codes : tried'[m] <= N * MaxTries + 1
    BY <1>2, <2>1
  <2> QED
    BY <1>3, <2>7, <2>9, <2>10, <2>11, <2>12, <2>13 DEF OverlapInv
<1>14. ~ StoreInsert(t)
  BY <1>2 DEF StoreInsert
<1> QED
  BY <1>5, <1>6, <1>7, <1>8, <1>9, <1>10, <1>11, <1>12, <1>13, <1>14 DEF Step

\* So does each step where requests overlap and Redis is there.
LEMMA OverlapStep ==
  ASSUME StoreType, StoreType', OverlapInv, habit = "overlap", CodesNext
  PROVE  OverlapInv'
<1>1. Next /\ UNCHANGED up /\ expired' = {} /\ expired = {} /\ up
  BY DEF CodesNext, OverlapInv
<1>2. CASE \E t \in Threads : Step(t)
  BY <1>2, OverlapThreadStep
<1>3. CASE \E k \in Codes : Expire(k)
  BY <1>1, <1>3 DEF Expire
<1>4. ASSUME NEW c \in Contacts, AttemptsExpire(c) \/ CooldownEnds(c) \/ WindowEnds(c)
      PROVE  OverlapInv'
  <2>1. UNCHANGED <<up, cache, table, expired, known, job, accepted, tried>>
    BY <1>4 DEF AttemptsExpire, CooldownEnds, WindowEnds
  <2>2. \A d \in Contacts : cache[d] # NoCode => attempts'[d] = attempts[d]
    <3>1. attempts \in [Contacts -> 0 .. MaxTries]
      BY DEF StoreType, TypeOK
    <3> QED
      BY <1>4, <3>1 DEF AttemptsExpire, CooldownEnds, WindowEnds
  <2>3. ASSUME NEW d \in Contacts, cache'[d] # NoCode
        PROVE  Spare(d)'
    <3>1. Spare(d) /\ attempts'[d] = attempts[d]
      BY <2>1, <2>2, <2>3 DEF OverlapInv
    <3> QED
      BY <2>1, <3>1 DEF Spare, Reading, Clearing
  <2> QED
    BY <2>1, <2>3 DEF OverlapInv
<1>5. ~ RedisTurns
  BY <1>1 DEF RedisTurns
<1> QED
  BY <1>1, <1>2, <1>3, <1>4, <1>5 DEF Next

\* Codes are guessed only where codes are what the run is about.
GuessInv ==
  /\ habit = "overlap" => OverlapInv
  /\ habit \notin CodeHabits => tried = [k \in Codes |-> 0]

\* The guesses of a code where requests overlap stay in bounds throughout.
LEMMA GuessesKept == LoginSpec => []GuessInv
<1>1. ASSUME LoginInit PROVE GuessInv
  <2>1. Init /\ up = (habit # "away")
    BY <1>1 DEF LoginInit
  <2>2. /\ \A t \in Threads : job[t].at = "idle"
        /\ cache = [c \in Contacts |-> NoCode] /\ expired = {} /\ tried = [k \in Codes |-> 0]
    BY <2>1, NoJob DEF Init
  <2>3. \A k \in Codes : tried[k] <= N * MaxTries + 1
    <3>1. MaxTries \in Nat /\ N \in Nat
      BY OtpAssumption, LoginAssumption, FS_CardinalityType DEF OtpAssumption, LoginAssumption, N
    <3>2. N * MaxTries \in Nat
      BY <3>1
    <3> QED
      BY <2>2, <3>2
  <2> QED
    BY <2>1, <2>2, <2>3 DEF GuessInv, OverlapInv
<1>2. ASSUME GuessInv, StoreType, StoreType', HabitOK,
             [LoginNext]_<<vars, accountVars, lockVars, habit>>
      PROVE  GuessInv'
  <2>1. CASE UNCHANGED vars /\ habit' = habit
    BY <1>2, <2>1 DEF GuessInv, OverlapInv, Spare, Reading, Clearing, vars, kept
  <2>2. CASE LoginNext
    <3>1. habit' = habit
      BY <1>2, <2>2, WhoSteps
    <3>2. CASE habit \notin CodeHabits
      BY <1>2, <2>1, <2>2, <3>1, <3>2, WhoSteps DEF HabitOK
    <3>3. CASE habit \in CodeHabits
      <4>1. CodesNext
        BY <1>2, <2>2, <3>3, WhoSteps
      <4> QED
        BY <1>2, <3>1, <3>3, <4>1, OverlapStep DEF GuessInv
    <3> QED
      BY <3>2, <3>3
  <2> QED
    BY <1>2, <2>1, <2>2
<1> QED
  BY <1>1, <1>2, HabitKept, StoreTypeKept, PTL DEF LoginSpec

\* A code in Redis is compared with MaxTries guesses at most where requests
\* come one at a time, and with no more than the threads that may forget the
\* guesses allow where they overlap (consume_otp, store_otp).
THEOREM GuessesCappedHolds == LoginSpec => []GuessesCapped
<1>1. ASSUME GuessInv, TurnInv, HabitOK PROVE GuessesCapped
  <2>1. MaxTries \in Nat /\ N \in Nat
    BY OtpAssumption, LoginAssumption, FS_CardinalityType DEF OtpAssumption, LoginAssumption, N
  <2>2. N * MaxTries \in Nat
    BY <2>1
  <2>3. ASSUME NEW k \in Codes, habit # "outage"
        PROVE  tried[k] <= IF InTurn THEN MaxTries ELSE N * MaxTries + 1
    <3>1. CASE habit = "there"
      BY <1>1, <3>1 DEF TurnInv, ThereInv, InTurn
    <3>2. CASE habit = "away"
      BY <1>1, <2>1, <3>2 DEF TurnInv, AwayInv, InTurn
    <3>3. CASE habit = "overlap"
      BY <1>1, <3>3 DEF GuessInv, OverlapInv, InTurn
    <3>4. CASE habit \notin CodeHabits
      BY <1>1, <2>2, <3>4 DEF GuessInv, InTurn, CodeHabits
    <3> QED
      BY <2>3, <3>1, <3>2, <3>3, <3>4 DEF CodeHabits
  <2> QED
    BY <2>3 DEF GuessesCapped, N
<1> QED
  BY <1>1, GuessesKept, TurnKept, HabitKept, PTL

=============================================================================
