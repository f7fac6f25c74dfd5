---------------------------- MODULE PhoneAccounts ----------------------------
(***************************************************************************)
(* Accounts and sessions (api/v1/auth/service.py and router.py,            *)
(* core/token_blacklist.py): registering, asking for a code, which makes an *)
(* account too, logging in with a verified number, refreshing and ending a *)
(* session; changing one's number and suspending an account are in the     *)
(* user and admin services.                                                *)
(*                                                                         *)
(* A phone is a number and a spelling of it.  Requests that register look  *)
(* for the spelling, a login for the number; users.phone is unique by      *)
(* spelling.  A request looks in one statement and writes in another.      *)
(***************************************************************************)
EXTENDS Naturals, FiniteSets

CONSTANTS
  Numbers, Ids, Tokens, Threads,  \* ids of accounts; refresh tokens by their jti
  NoId, NoToken, NoPhone, Unborn

Phones  == [number : Numbers, spelling : {"bare", "e164"}]
Account == [phone : Phones, verified : BOOLEAN, active : BOOLEAN]

Normal(p) == [p EXCEPT !.spelling = "e164"]

VARIABLES
  accounts,  \* users, by id
  sessions,  \* the account of each refresh token issued
  dead,      \* refresh tokens past their time
  revoked,   \* blacklist:<jti> in Redis
  login      \* what each API thread is doing

accountVars == <<accounts, sessions, dead, revoked, login>>

Idle == [at |-> "idle", phone |-> NoPhone, id |-> NoId, token |-> NoToken, normal |-> FALSE]
Job  == [at : {"idle", "insert", "create", "adopt", "refresh"}, phone : Phones \union {NoPhone},
         id : Ids \union {NoId}, token : Tokens \union {NoToken}, normal : BOOLEAN]

Live == {i \in Ids : accounts[i] # Unborn}
Spelled(p) == {i \in Live : accounts[i].phone = p}
WithNumber(n) == {i \in Live : accounts[i].phone.number = n}

Works(t, j) == login' = [login EXCEPT ![t] = j]
Finish(t) == Works(t, Idle)

Init ==
  /\ accounts = [i \in Ids |-> Unborn]
  /\ sessions = [r \in Tokens |-> Unborn]
  /\ dead = {} /\ revoked = {}
  /\ login = [t \in Threads |-> Idle]

\* register, register-phone and send-otp insert if the spelling is not there.
Register(t, p) ==
  /\ login[t] = Idle /\ Spelled(p) = {}
  /\ Works(t, [Idle EXCEPT !.at = "insert", !.phone = p])
  /\ UNCHANGED <<accounts, sessions, dead, revoked>>

RegisterInsertTwice(t, i) ==             \* mutant: users.phone is not unique
  /\ login[t].at = "insert" /\ accounts[i] = Unborn
  /\ accounts' = [accounts EXCEPT ![i] =
                    [phone |-> login[t].phone, verified |-> FALSE, active |-> TRUE]]
  /\ Finish(t)
  /\ UNCHANGED <<sessions, dead, revoked>>

RegisterInsert(t, i) ==
  LET p == login[t].phone
  IN /\ login[t].at = "insert" /\ accounts[i] = Unborn
     /\ accounts' = IF Spelled(p) # {} THEN accounts
                    ELSE [accounts EXCEPT ![i] =
                            [phone |-> p, verified |-> FALSE, active |-> TRUE]]
     /\ Finish(t)
     /\ UNCHANGED <<sessions, dead, revoked>>

\* _login_verified_phone, after a code (any spelling) or Firebase (E.164): one
\* of the accounts with the number, whichever is first, or a new one.
Login(t, p) ==
  /\ login[t] = Idle
  /\ IF WithNumber(p.number) = {}
     THEN Works(t, [Idle EXCEPT !.at = "create", !.phone = p])
     ELSE \E i \in WithNumber(p.number) :
            /\ accounts[i].active
            /\ Works(t, [Idle EXCEPT !.at = "adopt", !.phone = p, !.id = i,
                                     !.normal = accounts[i].phone = Normal(p)])
  /\ UNCHANGED <<accounts, sessions, dead, revoked>>

Issue(r, i) ==
  /\ sessions[r] = Unborn
  /\ sessions' = [sessions EXCEPT ![r] = i]

\* An unique-constraint error ends the request and leaves everything.
LoginCreate(t, i, r) ==
  LET p == Normal(login[t].phone)
  IN /\ login[t].at = "create" /\ accounts[i] = Unborn
     /\ IF Spelled(p) # {} THEN UNCHANGED <<accounts, sessions>>
        ELSE /\ accounts' = [accounts EXCEPT ![i] =
                               [phone |-> p, verified |-> TRUE, active |-> TRUE]]
             /\ Issue(r, i)
     /\ Finish(t)
     /\ UNCHANGED <<dead, revoked>>

\* The number is written in E.164 if it was not when looked at.
LoginAdopt(t, r) ==
  LET i == login[t].id
      p == Normal(login[t].phone)
  IN /\ login[t].at = "adopt"
     /\ IF ~login[t].normal /\ Spelled(p) \ {i} # {} THEN UNCHANGED <<accounts, sessions>>
        ELSE /\ accounts' = [accounts EXCEPT
                  ![i].verified = TRUE,
                  ![i].phone = IF login[t].normal THEN @ ELSE p]
             /\ Issue(r, i)
     /\ Finish(t)
     /\ UNCHANGED <<dead, revoked>>

RefreshUnlisted(t, r) ==                 \* mutant: the blacklist is not asked
  /\ login[t] = Idle /\ sessions[r] # Unborn /\ r \notin dead
  /\ Works(t, [Idle EXCEPT !.at = "refresh", !.token = r])
  /\ UNCHANGED <<accounts, sessions, dead, revoked>>

\* A refresh token that is in time and not revoked buys another; it stays good.
Refresh(t, r) ==
  /\ login[t] = Idle /\ sessions[r] # Unborn /\ r \notin dead \union revoked
  /\ Works(t, [Idle EXCEPT !.at = "refresh", !.token = r])
  /\ UNCHANGED <<accounts, sessions, dead, revoked>>

RefreshIssue(t, r) ==
  LET i == sessions[login[t].token]
  IN /\ login[t].at = "refresh"
     /\ IF accounts[i].active THEN Issue(r, i) ELSE UNCHANGED sessions
     /\ Finish(t)
     /\ UNCHANGED <<accounts, dead, revoked>>

\* The entry in the blacklist lasts as long as the token.
Logout(r) ==
  /\ sessions[r] # Unborn /\ r \notin dead
  /\ revoked' = revoked \union {r}
  /\ UNCHANGED <<accounts, sessions, dead, login>>

Expire(r) ==
  /\ sessions[r] # Unborn
  /\ dead' = dead \union {r} /\ revoked' = revoked \ {r}
  /\ UNCHANGED <<accounts, sessions, login>>

\* PUT /users/me
ChangePhone(i, p) ==
  /\ i \in Live /\ Spelled(p) = {}
  /\ accounts' = [accounts EXCEPT ![i].phone = p]
  /\ UNCHANGED <<sessions, dead, revoked, login>>

\* PUT /admin/users/{id}/suspend, and back.
Suspend(i) ==
  /\ i \in Live
  /\ accounts' = [accounts EXCEPT ![i].active = ~@]
  /\ UNCHANGED <<sessions, dead, revoked, login>>

Step(t) ==
  \/ \E p \in Phones : Register(t, p) \/ Login(t, p)
  \/ \E i \in Ids : RegisterInsert(t, i) \/ \E r \in Tokens : LoginCreate(t, i, r)
  \/ \E r \in Tokens : LoginAdopt(t, r) \/ Refresh(t, r) \/ RefreshIssue(t, r)

Next ==
  \/ \E t \in Threads : Step(t)
  \/ \E r \in Tokens : Logout(r) \/ Expire(r)
  \/ \E i \in Ids : Suspend(i) \/ \E p \in Phones : ChangePhone(i, p)

Spec == Init /\ [][Next]_accountVars
-----------------------------------------------------------------------------
TypeOK ==
  /\ accounts \in [Ids -> Account \union {Unborn}]
  /\ sessions \in [Tokens -> Ids \union {Unborn}]
  /\ dead \subseteq Tokens /\ revoked \subseteq Tokens
  /\ login \in [Threads -> Job]

\* A person has one account (normalize_phone: "everything is funnelled through
\* here to stop the same person getting two accounts").
OneAccountPerNumber ==
  \A i, j \in Live : accounts[i].phone.number = accounts[j].phone.number => i = j
=============================================================================
