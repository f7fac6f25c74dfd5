------------------------------- MODULE MCLogin -------------------------------
(* OtpStore, PhoneAccounts and LoginLockout, which share nothing, in one run, *)
(* one kind of behaviour at a time.                                           *)
(* Codes: requests come one at a time, none dying between the storing of a    *)
(* code and the forgetting of the guesses, and Redis is there, or is away;    *)
(* requests overlap, Redis is there and no code expires; they come one at a   *)
(* time and Redis comes and goes, in the middle of a request too.             *)
(* A window of sends ends when it is full.                                    *)
(* Accounts: requests come one at a time, clients spell numbers as they like  *)
(* and users change theirs; requests overlap and everybody spells E.164.      *)
(* Passwords: logins come one at a time; they overlap.                        *)
EXTENDS OtpStore, TLC

CONSTANTS Numbers, Ids, Tokens, NoId, NoToken, NoPhone, Unborn,
          Ips, Logins, Limit, MaxCalls, Clients, NoKey, ip1, ana
VARIABLES accounts, sessions, dead, revoked, login,
          calls, fails, locks, told, try, misses, habit

accountVars == <<accounts, sessions, dead, revoked, login>>
lockVars == <<calls, fails, locks, told, try, misses>>

Accounts == INSTANCE PhoneAccounts
Lockout  == INSTANCE LoginLockout

TwoMisses == ip1 :> 3 @@ ana :> 2

\* A pool of threads serves the requests; the keys of a lock are prefixed by
\* what they count (login-ip:, login:) and a limit is positive.
ASSUME LoginAssumption ==
  /\ IsFiniteSet(Threads) /\ IsFiniteSet(Clients)
  /\ Ips \intersect Logins = {} /\ Limit \in [Ips \union Logins -> Nat \ {0}]
  /\ Unborn \notin Accounts!Account \union Ids /\ NoPhone \notin Accounts!Phones

CodeHabits     == {"there", "away", "overlap", "outage"}
AccountHabits  == {"move", "steady"}
PasswordHabits == {"queued", "racing"}

\* Ids are taken in order.
Ordered(taken) == \A i, j \in Codes : i < j /\ j \in taken => i \in taken

InTurn == habit \in {"there", "away"}
Working == {t \in Threads : job[t] # Idle}
CodesNext ==
  /\ Next /\ Ordered(Issued')
  /\ habit # "outage" => UNCHANGED up
  /\ InTurn => \A t \in Threads : job[t].at = "clear" => ~Dies(t)
  /\ habit # "overlap" /\ Working # {} => job' # job \/ up' # up
  /\ habit # "overlap" => Cardinality(Working') <= 1
  /\ \A c \in Contacts : sends'[c] < sends[c] => sends[c] > MaxSends
  /\ habit = "overlap" => /\ Cardinality(Issued') <= 2 /\ expired' = {}
                          /\ \A c \in Contacts : sends'[c] >= sends[c]
  /\ habit = "outage" => Cardinality(Issued') <= 1 /\ \A k \in Codes : tried'[k] <= 3

AccountsNext ==
  /\ Accounts!Next
  /\ Ordered(Accounts!Live') /\ Ordered({r \in Tokens : sessions'[r] # Unborn})
  /\ habit = "steady" \/ Cardinality({t \in Threads : login'[t] # Accounts!Idle}) <= 1
  /\ habit = "steady" \/ \A t \in Threads : login[t] = Accounts!Idle \/ login'[t] # login[t]
  /\ habit = "steady" => \A t \in Threads : login'[t].phone # NoPhone
                                             => login'[t].phone.spelling = "e164"
  /\ (\E i \in Ids, p \in Accounts!Phones : Accounts!ChangePhone(i, p)) => habit = "move"

PasswordsNext ==
  /\ Lockout!Next
  /\ habit = "queued" => /\ Cardinality({t \in Clients : try'[t] # Lockout!Idle}) <= 1
                         /\ \A t \in Clients : try[t] = Lockout!Idle \/ try'[t] # try[t]

LoginInit ==
  /\ Init /\ Accounts!Init /\ Lockout!Init
  /\ habit \in CodeHabits \union AccountHabits \union PasswordHabits
  /\ up = (habit # "away")
LoginNext ==
  /\ UNCHANGED habit
  /\ CASE habit \in CodeHabits     -> CodesNext /\ UNCHANGED <<accountVars, lockVars>>
       [] habit \in AccountHabits  -> AccountsNext /\ UNCHANGED <<vars, lockVars>>
       [] habit \in PasswordHabits -> PasswordsNext /\ UNCHANGED <<vars, accountVars>>
LoginSpec == LoginInit /\ [][LoginNext]_<<vars, accountVars, lockVars, habit>>

\* The code a contact may use, and the guesses that count against it.
Usable(c) == CASE ~InTurn -> NoCode
               [] habit = "there" -> cache[c]
               [] OTHER -> IF table[c] \subseteq expired THEN NoCode
                           ELSE CHOOSE k \in table[c] \ expired : TRUE
Counted(c) == IF ~InTurn \/ \E t \in Threads : job[t].at = "clear" /\ job[t].contact = c
              THEN 0 ELSE attempts[c]

Live  == [c \in Contacts |-> Usable(c)]
Tries == [c \in Contacts |-> Counted(c)]
Used  == IF InTurn THEN {k \in Codes : accepted[k] > 0} ELSE {}
Late  == IF InTurn THEN expired ELSE {}

Promise == INSTANCE OneTimeCode WITH live <- Live, tries <- Tries, used <- Used, expired <- Late

\* Where requests come one at a time and Redis stays there or stays away,
\* store_otp and consume_otp implement OneTimeCode: one code at a time, used
\* once, in time and within its guesses, and not lost otherwise.
CodesKeepPromise == Promise!Spec

\* A code in Redis is compared with MaxTries guesses at most (consume_otp:
\* "Cap wrong guesses against the currently-issued code"); where requests
\* overlap, each of them that has stored a code may forget the guesses once
\* more, and one guess was counted before.
GuessesCapped ==
  \A k \in Codes : habit # "outage" =>
    tried[k] <= IF InTurn THEN MaxTries ELSE Cardinality(Threads) * MaxTries + 1

\* A person has one account where every client spells the number in E.164,
\* whatever requests overlap (normalize_phone); with two spellings there are two.
OneAccountSteady == habit = "steady" => Accounts!OneAccountPerNumber

\* A refresh token that was ended by a logout buys no session, for as long as
\* it would have lasted (blacklist_token), unless it was being used meanwhile.
LogoutEnds ==
  [][habit = "steady" \/ \A t \in Threads :
       login[t].at = "refresh" /\ sessions' # sessions => login[t].token \notin revoked]_accountVars

\* No account or address has more wrong passwords tried than lock it, but for
\* those that were past the check already (record_failure).
MissesBounded == Lockout!MissesBounded

\* A lock lasts until its time is over; where logins overlap, one that was past
\* the check may succeed and lift it (record_success).
LocksLastInTurn ==
  [][habit = "racing" \/ \A k \in locks \ locks' : Lockout!LockEnds(k)]_lockVars

Symmetry == Permutations(Threads) \union Permutations(Numbers) \union Permutations(Clients)
=============================================================================
