---------------------------- MODULE LoginLockout ----------------------------
(***************************************************************************)
(* The limits around a login with a password (core/rate_limit.py, POST     *)
(* /auth/login): calls of an address are counted in a window, failures of  *)
(* an address and of an account lock it for a while, and the administrator *)
(* is told once.  Redis keeps the counters; each of its commands is atomic,*)
(* and other requests come in between.                                     *)
(***************************************************************************)
EXTENDS Naturals, FiniteSets

CONSTANTS
  Ips, Logins,       \* addresses, and the accounts named in a login
  Limit,             \* failures before each is locked
  MaxCalls,          \* calls of an address in a window
  Clients, NoKey     \* threads serving a login

Keys == Ips \union Logins

VARIABLES
  calls,   \* rl:login:ip:<ip>
  fails,   \* failcount:<key>
  locks,   \* lock:<key>
  told,    \* alerted:lockout:<key>: the administrator got a mail this hour
  try,     \* what each thread is doing
  misses   \* history: wrong passwords since the last success, lock or window

lockVars == <<calls, fails, locks, told, try, misses>>

Idle == [at |-> "idle", ip |-> NoKey, login |-> NoKey, count |-> 0]

Works(t, j) == try' = [try EXCEPT ![t] = j]
Finish(t) == Works(t, Idle)
Goes(t, at) == Works(t, [try[t] EXCEPT !.at = at])

Init ==
  /\ calls = [i \in Ips |-> 0]
  /\ fails = [k \in Keys |-> 0] /\ locks = {} /\ told = {}
  /\ try = [t \in Clients |-> Idle]
  /\ misses = [k \in Keys |-> 0]

\* The call is counted, then the address must not be locked.
Arrive(t, i, l) ==
  /\ try[t] = Idle /\ calls[i] <= MaxCalls
  /\ calls' = [calls EXCEPT ![i] = @ + 1]
  /\ IF calls[i] < MaxCalls /\ i \notin locks
     THEN Works(t, [Idle EXCEPT !.at = "check", !.ip = i, !.login = l])
     ELSE UNCHANGED try
  /\ UNCHANGED <<fails, locks, told, misses>>

CheckLate(t, good) ==                    \* mutant: a right password passes a lock
  LET l == try[t].login
  IN /\ try[t].at = "check"
     /\ CASE good                   -> Goes(t, "clear.ip") /\ UNCHANGED misses
          [] l \in locks /\ ~ good   -> Finish(t) /\ UNCHANGED misses
          [] OTHER -> /\ Goes(t, "fail.ip")
                      /\ misses' = [k \in Keys |-> IF k \in {l, try[t].ip}
                                                   THEN misses[k] + 1 ELSE misses[k]]
     /\ UNCHANGED <<calls, fails, locks, told>>

\* A locked account is refused, and nothing counted or cleared.
Check(t, good) ==
  LET l == try[t].login
  IN /\ try[t].at = "check"
     /\ CASE l \in locks            -> Finish(t) /\ UNCHANGED misses
          [] l \notin locks /\ good -> Goes(t, "clear.ip") /\ UNCHANGED misses
          [] OTHER -> /\ Goes(t, "fail.ip")
                      /\ misses' = [k \in Keys |-> IF k \in {l, try[t].ip}
                                                   THEN misses[k] + 1 ELSE misses[k]]
     /\ UNCHANGED <<calls, fails, locks, told>>

\* record_success, of the address and then of the account: a lock that another
\* thread has set goes too.
Clear(t) ==
  LET k == IF try[t].at = "clear.ip" THEN try[t].ip ELSE try[t].login
  IN /\ try[t].at \in {"clear.ip", "clear.login"}
     /\ fails' = [fails EXCEPT ![k] = 0] /\ locks' = locks \ {k}
     /\ misses' = [misses EXCEPT ![k] = 0]
     /\ IF try[t].at = "clear.ip" THEN Goes(t, "clear.login") ELSE Finish(t)
     /\ UNCHANGED <<calls, told>>

FailAnew(t) ==                           \* mutant: each failure starts the count anew
  LET k == IF try[t].at = "fail.ip" THEN try[t].ip ELSE try[t].login
  IN /\ try[t].at \in {"fail.ip", "fail.login"}
     /\ fails' = [fails EXCEPT ![k] = 1]
     /\ Works(t, [try[t] EXCEPT !.count = 1,
                                !.at = IF @ = "fail.ip" THEN "lock.ip" ELSE "lock.login"])
     /\ UNCHANGED <<calls, locks, told, misses>>

\* record_failure, of the address and then of the account: the count first.
Fail(t) ==
  LET k == IF try[t].at = "fail.ip" THEN try[t].ip ELSE try[t].login
  IN /\ try[t].at \in {"fail.ip", "fail.login"}
     /\ fails' = [fails EXCEPT ![k] = @ + 1]
     /\ Works(t, [try[t] EXCEPT !.count = fails'[k],
                                !.at = IF @ = "fail.ip" THEN "lock.ip" ELSE "lock.login"])
     /\ UNCHANGED <<calls, locks, told, misses>>

\* At the limit the lock is set, the count deleted; whoever counted the limit
\* itself tells the administrator.
Lock(t) ==
  LET k == IF try[t].at = "lock.ip" THEN try[t].ip ELSE try[t].login
  IN /\ try[t].at \in {"lock.ip", "lock.login"}
     /\ IF try[t].count >= Limit[k]
        THEN /\ locks' = locks \union {k} /\ fails' = [fails EXCEPT ![k] = 0]
             /\ told' = IF try[t].count = Limit[k] THEN told \union {k} ELSE told
             /\ misses' = [misses EXCEPT ![k] = 0]
        ELSE UNCHANGED <<locks, fails, told, misses>>
     /\ IF try[t].at = "lock.ip" THEN Goes(t, "fail.login") ELSE Finish(t)
     /\ UNCHANGED calls

WindowEnds(i) ==
  /\ calls[i] > 0 /\ calls' = [calls EXCEPT ![i] = 0]
  /\ UNCHANGED <<fails, locks, told, try, misses>>

FailsExpire(k) ==
  /\ fails[k] > 0 /\ fails' = [fails EXCEPT ![k] = 0] /\ misses' = [misses EXCEPT ![k] = 0]
  /\ UNCHANGED <<calls, locks, told, try>>

Pending(k) == {t \in Clients : try[t].at # "idle" /\ k \in {try[t].ip, try[t].login}}

\* A request takes less time than a lock, a lock less than the mail's hour.
LockEnds(k) ==
  /\ k \in locks /\ Pending(k) = {} /\ locks' = locks \ {k}
  /\ UNCHANGED <<calls, fails, told, try, misses>>

HourEnds(k) ==
  /\ k \in told \ locks /\ Pending(k) = {} /\ told' = told \ {k}
  /\ UNCHANGED <<calls, fails, locks, try, misses>>

Step(t) ==
  \/ \E i \in Ips, l \in Logins : Arrive(t, i, l)
  \/ \E good \in BOOLEAN : Check(t, good)
  \/ Clear(t) \/ Fail(t) \/ Lock(t)

Next ==
  \/ \E t \in Clients : Step(t)
  \/ \E i \in Ips : WindowEnds(i)
  \/ \E k \in Keys : FailsExpire(k) \/ LockEnds(k) \/ HourEnds(k)

Spec == Init /\ [][Next]_lockVars
-----------------------------------------------------------------------------
\* An account or address is locked by Limit wrong passwords, and no more are
\* tried on it than those that others had begun (track_outcome, record_failure).
MissesBounded == \A k \in Keys : misses[k] < Limit[k] + Cardinality(Clients)
=============================================================================
