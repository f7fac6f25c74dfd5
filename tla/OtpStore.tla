------------------------------ MODULE OtpStore ------------------------------
(***************************************************************************)
(* One-time codes for login and password reset (api/v1/auth/service.py):   *)
(* a code is kept in Redis, or in Postgres when a call to Redis fails, and *)
(* looked for in the same order.  Redis also counts how often a contact is *)
(* sent a code and how often one is guessed; a count that cannot be read   *)
(* lets the request through.                                               *)
(*                                                                         *)
(* Every call to a store is a step.  A contact is an identifier with its   *)
(* purpose; a code is a value no other issue has.                          *)
(***************************************************************************)
EXTENDS Naturals, FiniteSets

CONSTANTS
  Contacts, Codes, NoCode,
  MaxTries,   \* OTP_MAX_VERIFY_ATTEMPTS
  MaxSends,   \* OTP_SEND_MAX_PER_WINDOW
  Threads, NoContact

ASSUME OtpAssumption ==
  /\ MaxTries \in Nat \ {0} /\ MaxSends \in Nat \ {0}
  /\ NoCode \notin Codes /\ NoContact \notin Contacts

VARIABLES
  up,        \* whether calls to Redis succeed
  cache,     \* otp:<contact> in Redis
  attempts,  \* otp_attempts:<contact> in Redis
  cooldown,  \* contacts whose otp_send_cooldown key is there
  sends,     \* otp_send_count:<contact>
  table,     \* otp_codes in Postgres: the codes of each contact
  expired,   \* codes whose time is over
  known,     \* codes that reached their contact
  job,       \* what each API thread is doing
  accepted,  \* history: how often each code was accepted
  tried      \* history: how often each code was compared with a guess

kept == <<up, cache, attempts, cooldown, sends, table, expired>>
vars == <<kept, known, job, accepted, tried>>

Idle == [at |-> "idle", contact |-> NoContact, code |-> NoCode, rows |-> {}]
Job  == [at : {"idle", "count", "store", "clear", "insert", "send",
               "read", "match", "find", "take"},
         contact : Contacts \union {NoContact}, code : Codes \union {NoCode},
         rows : SUBSET Codes]

Works(t, j) == job' = [job EXCEPT ![t] = j]
Finish(t) == Works(t, Idle)
Goes(t, at) == Works(t, [job[t] EXCEPT !.at = at])

Issued == {k \in Codes : k \in expired \union known \/ accepted[k] + tried[k] > 0
             \/ (\E c \in Contacts : k = cache[c] \/ k \in table[c])
             \/ \E t \in Threads : job[t].code = k}

Init ==
  /\ up \in BOOLEAN
  /\ cache = [c \in Contacts |-> NoCode]
  /\ attempts = [c \in Contacts |-> 0]
  /\ cooldown = {} /\ sends = [c \in Contacts |-> 0]
  /\ table = [c \in Contacts |-> {}]
  /\ expired = {} /\ known = {}
  /\ job = [t \in Threads |-> Idle]
  /\ accepted = [k \in Codes |-> 0] /\ tried = [k \in Codes |-> 0]

-----------------------------------------------------------------------------
(* Sending: the cooldown is looked at, the send counted and the cooldown    *)
(* set, the code stored, the message sent.                                  *)

SendStart(t, c, k) ==
  /\ job[t] = Idle /\ k \notin Issued
  /\ up => c \notin cooldown
  /\ Works(t, [Idle EXCEPT !.at = IF up THEN "count" ELSE "store", !.contact = c, !.code = k])
  /\ UNCHANGED <<kept, known, accepted, tried>>

SendCount(t) ==
  LET c == job[t].contact
  IN /\ job[t].at = "count"
     /\ IF ~up
        THEN Goes(t, "store") /\ UNCHANGED <<sends, cooldown>>
        ELSE /\ sends' = [sends EXCEPT ![c] = IF @ > MaxSends THEN @ ELSE @ + 1]
             /\ IF sends[c] >= MaxSends
                THEN Finish(t) /\ UNCHANGED cooldown
                ELSE Goes(t, "store") /\ cooldown' = cooldown \union {c}
     /\ UNCHANGED <<up, cache, attempts, table, expired, known, accepted, tried>>

StoreInRedis(t) ==
  LET c == job[t].contact
  IN /\ job[t].at = "store"
     /\ IF up THEN cache' = [cache EXCEPT ![c] = job[t].code] /\ Goes(t, "clear")
              ELSE UNCHANGED cache /\ Works(t, [job[t] EXCEPT !.at = "insert", !.rows = table[c]])
     /\ UNCHANGED <<up, attempts, cooldown, sends, table, expired, known, accepted, tried>>

\* The guesses are forgotten; if that fails, the code goes to Postgres as well.
StoreClear(t) ==
  LET c == job[t].contact
  IN /\ job[t].at = "clear"
     /\ IF up THEN attempts' = [attempts EXCEPT ![c] = 0] /\ Goes(t, "send")
              ELSE UNCHANGED attempts /\ Works(t, [job[t] EXCEPT !.at = "insert", !.rows = table[c]])
     /\ UNCHANGED <<up, cache, cooldown, sends, table, expired, known, accepted, tried>>

StoreInsertKeepsOld(t) ==                \* mutant: older codes stay
  LET c == job[t].contact
  IN /\ job[t].at = "insert"
     /\ table' = [table EXCEPT ![c] = @ \union {job[t].code}]
     /\ attempts' = IF up THEN [attempts EXCEPT ![c] = 0] ELSE attempts
     /\ Works(t, [job[t] EXCEPT !.at = "send", !.rows = {}])
     /\ UNCHANGED <<up, cache, cooldown, sends, expired, known, accepted, tried>>

\* The rows that were there are deleted and the code inserted, one commit.
StoreInsert(t) ==
  LET c == job[t].contact
  IN /\ job[t].at = "insert"
     /\ table' = [table EXCEPT ![c] = (@ \ job[t].rows) \union {job[t].code}]
     /\ attempts' = IF up THEN [attempts EXCEPT ![c] = 0] ELSE attempts
     /\ Works(t, [job[t] EXCEPT !.at = "send", !.rows = {}])
     /\ UNCHANGED <<up, cache, cooldown, sends, expired, known, accepted, tried>>

\* Delivery may fail; the code stays stored and the cooldown set.
Send(t) ==
  /\ job[t].at = "send"
  /\ known' \in {known, known \union {job[t].code}}
  /\ Finish(t)
  /\ UNCHANGED <<kept, accepted, tried>>

-----------------------------------------------------------------------------
(* Verifying: the guess is counted, the code read from Redis and deleted if *)
(* it is the one, or looked for in Postgres if Redis has none.              *)

VerifyStartForgets(t, c, k) ==           \* mutant: the code survives the last guess
  /\ job[t] = Idle
  /\ attempts' = [attempts EXCEPT ![c] = IF ~up THEN @ ELSE IF @ >= MaxTries THEN 0 ELSE @ + 1]
  /\ IF up /\ attempts[c] >= MaxTries THEN UNCHANGED job
     ELSE Works(t, [Idle EXCEPT !.at = "read", !.contact = c, !.code = k])
  /\ UNCHANGED <<up, cache, table, cooldown, sends, expired, known, accepted, tried>>

VerifyStart(t, c, k) ==
  /\ job[t] = Idle
  /\ IF up /\ attempts[c] >= MaxTries
     THEN /\ cache' = [cache EXCEPT ![c] = NoCode]
          /\ attempts' = [attempts EXCEPT ![c] = 0]
          /\ table' = [table EXCEPT ![c] = {}]
          /\ UNCHANGED job
     ELSE /\ attempts' = IF up THEN [attempts EXCEPT ![c] = @ + 1] ELSE attempts
          /\ Works(t, [Idle EXCEPT !.at = "read", !.contact = c, !.code = k])
          /\ UNCHANGED <<cache, table>>
  /\ UNCHANGED <<up, cooldown, sends, expired, known, accepted, tried>>

VerifyRead(t) ==
  LET found == cache[job[t].contact]
  IN /\ job[t].at = "read"
     /\ CASE ~up \/ found = NoCode -> Goes(t, "find") /\ UNCHANGED tried
          [] OTHER ->
               /\ IF found = job[t].code THEN Goes(t, "match") ELSE Finish(t)
               /\ tried' = [tried EXCEPT ![found] = @ + 1]
     /\ UNCHANGED <<kept, known, accepted>>

\* The key is deleted and the guess accepted; if that fails, Postgres is asked.
VerifyMatch(t) ==
  /\ job[t].at = "match"
  /\ IF up
     THEN /\ cache' = [cache EXCEPT ![job[t].contact] = NoCode]
          /\ accepted' = [accepted EXCEPT ![job[t].code] = @ + 1]
          /\ Finish(t)
     ELSE Goes(t, "find") /\ UNCHANGED <<cache, accepted>>
  /\ UNCHANGED <<up, attempts, cooldown, sends, table, expired, known, tried>>

\* Whether the row is in time is decided when it is read.
VerifyFind(t) ==
  LET c == job[t].contact
      k == job[t].code
  IN /\ job[t].at = "find"
     /\ IF k \in table[c]
        THEN Works(t, [job[t] EXCEPT !.at = "take", !.rows = table[c],
                                     !.code = IF k \in expired THEN NoCode ELSE k])
        ELSE Finish(t)
     /\ UNCHANGED <<kept, known, accepted, tried>>

\* All the contact's rows are deleted, and the guess accepted if in time.
VerifyTake(t) ==
  LET c == job[t].contact
      k == job[t].code
  IN /\ job[t].at = "take"
     /\ table' = [table EXCEPT ![c] = @ \ job[t].rows]
     /\ accepted' = IF k = NoCode THEN accepted ELSE [accepted EXCEPT ![k] = @ + 1]
     /\ Finish(t)
     /\ UNCHANGED <<up, cache, attempts, cooldown, sends, expired, known, tried>>

-----------------------------------------------------------------------------
(* Time and failures.                                                       *)

Expire(k) ==
  /\ k \in Issued \ expired
  /\ expired' = expired \union {k}
  /\ cache' = [c \in Contacts |-> IF cache[c] = k THEN NoCode ELSE cache[c]]
  /\ UNCHANGED <<up, attempts, cooldown, sends, table, known, job, accepted, tried>>

\* A login code expires no later than the counter its first guess started.
AttemptsExpire(c) ==
  /\ attempts[c] > 0 /\ cache[c] = NoCode /\ table[c] \subseteq expired
  /\ attempts' = [attempts EXCEPT ![c] = 0]
  /\ UNCHANGED <<up, cache, cooldown, sends, table, expired, known, job, accepted, tried>>

CooldownEnds(c) ==
  /\ c \in cooldown /\ cooldown' = cooldown \ {c}
  /\ UNCHANGED <<up, cache, attempts, sends, table, expired, known, job, accepted, tried>>

WindowEnds(c) ==
  /\ sends[c] > 0 /\ sends' = [sends EXCEPT ![c] = 0]
  /\ UNCHANGED <<up, cache, attempts, cooldown, table, expired, known, job, accepted, tried>>

RedisTurns ==
  /\ up' = ~up
  /\ UNCHANGED <<cache, attempts, cooldown, sends, table, expired, known, job, accepted, tried>>

Dies(t) ==
  /\ job[t] # Idle /\ Finish(t)
  /\ UNCHANGED <<kept, known, accepted, tried>>

Step(t) ==
  \/ \E c \in Contacts, k \in Codes : SendStart(t, c, k)
  \/ \E c \in Contacts, k \in known \union {NoCode} : VerifyStart(t, c, k)
  \/ SendCount(t) \/ StoreInRedis(t) \/ StoreClear(t) \/ StoreInsert(t) \/ Send(t)
  \/ VerifyRead(t) \/ VerifyMatch(t) \/ VerifyFind(t) \/ VerifyTake(t)
  \/ Dies(t)

Next ==
  \/ \E t \in Threads : Step(t)
  \/ \E k \in Codes : Expire(k)
  \/ \E c \in Contacts : AttemptsExpire(c) \/ CooldownEnds(c) \/ WindowEnds(c)
  \/ RedisTurns

Spec == Init /\ [][Next]_vars
-----------------------------------------------------------------------------
TypeOK ==
  /\ up \in BOOLEAN
  /\ cache \in [Contacts -> Codes \union {NoCode}]
  /\ attempts \in [Contacts -> 0 .. MaxTries]
  /\ cooldown \subseteq Contacts /\ sends \in [Contacts -> 0 .. MaxSends + 1]
  /\ table \in [Contacts -> SUBSET Codes]
  /\ expired \subseteq Codes /\ known \subseteq Codes
  /\ job \in [Threads -> Job]
  /\ accepted \in [Codes -> Nat] /\ tried \in [Codes -> Nat]

=============================================================================
