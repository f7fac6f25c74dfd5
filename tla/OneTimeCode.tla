----------------------------- MODULE OneTimeCode -----------------------------
(***************************************************************************)
(* What one-time codes promise: a contact has one code at a time, the one  *)
(* issued last; it is accepted once, in time, and within MaxTries guesses; *)
(* nothing but its time, a newer code or too many guesses takes it away.   *)
(***************************************************************************)
EXTENDS Naturals

CONSTANTS Contacts, Codes, NoCode, MaxTries

VARIABLES
  live,     \* the code each contact may use
  tries,    \* the guesses since it was issued
  used,     \* codes accepted
  expired   \* codes whose time is over

Init ==
  /\ live = [c \in Contacts |-> NoCode]
  /\ tries = [c \in Contacts |-> 0]
  /\ used = {} /\ expired = {}

Issue(c, k) ==
  /\ k \notin used \union expired
  /\ live' = [live EXCEPT ![c] = k] /\ tries' = [tries EXCEPT ![c] = 0]
  /\ UNCHANGED <<used, expired>>

Try(c) ==
  /\ tries[c] < MaxTries
  /\ tries' = [tries EXCEPT ![c] = @ + 1]
  /\ UNCHANGED <<live, used, expired>>

Accept(c) ==
  /\ live[c] # NoCode
  /\ used' = used \union {live[c]} /\ live' = [live EXCEPT ![c] = NoCode]
  /\ UNCHANGED <<tries, expired>>

\* One guess too many.
Void(c) ==
  /\ tries[c] = MaxTries
  /\ live' = [live EXCEPT ![c] = NoCode] /\ tries' = [tries EXCEPT ![c] = 0]
  /\ UNCHANGED <<used, expired>>

Expire(k) ==
  /\ expired' = expired \union {k}
  /\ live' = [c \in Contacts |-> IF live[c] = k THEN NoCode ELSE live[c]]
  /\ UNCHANGED <<tries, used>>

\* Guesses are forgotten when there is nothing left to guess.
Forget(c) ==
  /\ live[c] = NoCode
  /\ tries' = [tries EXCEPT ![c] = 0]
  /\ UNCHANGED <<live, used, expired>>

Next ==
  \/ \E c \in Contacts : Try(c) \/ Accept(c) \/ Void(c) \/ Forget(c)
  \/ \E c \in Contacts, k \in Codes : Issue(c, k)
  \/ \E k \in Codes : Expire(k)

Spec == Init /\ [][Next]_<<live, tries, used, expired>>
=============================================================================
