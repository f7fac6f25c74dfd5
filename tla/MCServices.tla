----------------------------- MODULE MCServices -----------------------------
(* Notices, ReceiptScan, SavingsPots, StripeBilling and ItemCategorizer,      *)
(* which share nothing, in one run, one kind of behaviour at a time:          *)
(* reminders, by one worker that may die; an inbox whose requests come one at *)
(* a time; scans that compete for the keys; one thread that pays into goals   *)
(* while another edits them; a card that Stripe charges; an expense filed     *)
(* while categories and keywords come and go.                                 *)
EXTENDS Notices, Sequences, TLC

CONSTANTS NumKeys, Quota, MaxRetries, Heights, Lookback, Scanners,
          Goals, Targets, MaxSaved, Savers, NoGoal, payer,
          StripeSubs, PaidPlans, FreePlan, MaxInvoices, MaxWire, NoRow, NoSub, NoEvent,
          Housemates, Groups, FamilyOf, Cats, Owner, Family, Parent, Level, General,
          Texts, Blank, Long, Spaced, Within, Tokens, Length, Named,
          Filers, Bills, Words, NoGroup, NoCat,
          ann, bob, flat, food, dairy, misc, home, cot, filer
VARIABLES quota, turn, scan, goals, till, given, habit,
          stripe, wire, last, row, invoices, recorded, chosen,
          kept, words, filed, filing

scanVars == <<quota, turn, scan>>
potVars  == <<goals, till, given>>
stripeVars == <<stripe, wire, last, row, invoices, recorded, chosen>>
guessVars == <<kept, words, filed, filing>>

\* A strip shows two lines, the second of which the next strip shows too.
LinesOf(h, i) == IF h = 0 THEN <<>> ELSE <<i, i + 1>>
Alike(x, y) == x = y

Scans == INSTANCE ReceiptScan
Pots  == INSTANCE SavingsPots
Card  == INSTANCE StripeBilling

\* Photos have a height, and a strip's lines are compared with some before them.
ASSUME ScanAssumption == Heights \subseteq Nat /\ Lookback \in Nat \ {0}

\* Amounts are natural numbers, and the marks are no goals.
ASSUME PotsAssumption ==
  /\ MaxSaved \in Nat \ {0}
  /\ Unborn \notin Pots!Goal /\ Gone \notin Pots!Goal /\ Unborn # Gone

\* What marks an absence is no record of Stripe's or of the database.
ASSUME StripeAssumption ==
  /\ MaxInvoices \in Nat
  /\ Unborn \notin Card!Subscription /\ NoRow \notin Card!Row
  /\ NoEvent \notin Card!StripeEvent /\ NoSub \notin StripeSubs

Guess == INSTANCE ItemCategorizer WITH Users <- Housemates, Expenses <- Bills

\* Words are finite in number, categories lie in a tree and have a depth, texts a
\* length, and the marks are no keywords.
ASSUME GuessAssumption ==
  /\ IsFiniteSet(Words) /\ Level \in [Cats -> Nat] /\ Length \in [Texts -> Nat]
  /\ Parent \in [Cats -> Cats \union {NoCat}] /\ NoCat \notin Cats
  /\ Unborn \notin Guess!Word /\ Gone \notin Guess!Word /\ Unborn # Gone

\* Ann has a personal tree and that of a family, in which Bob made a category of
\* his own; "milk" is a word of "milk.pack".
SameFlat   == [u \in Housemates |-> flat]
MadeBy     == [c \in Cats |-> IF c = cot THEN bob ELSE ann]
SharedBy   == [c \in Cats |-> IF c = home THEN flat ELSE NoGroup]
Above      == [c \in Cats |-> IF c = dairy THEN food ELSE IF c = cot THEN home ELSE NoCat]
Depth      == [c \in Cats |-> IF c \in {dairy, cot} THEN 1 ELSE 0]
Parts      == [t \in Texts |-> {"milk", t}]
Found      == [t \in Texts |-> {"milk"}]
Chars      == [t \in Texts |-> IF t = "milk" THEN 4 ELSE 9]
Called     == [t \in Texts |-> IF t = "milk" THEN {dairy, home} ELSE {}]

\* Subscriptions are tracked on the first day, and one is written once more, its
\* date set no earlier; one note is deleted; ids of notes are taken in order;
\* summaries come before all else; nobody opens the inbox.
Writing == {s \in Subs : subs[s] # subs'[s]}
Reminding ==
  /\ NoticesNext /\ UNCHANGED page
  /\ \A s \in Writing : IF subs[s] = Unborn THEN day = 0 /\ subs'[s].due > 1
                        ELSE /\ day > 0 /\ \A r \in Subs : seen[r] = 0 /\ subs[r] # Gone
                             /\ IF subs'[s] = Gone THEN TRUE ELSE subs'[s].due >= subs[s].due
  /\ \A n \in Notes : notes'[n] \in Note => ~ notes'[n].read
  /\ Cardinality({n \in Notes : notes'[n] = Gone}) <= 1
  /\ \A m, n \in Notes : m < n /\ notes'[m] = Unborn => notes'[n] = Unborn
  /\ queue'["reminders"] <= 1
  /\ \A k \in {"weekly", "monthly"} : queue[k] > 0 => queue'[k] = 0
Reading ==
  /\ NoticesNext /\ UNCHANGED <<subs, queue, work, day>>
  /\ \A r \in Readers : page'[r] = Idle \/ \A q \in Readers \ {r} : page'[q] = Idle
Paying ==
  /\ Pots!PotsNext
  /\ \A p \in Savers \ {payer} : till'[p].at # "contribute"
\* One thread teaches three categories and the other files, for Ann; ids are
\* taken in order; one category, with those below, and one keyword are deleted, and all ends
\* when the expense is filed.
Filing ==
  /\ \A e \in Bills : filed[e] = Unborn
  /\ Guess!GuessNext
  /\ filing'[filer].at # "word" /\ filing'[filer].book # Unborn => filing'[filer].book.user = ann
  /\ filing'[filer].how = "bulk" => filing'[filer].text = "milk.pack"
  /\ \A t \in Filers \ {filer} :
       filing'[t].at \in {"idle", "word"} /\ filing'[t].cat \in {food, dairy, home, NoCat}
  /\ kept # kept' => kept = Cats
  /\ kept' = kept => Cardinality({r \in Words : words'[r] = Gone}) <= 1
  /\ \A q, r \in Words : q < r /\ words'[q] = Unborn => words'[r] = Unborn

ServicesInit ==
  /\ NoticesInit /\ Scans!InitScan /\ Pots!PotsInit /\ Card!StripeInit
  /\ Guess!GuessInit
  /\ habit \in {"remind", "inbox", "scan", "pots", "stripe", "guess"}
  /\ habit # "stripe" => row = NoRow
ServicesNext ==
  /\ UNCHANGED habit
  /\ CASE habit \in {"remind", "inbox"} ->
            (IF habit = "remind" THEN Reminding ELSE Reading) /\ UNCHANGED <<scanVars, potVars, stripeVars, guessVars>>
       [] habit = "scan" -> Scans!ScanNext /\ UNCHANGED <<noticeVars, potVars, stripeVars, guessVars>>
       [] habit = "pots" -> Paying /\ UNCHANGED <<noticeVars, scanVars, stripeVars, guessVars>>
       [] habit = "stripe" -> Card!StripeNext /\ UNCHANGED <<noticeVars, scanVars, potVars, guessVars>>
       [] habit = "guess" -> Filing /\ UNCHANGED <<noticeVars, scanVars, potVars, stripeVars>>
ServicesSpec == ServicesInit /\ [][ServicesNext]_<<noticeVars, scanVars, potVars, stripeVars, guessVars, habit>>

\* Lines are whole in some strip and listed once (_split_into_strips,
\* _dedupe_self, _dedupe_boundary).
EachLineOnce == Scans!EachLineOnce

\* A scan that every key refused is told to wait (process_image).
RateLimitTold == Scans!RateLimitTold

\* Where one thread pays in, a goal holds what was paid (add_contribution).
SavedIsGiven == Pots!SavedIsGiven

\* When Stripe's events have arrived the row says what Stripe says
\* (handle_webhook).
RowFollowsStripe == Card!RowFollowsStripe

\* What has been taught a description is kept to (suggest_category,
\* learn_keyword).
FiledAsTaught == Guess!FiledAsTaught

Symmetry == Permutations(Subs) \union Permutations(Scanners)
            \union Permutations(StripeSubs) \union Permutations(PaidPlans)
=============================================================================
