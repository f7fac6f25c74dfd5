--------------------------- MODULE MCFamilyGroups ---------------------------
(* FamilyGroups under four kinds of behaviour: requests overlap; they come   *)
(* one at a time; they come one at a time and users spend; they come one at  *)
(* a time and users change their numbers.                                    *)
EXTENDS FamilyGroups, TLC

CONSTANTS ana, ben, cleo, n1, n2, n3, plus, bare

Phone(n) == [number |-> n, spelling |-> plus]
ThreePhones == ana :> Phone(n1) @@ ben :> Phone(n2) @@ cleo :> Phone(n3)
Earnings    == ana :> 2 @@ ben :> 1 @@ cleo :> 1
OwnNames    == [u \in Users |-> u]

\* Sign-up writes every number one way and looks the account up by it: users
\* start with different numbers (verify_otp, users.phone is unique).
ASSUME OneAccountPerNumber ==
  \A u, v \in Users : FirstPhone[u].number = FirstPhone[v].number => u = v

VARIABLE habit
Within(t) ==
  \/ job'[t] = Idle
  \/ habit = "overlap"
  \/ \A s \in Threads \ {t} : job'[s] = Idle
HabitInit == Init /\ habit \in {"overlap", "one", "spend", "move"}
\* The third user takes part where nothing else makes the states many.
WithoutCleo ==
  /\ \A t \in Threads : job'[t].user # cleo /\ job'[t].number # n3
  /\ \A u \in {ana, ben} : phone'[u].number # n3
  /\ phone'[cleo] = phone[cleo] /\ spent'[cleo] = 0 /\ \A g \in Groups : book'[g][cleo] = 0
HabitNext ==
  /\ Next /\ UNCHANGED habit
  /\ habit \in {"spend", "move"} => \E r \in Rows : rows'[r] = Unborn
  /\ habit # "spend" => UNCHANGED <<spent, book>>
  /\ IF habit = "move"
     THEN phone'[ben] = phone[ben] /\ \A t \in Threads : job'[t].at # "share"
     ELSE UNCHANGED phone
  /\ habit # "one" => WithoutCleo
  /\ \A t \in Threads : Within(t)
HabitSpec == HabitInit /\ [][HabitNext]_<<vars, habit>>

\* What is not said of every kind of behaviour is said of the kinds it is true of.
InTurn == habit # "overlap"

\* A user founds one family at most and a number is in a family once (see
\* FoundsOne, NumberOnce), where requests do not overlap.
NoDoublesInTurn == InTurn => FoundsOne /\ NumberOnce

\* See JoinedIsSeen: the lookup is by number, and a changed number loses it.
JoinedIsSeenUnmoved == habit # "move" => JoinedIsSeen

\* See HouseholdWithinMeans: it takes one row per member.
MeansInTurn == habit \in {"one", "spend"} => HouseholdWithinMeans

Symmetry == Permutations(Groups) \union Permutations(Rows) \union Permutations(Threads)
=============================================================================
