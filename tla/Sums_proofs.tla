----------------------------- MODULE Sums_proofs -----------------------------
(***************************************************************************)
(* What MapThenSumSet of FiniteSetsExt computes.  It is a recursion over   *)
(* subsets, by the element CHOOSE picks; the lemmas say that it is defined *)
(* on finite sets, and that the order of the elements does not matter.     *)
(* The induction is over strict inclusion: of the subsets for which a      *)
(* lemma failed, one would be smallest.                                    *)
(***************************************************************************)
EXTENDS Naturals, FiniteSets, FiniteSetsExt, FiniteSetTheorems, WellFoundedInduction, TLAPS

SumOf(f, S) == MapThenSumSet(LAMBDA x : f[x], S)

\* One unfolding of the recursion, and a function that satisfies it.
Chosen(S) == CHOOSE x \in S : TRUE
Unfolded(f, S, g) ==
  [U \in SUBSET S |-> IF U = {} THEN 0 ELSE f[Chosen(U)] + g[U \ {Chosen(U)}]]
Solves(f, S, g) == g = Unfolded(f, S, g)

\* Among finite sets one is smallest.
LEMMA Smallest ==
  ASSUME NEW T, \A U \in T : IsFiniteSet(U), T # {}
  PROVE  \E U \in T : \A V \in T : V \subseteq U => V = U
<1> DEFINE S == UNION T
<1>1. T \subseteq FiniteSubsetsOf(S)
  BY DEF FiniteSubsetsOf
<1>2. PICK U \in T : \A V \in T : ~ (<<V, U>> \in StrictSubsetOrdering(S))
  BY <1>1, FS_StrictSubsetOrderingWellFounded, WFMin
<1> QED
  BY <1>2 DEF StrictSubsetOrdering

\* The choice from a set is in it.
LEMMA ChosenIn ==
  ASSUME NEW S, S # {}
  PROVE  Chosen(S) \in S
<1>1. \E x \in S : TRUE
  OBVIOUS
<1> QED
  BY <1>1, Zenon DEF Chosen

\* What a solution says of a subset.
LEMMA Unfold ==
  ASSUME NEW f, NEW S, NEW g, Solves(f, S, g), NEW U \in SUBSET S
  PROVE  g[U] = IF U = {} THEN 0 ELSE f[Chosen(U)] + g[U \ {Chosen(U)}]
<1>1. Unfolded(f, S, g)[U] = IF U = {} THEN 0 ELSE f[Chosen(U)] + g[U \ {Chosen(U)}]
  BY DEF Unfolded
<1> QED
  BY <1>1 DEF Solves

\* Solutions agree where both are defined.
LEMMA Agreed ==
  ASSUME NEW f, NEW S, NEW g, NEW k, NEW U, IsFiniteSet(U), U \subseteq S,
         Solves(f, S, g), Solves(f, U, k)
  PROVE  g[U] = k[U]
<1> DEFINE T == {V \in SUBSET U : g[V] # k[V]}
<1>1. SUFFICES ASSUME T # {} PROVE FALSE
  OBVIOUS
<1>2. \A V \in T : IsFiniteSet(V)
  BY FS_Subset
<1>3. PICK V \in T : \A W \in T : W \subseteq V => W = V
  <2> HIDE DEF T
  <2> QED
    BY <1>1, <1>2, Smallest
<1>4. V \in SUBSET S /\ V \in SUBSET U /\ g[V] # k[V]
  OBVIOUS
<1>5. V # {}
  BY <1>4, Unfold
<1>6. Chosen(V) \in V
  BY <1>5, ChosenIn
<1>7. V \ {Chosen(V)} \notin T
  BY <1>3, <1>6
<1>8. g[V \ {Chosen(V)}] = k[V \ {Chosen(V)}]
  BY <1>4, <1>7
<1>9. g[V] = f[Chosen(V)] + g[V \ {Chosen(V)}] /\ k[V] = f[Chosen(V)] + k[V \ {Chosen(V)}]
  BY <1>4, <1>5, Unfold
<1> QED
  BY <1>4, <1>8, <1>9

\* The recursion has a solution on finite sets.
LEMMA Solvable ==
  ASSUME NEW f, NEW S, IsFiniteSet(S)
  PROVE  \E g : Solves(f, S, g)
<1> DEFINE T == {U \in SUBSET S : ~ \E g : Solves(f, U, g)}
<1>1. SUFFICES ASSUME T # {} PROVE FALSE
  OBVIOUS
<1>2. \A V \in T : IsFiniteSet(V)
  BY FS_Subset
<1>3. PICK U \in T : \A W \in T : W \subseteq U => W = U
  <2> HIDE DEF T
  <2> QED
    BY <1>1, <1>2, Smallest
<1>4. U \in SUBSET S /\ ~ \E g : Solves(f, U, g)
  OBVIOUS
<1> DEFINE Best(V) == CHOOSE g : Solves(f, V, g)
           h == [V \in SUBSET U |-> IF V = {} THEN 0
                   ELSE f[Chosen(V)] + Best(V \ {Chosen(V)})[V \ {Chosen(V)}]]
<1>5. ASSUME NEW V \in SUBSET U, V # U PROVE Solves(f, V, Best(V)) /\ IsFiniteSet(V)
  <2>1. V \in SUBSET S /\ V \notin T
    BY <1>3, <1>4, <1>5
  <2>2. \E g : Solves(f, V, g)
    BY <2>1
  <2> HIDE DEF T
  <2>3. Solves(f, V, Best(V))
    BY <2>2, Zenon
  <2> QED
    BY <2>1, <2>3, FS_Subset
<1> HIDE DEF T, Best
<1>6. ASSUME NEW V \in SUBSET U, V # U PROVE Best(V)[V] = h[V]
  <2>1. Best(V)[V] = IF V = {} THEN 0 ELSE f[Chosen(V)] + Best(V)[V \ {Chosen(V)}]
    BY <1>5, <1>6, Unfold
  <2>2. CASE V = {}
    BY <2>1, <2>2
  <2>3. CASE V # {}
    <3>1. V \ {Chosen(V)} \subseteq V /\ V \ {Chosen(V)} \in SUBSET U /\ V \ {Chosen(V)} # U
      BY <1>6
    <3>2. Best(V)[V \ {Chosen(V)}] = Best(V \ {Chosen(V)})[V \ {Chosen(V)}]
      BY <1>5, <1>6, <3>1, Agreed
    <3> QED
      BY <2>1, <2>3, <3>2
  <2> QED
    BY <2>2, <2>3
<1>7. h = Unfolded(f, U, h)
  <2>1. ASSUME NEW V \in SUBSET U, V # {}
        PROVE  Best(V \ {Chosen(V)})[V \ {Chosen(V)}] = h[V \ {Chosen(V)}]
    <3>1. Chosen(V) \in V
      BY <2>1, ChosenIn
    <3>2. V \ {Chosen(V)} \in SUBSET U /\ V \ {Chosen(V)} # U
      BY <3>1
    <3> HIDE DEF h
    <3> QED
      BY <1>6, <3>2
  <2>2. ASSUME NEW V \in SUBSET U
        PROVE  h[V] = IF V = {} THEN 0 ELSE f[Chosen(V)] + h[V \ {Chosen(V)}]
    <3>1. h[V] = IF V = {} THEN 0
                 ELSE f[Chosen(V)] + Best(V \ {Chosen(V)})[V \ {Chosen(V)}]
      OBVIOUS
    <3> HIDE DEF h
    <3> QED
      BY <2>1, <3>1
  <2>3. h = [V \in SUBSET U |-> h[V]]
    OBVIOUS
  <2> HIDE DEF h
  <2>4. [V \in SUBSET U |-> h[V]] = Unfolded(f, U, h)
    BY <2>2 DEF Unfolded
  <2> QED
    BY <2>3, <2>4
<1> QED
  BY <1>4, <1>7 DEF Solves

\* A sum is the solution's value at the whole set.
LEMMA SumSolves ==
  ASSUME NEW f, NEW S, IsFiniteSet(S)
  PROVE  \E g : Solves(f, S, g) /\ SumOf(f, S) = g[S]
<1> DEFINE g == CHOOSE k : Solves(f, S, k)
<1>1. Solves(f, S, g)
  BY Solvable, Zenon
<1>2. SumOf(f, S) = g[S]
  BY Zenon DEF SumOf, MapThenSumSet, MapThenFoldSet, Solves, Unfolded, Chosen
<1> QED
  BY <1>1, <1>2

-----------------------------------------------------------------------------
(* How a sum is taken apart                                                 *)

\* A sum of nothing is 0.
LEMMA SumEmpty == ASSUME NEW f PROVE SumOf(f, {}) = 0
<1>1. PICK g : Solves(f, {}, g) /\ SumOf(f, {}) = g[{}]
  BY FS_EmptySet, SumSolves
<1> QED
  BY <1>1, Unfold

\* The chosen element is taken off.
LEMMA SumChosen ==
  ASSUME NEW f, NEW S, IsFiniteSet(S), S # {}
  PROVE  SumOf(f, S) = f[Chosen(S)] + SumOf(f, S \ {Chosen(S)})
<1>1. IsFiniteSet(S \ {Chosen(S)})
  BY FS_RemoveElement
<1>2. PICK g : Solves(f, S, g) /\ SumOf(f, S) = g[S]
  BY SumSolves
<1>3. PICK k : Solves(f, S \ {Chosen(S)}, k)
               /\ SumOf(f, S \ {Chosen(S)}) = k[S \ {Chosen(S)}]
  BY <1>1, SumSolves
<1>4. g[S] = f[Chosen(S)] + g[S \ {Chosen(S)}]
  BY <1>2, Unfold
<1>5. g[S \ {Chosen(S)}] = k[S \ {Chosen(S)}]
  BY <1>1, <1>2, <1>3, Agreed
<1> QED
  BY <1>2, <1>3, <1>4, <1>5

\* Sums of natural numbers are natural numbers.
LEMMA SumNat ==
  ASSUME NEW f, NEW S, IsFiniteSet(S), \A x \in S : f[x] \in Nat
  PROVE  SumOf(f, S) \in Nat
<1> DEFINE T == {U \in SUBSET S : SumOf(f, U) \notin Nat}
<1>1. SUFFICES ASSUME T # {} PROVE FALSE
  OBVIOUS
<1>2. \A V \in T : IsFiniteSet(V)
  BY FS_Subset
<1>3. PICK U \in T : \A W \in T : W \subseteq U => W = U
  <2> HIDE DEF T
  <2> QED
    BY <1>1, <1>2, Smallest
<1>4. U \in SUBSET S /\ SumOf(f, U) \notin Nat /\ IsFiniteSet(U)
  BY <1>2
<1>5. U # {}
  BY <1>4, SumEmpty
<1>6. Chosen(U) \in U /\ SumOf(f, U) = f[Chosen(U)] + SumOf(f, U \ {Chosen(U)})
  BY <1>4, <1>5, ChosenIn, SumChosen
<1>7. U \ {Chosen(U)} \notin T
  BY <1>3, <1>6
<1>8. SumOf(f, U \ {Chosen(U)}) \in Nat /\ f[Chosen(U)] \in Nat
  BY <1>4, <1>6, <1>7
<1> QED
  BY <1>4, <1>6, <1>8

\* Any element may be taken off.
LEMMA SumStep ==
  ASSUME NEW f, NEW S, IsFiniteSet(S), \A x \in S : f[x] \in Nat, NEW y \in S
  PROVE  SumOf(f, S) = f[y] + SumOf(f, S \ {y})
<1> DEFINE T == {U \in SUBSET S : \E x \in U : SumOf(f, U) # f[x] + SumOf(f, U \ {x})}
<1>1. SUFFICES ASSUME T # {} PROVE FALSE
  OBVIOUS
<1>2. \A V \in T : IsFiniteSet(V)
  BY FS_Subset
<1>3. PICK U \in T : \A W \in T : W \subseteq U => W = U
  <2> HIDE DEF T
  <2> QED
    BY <1>1, <1>2, Smallest
<1>4. U \in SUBSET S /\ IsFiniteSet(U)
  BY <1>2
<1>5. PICK x \in U : SumOf(f, U) # f[x] + SumOf(f, U \ {x})
  OBVIOUS
<1> DEFINE c == Chosen(U)
<1>6. c \in U /\ SumOf(f, U) = f[c] + SumOf(f, U \ {c})
  BY <1>4, <1>5, ChosenIn, SumChosen
<1> HIDE DEF c
<1>7. c # x /\ x \in U \ {c} /\ c \in U \ {x}
  BY <1>5, <1>6
<1>8. U \ {c} \in SUBSET S /\ U \ {c} \notin T /\ U \ {x} \in SUBSET S /\ U \ {x} \notin T
  BY <1>3, <1>4, <1>6, <1>7
<1>9. /\ SumOf(f, U \ {c}) = f[x] + SumOf(f, (U \ {c}) \ {x})
      /\ SumOf(f, U \ {x}) = f[c] + SumOf(f, (U \ {x}) \ {c})
  BY <1>7, <1>8
<1>10. (U \ {c}) \ {x} = (U \ {x}) \ {c}
  OBVIOUS
<1>11. IsFiniteSet((U \ {x}) \ {c}) /\ \A z \in (U \ {x}) \ {c} : f[z] \in Nat
  BY <1>4, FS_RemoveElement
<1>12. SumOf(f, (U \ {x}) \ {c}) \in Nat
  BY <1>11, SumNat
<1>13. f[x] \in Nat /\ f[c] \in Nat
  BY <1>4, <1>6
<1> HIDE DEF T
<1> QED
  BY <1>5, <1>6, <1>9, <1>10, <1>12, <1>13

\* A sum depends only on what is summed.
LEMMA SumSame ==
  ASSUME NEW f, NEW k, NEW S, \A x \in S : f[x] = k[x]
  PROVE  SumOf(f, S) = SumOf(k, S)
<1>1. ASSUME NEW g PROVE Unfolded(f, S, g) = Unfolded(k, S, g)
  <2>1. ASSUME NEW U \in SUBSET S, U # {} PROVE f[Chosen(U)] = k[Chosen(U)]
    BY <2>1, ChosenIn
  <2> QED
    BY <2>1 DEF Unfolded
<1>2. SumOf(f, S) = (CHOOSE g : g = Unfolded(f, S, g))[S]
  BY Zenon DEF SumOf, MapThenSumSet, MapThenFoldSet, Unfolded, Chosen
<1>3. SumOf(k, S) = (CHOOSE g : g = Unfolded(k, S, g))[S]
  BY Zenon DEF SumOf, MapThenSumSet, MapThenFoldSet, Unfolded, Chosen
<1>4. (CHOOSE g : g = Unfolded(f, S, g)) = (CHOOSE g : g = Unfolded(k, S, g))
  BY <1>1, Zenon
<1> QED
  BY <1>2, <1>3, <1>4

-----------------------------------------------------------------------------
(* Sums over several sets                                                   *)

\* Over disjoint sets sums add up.
LEMMA SumUnion ==
  ASSUME NEW f, NEW S, NEW R, IsFiniteSet(S), IsFiniteSet(R), S \intersect R = {},
         \A x \in S \union R : f[x] \in Nat
  PROVE  SumOf(f, S \union R) = SumOf(f, S) + SumOf(f, R)
<1> DEFINE T == {U \in SUBSET S : SumOf(f, U \union R) # SumOf(f, U) + SumOf(f, R)}
<1>1. SUFFICES ASSUME T # {} PROVE FALSE
  OBVIOUS
<1>2. \A V \in T : IsFiniteSet(V)
  BY FS_Subset
<1>3. PICK U \in T : \A W \in T : W \subseteq U => W = U
  <2> HIDE DEF T
  <2> QED
    BY <1>1, <1>2, Smallest
<1>4. U \in SUBSET S /\ IsFiniteSet(U) /\ SumOf(f, U \union R) # SumOf(f, U) + SumOf(f, R)
  BY <1>2
<1>5. SumOf(f, U) \in Nat /\ SumOf(f, R) \in Nat
  BY <1>4, SumNat
<1>6. U # {}
  <2> SUFFICES ASSUME U = {} PROVE FALSE
    OBVIOUS
  <2>1. U \union R = R /\ SumOf(f, U) = 0
    BY SumEmpty
  <2> QED
    BY <1>4, <1>5, <2>1
<1>7. PICK x \in U : TRUE
  BY <1>6
<1> DEFINE V == U \ {x}
<1>8. V \in SUBSET S /\ V \notin T /\ IsFiniteSet(V)
  <2>1. V \in SUBSET S /\ V \subseteq U /\ V # U
    BY <1>4, <1>7
  <2>2. V \notin T
    BY <1>3, <2>1
  <2> QED
    BY <2>1, <2>2, FS_Subset
<1>9. SumOf(f, V \union R) = SumOf(f, V) + SumOf(f, R)
  BY <1>8
<1>10. IsFiniteSet(U \union R) /\ x \in U \union R /\ (U \union R) \ {x} = V \union R
  BY <1>4, <1>7, FS_Union
<1> HIDE DEF T, V
<1>11. SumOf(f, U \union R) = f[x] + SumOf(f, V \union R)
  <2>1. \A y \in U \union R : f[y] \in Nat
    BY <1>4
  <2> QED
    BY <1>10, <2>1, SumStep
<1>12. SumOf(f, U) = f[x] + SumOf(f, V)
  <2>1. \A y \in U : f[y] \in Nat
    BY <1>4
  <2> QED
    BY <1>4, <1>7, <2>1, SumStep DEF V
<1>13. SumOf(f, V) \in Nat /\ f[x] \in Nat
  BY <1>4, <1>7, <1>8, SumNat
<1> QED
  BY <1>4, <1>5, <1>9, <1>11, <1>12, <1>13

\* A part of a sum of natural numbers is no more than the whole.
LEMMA SumPart ==
  ASSUME NEW f, NEW S, NEW R, IsFiniteSet(S), R \subseteq S, \A x \in S : f[x] \in Nat
  PROVE  /\ SumOf(f, S) = SumOf(f, R) + SumOf(f, S \ R)
         /\ SumOf(f, R) <= SumOf(f, S)
<1>1. IsFiniteSet(R) /\ IsFiniteSet(S \ R) /\ R \intersect (S \ R) = {} /\ R \union (S \ R) = S
  BY FS_Subset
<1>2. SumOf(f, S) = SumOf(f, R) + SumOf(f, S \ R)
  <2> DEFINE Q == S \ R
  <2>1. /\ IsFiniteSet(R) /\ IsFiniteSet(Q) /\ R \intersect Q = {} /\ R \union Q = S
        /\ \A x \in R \union Q : f[x] \in Nat
    BY <1>1
  <2> HIDE DEF Q
  <2>2. SumOf(f, R \union Q) = SumOf(f, R) + SumOf(f, Q)
    BY <2>1, SumUnion
  <2> QED
    BY <2>1, <2>2 DEF Q
<1>3. SumOf(f, R) \in Nat /\ SumOf(f, S \ R) \in Nat
  BY <1>1, SumNat
<1> QED
  BY <1>2, <1>3

\* What is zero does not count.
LEMMA SumZero ==
  ASSUME NEW f, NEW S, IsFiniteSet(S), \A x \in S : f[x] = 0
  PROVE  SumOf(f, S) = 0
<1> DEFINE T == {U \in SUBSET S : SumOf(f, U) # 0}
<1>1. SUFFICES ASSUME T # {} PROVE FALSE
  OBVIOUS
<1>2. \A V \in T : IsFiniteSet(V)
  BY FS_Subset
<1>3. PICK U \in T : \A W \in T : W \subseteq U => W = U
  <2> HIDE DEF T
  <2> QED
    BY <1>1, <1>2, Smallest
<1>4. U \in SUBSET S /\ SumOf(f, U) # 0 /\ IsFiniteSet(U)
  BY <1>2
<1>5. U # {}
  BY <1>4, SumEmpty
<1>6. Chosen(U) \in U /\ SumOf(f, U) = f[Chosen(U)] + SumOf(f, U \ {Chosen(U)})
  BY <1>4, <1>5, ChosenIn, SumChosen
<1>7. U \ {Chosen(U)} \notin T /\ f[Chosen(U)] = 0
  BY <1>3, <1>4, <1>6
<1>8. SumOf(f, U \ {Chosen(U)}) = 0
  BY <1>4, <1>7
<1> QED
  BY <1>4, <1>6, <1>7, <1>8

\* Smaller terms have a smaller sum.
LEMMA SumLess ==
  ASSUME NEW f, NEW k, NEW S, IsFiniteSet(S),
         \A x \in S : f[x] \in Nat /\ k[x] \in Nat /\ f[x] <= k[x]
  PROVE  SumOf(f, S) <= SumOf(k, S)
<1> DEFINE T == {U \in SUBSET S : ~ (SumOf(f, U) <= SumOf(k, U))}
<1>1. SUFFICES ASSUME T # {} PROVE FALSE
  OBVIOUS
<1>2. \A V \in T : IsFiniteSet(V)
  BY FS_Subset
<1>3. PICK U \in T : \A W \in T : W \subseteq U => W = U
  <2> HIDE DEF T
  <2> QED
    BY <1>1, <1>2, Smallest
<1>4. U \in SUBSET S /\ ~ (SumOf(f, U) <= SumOf(k, U)) /\ IsFiniteSet(U)
  BY <1>2
<1>5. U # {}
  BY <1>4, SumEmpty
<1> DEFINE c == Chosen(U)
<1>6. /\ c \in U /\ SumOf(f, U) = f[c] + SumOf(f, U \ {c})
      /\ SumOf(k, U) = k[c] + SumOf(k, U \ {c})
  BY <1>4, <1>5, ChosenIn, SumChosen
<1> HIDE DEF c
<1>7. U \ {c} \notin T /\ U \ {c} \in SUBSET S
  BY <1>3, <1>4, <1>6
<1>8. SumOf(f, U \ {c}) <= SumOf(k, U \ {c})
  BY <1>7
<1>9. IsFiniteSet(U \ {c}) /\ f[c] \in Nat /\ k[c] \in Nat /\ f[c] <= k[c]
  BY <1>4, <1>6, FS_RemoveElement
<1> HIDE DEF T
<1>10. SumOf(f, U \ {c}) \in Nat /\ SumOf(k, U \ {c}) \in Nat
  BY <1>4, <1>9, SumNat
<1> QED
  BY <1>4, <1>6, <1>8, <1>9, <1>10

\* The sums by the values of a key, of which K are all.
ByKey(f, S, key, K) == [c \in K |-> SumOf(f, {x \in S : key[x] = c})]

\* Added up, they are the sum.
LEMMA SumGroups ==
  ASSUME NEW f, NEW S, NEW key, NEW K, IsFiniteSet(S), IsFiniteSet(K),
         \A x \in S : f[x] \in Nat, \A x \in S : key[x] \in K
  PROVE  SumOf(ByKey(f, S, key, K), K) = SumOf(f, S)
<1> DEFINE t == ByKey(f, S, key, K)
<1>14. \A c \in K : t[c] = SumOf(f, {x \in S : key[x] = c})
  BY DEF ByKey
<1> HIDE DEF t
<1> DEFINE Under(L) == {x \in S : key[x] \in L}
           T == {L \in SUBSET K : SumOf(t, L) # SumOf(f, Under(L))}
<1>0. Under(K) = S
  OBVIOUS
<1>1. SUFFICES ASSUME T # {} PROVE FALSE
  BY <1>0 DEF t
<1>2. \A V \in T : IsFiniteSet(V)
  BY FS_Subset
<1>3. PICK L \in T : \A W \in T : W \subseteq L => W = L
  <2> HIDE DEF T
  <2> QED
    BY <1>1, <1>2, Smallest
<1>4. L \in SUBSET K /\ SumOf(t, L) # SumOf(f, Under(L)) /\ IsFiniteSet(L)
  BY <1>2
<1>5. L # {}
  <2> SUFFICES ASSUME L = {} PROVE FALSE
    OBVIOUS
  <2>1. Under(L) = {}
    OBVIOUS
  <2> HIDE DEF Under
  <2> QED
    BY <1>4, <2>1, SumEmpty
<1> DEFINE c == Chosen(L)
<1>6. c \in L /\ SumOf(t, L) = t[c] + SumOf(t, L \ {c})
  BY <1>4, <1>5, ChosenIn, SumChosen
<1> HIDE DEF c
<1>7. L \ {c} \in SUBSET K /\ L \ {c} \notin T
  BY <1>3, <1>4, <1>6
<1>8. SumOf(t, L \ {c}) = SumOf(f, Under(L \ {c}))
  BY <1>7
<1> DEFINE one == {x \in S : key[x] = c}
           rest == Under(L \ {c})
<1>9. one \union rest = Under(L) /\ one \intersect rest = {} /\ one \subseteq S /\ rest \subseteq S
  BY <1>6
<1>10. IsFiniteSet(one) /\ IsFiniteSet(rest)
  BY <1>9, FS_Subset
<1>11. t[c] = SumOf(f, one)
  BY <1>14, <1>4, <1>6
<1>12. \A x \in one \union rest : f[x] \in Nat
  BY <1>9
<1> HIDE DEF one, rest, T, Under
<1>13. SumOf(f, one \union rest) = SumOf(f, one) + SumOf(f, rest)
  BY <1>9, <1>10, <1>12, SumUnion
<1> QED
  BY <1>4, <1>6, <1>8, <1>9, <1>11, <1>13 DEF rest, t

\* A sum over names of things, each thing named once, is the sum over the things.
LEMMA SumNamed ==
  ASSUME NEW f, NEW S, NEW name, NEW t, IsFiniteSet(S), \A x \in S : f[x] \in Nat,
         \A x, y \in S : name[x] = name[y] => x = y,
         \A x \in S : t[name[x]] = f[x]
  PROVE  SumOf(t, {name[x] : x \in S}) = SumOf(f, S)
<1> DEFINE K == {name[x] : x \in S}
<1>1. IsFiniteSet(K)
  <2>1. [x \in S |-> name[x]] \in Surjection(S, K)
    BY DEF Surjection
  <2> QED
    BY <2>1, FS_Surjection
<1>2. ASSUME NEW c \in K PROVE t[c] = SumOf(f, {x \in S : name[x] = c})
  <2>1. PICK x \in S : name[x] = c
    OBVIOUS
  <2>2. {y \in S : name[y] = c} = {x}
    BY <2>1
  <2>3. SumOf(f, {x}) = f[x] + SumOf(f, {x} \ {x})
    <3>1. IsFiniteSet({x}) /\ x \in {x} /\ \A y \in {x} : f[y] \in Nat
      BY FS_Singleton
    <3> QED
      BY <3>1, SumStep
  <2>4. {x} \ {x} = {} /\ f[x] \in Nat
    OBVIOUS
  <2>5. SumOf(f, {x}) = f[x]
    BY <2>3, <2>4, SumEmpty
  <2> QED
    BY <2>1, <2>2, <2>5
<1>3. \A x \in S : name[x] \in K
  OBVIOUS
<1>5. \A c \in K : t[c] = ByKey(f, S, name, K)[c]
  BY <1>2 DEF ByKey
<1> HIDE DEF K
<1>4. SumOf(t, K) = SumOf(f, S)
  BY <1>1, <1>3, <1>5, SumGroups, SumSame
<1> QED
  BY <1>4 DEF K

\* A sum of ones counts.
LEMMA SumOnes ==
  ASSUME NEW f, NEW S, IsFiniteSet(S), \A x \in S : f[x] = 1
  PROVE  SumOf(f, S) = Cardinality(S)
<1> DEFINE T == {U \in SUBSET S : SumOf(f, U) # Cardinality(U)}
<1>1. SUFFICES ASSUME T # {} PROVE FALSE
  OBVIOUS
<1>2. \A V \in T : IsFiniteSet(V)
  BY FS_Subset
<1>3. PICK U \in T : \A W \in T : W \subseteq U => W = U
  <2> HIDE DEF T
  <2> QED
    BY <1>1, <1>2, Smallest
<1>4. U \in SUBSET S /\ SumOf(f, U) # Cardinality(U) /\ IsFiniteSet(U)
  BY <1>2
<1>5. U # {}
  BY <1>4, SumEmpty, FS_EmptySet
<1> DEFINE c == Chosen(U)
<1>6. c \in U /\ SumOf(f, U) = f[c] + SumOf(f, U \ {c})
  BY <1>4, <1>5, ChosenIn, SumChosen
<1> HIDE DEF c
<1>7. U \ {c} \notin T /\ U \ {c} \in SUBSET S /\ f[c] = 1
  BY <1>3, <1>4, <1>6
<1>8. SumOf(f, U \ {c}) = Cardinality(U \ {c}) /\ Cardinality(U) \in Nat
  BY <1>4, <1>7, FS_CardinalityType
<1>9. Cardinality(U \ {c}) = Cardinality(U) - 1
  BY <1>4, <1>6, FS_RemoveElement
<1> QED
  BY <1>4, <1>6, <1>7, <1>8, <1>9
====
