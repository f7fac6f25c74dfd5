--------------------------- MODULE MCCategoryTree ---------------------------
(* CategoryTree on small instances. *)
EXTENDS CategoryTree, TLC

CONSTANTS u1, u2, g1, b1, food, milk

TwoNames  == <<food, milk>>
NoFamily  == [u \in Users |-> NoGroup]
OneFamily == [u \in Users |-> g1]
Owned     == [b \in Budgets |-> u1]

CatSymmetry == Permutations(Cats)
Symmetry    == Permutations(Cats) \union Permutations(Sessions)
=============================================================================
