SPECIFICATION HabitSpec
CONSTANTS
  u1 = u1  u2 = u2  g1 = g1  b1 = b1  food = food  milk = milk
  Cats = {c1, c2, c3, c4}
  Users = {u1, u2}
  Groups = {g1}
  Names = {food, milk}
  Budgets = {b1}
  FamilyOf <- OneFamily
  BudgetOwner <- Owned
  DefaultPath <- TwoNames
  Sessions = {p1, p2}
  Moves = {"leaf"}
  NoCat = NoCat  NoGroup = NoGroup  NoUser = NoUser  NoBudget = NoBudget
  Unborn = Unborn  Gone = Gone
SYMMETRY Symmetry
CHECK_DEADLOCK FALSE
INVARIANT LevelIsDepth
INVARIANT RollsUp
INVARIANT BudgetOnMainUndragged
INVARIANT SiblingsDifferShared
INVARIANT ListMatchesTreeUnshared
PROPERTY PrivateDeletes
