SPECIFICATION InTurnSpec
CONSTANTS
  u1 = u1  k1 = k1  main = main  sub = sub  food = food  b1 = b1  asked = main
  Users = {u1}
  Keys = {k1}
  Saves <- JustOne
  Items <- Bought
  Ids = {1, 2}
  Cats = {main, sub}
  MainOf <- MainCategory
  Topics = {food}
  Amounts = {1}
  Limits = {2}
  Budgets = {b1}
  BudgetOwner <- Owned
  Threads = {p1}
  Workers = {w1}
  MaxAlerts = 2
  NoKey = NoKey  NoCat = NoCat  NoTopic = NoTopic  NoUser = NoUser  NoSave = NoSave
  NoBudget = NoBudget  Unborn = Unborn  Gone = Gone
INVARIANTS
  OnceUnlessBroken
  SpentExact
PROPERTIES
  OverspendAlerted
