SPECIFICATION OverlapSpec
CONSTANTS
  u1 = u1  k1 = k1  main = main  sub = sub  food = food  b1 = b1  asked = NoCat  p1 = p1  b2 = b2
  Users = {u1}
  Keys = {k1}
  Saves <- OneAndBulk
  Items <- Bought
  Ids = {1, 2, 3}
  Cats = {main, sub}
  MainOf <- MainCategory
  Topics = {food}
  Amounts = {1}
  Limits = {1}
  Budgets = {b1, b2}
  BudgetOwner <- Owned
  Threads = {p1, p2}
  Workers = {w1}
  MaxAlerts = 2
  NoKey = NoKey  NoCat = NoCat  NoTopic = NoTopic  NoUser = NoUser  NoSave = NoSave
  NoBudget = NoBudget  Unborn = Unborn  Gone = Gone
INVARIANTS
  RepliesTruthful
  WorkerAlertsOnceADay
