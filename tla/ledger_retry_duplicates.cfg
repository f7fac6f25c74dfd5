SPECIFICATION Spec
CONSTANTS
  u1 = u1  k1 = k1  main = main  sub = sub  food = food  b1 = b1  asked = NoCat
  Users = {u1}
  Keys = {k1}
  Saves <- JustOne
  Items <- Bought
  Ids = {1, 2}
  Cats = {main, sub}
  MainOf <- MainCategory
  Topics = {food}
  Amounts = {1}
  Limits = {1}
  Budgets = {}
  BudgetOwner <- Owned
  Threads = {p1, p2}
  Workers = {}
  MaxAlerts = 2
  NoKey = NoKey  NoCat = NoCat  NoTopic = NoTopic  NoUser = NoUser  NoSave = NoSave
  NoBudget = NoBudget  Unborn = Unborn  Gone = Gone
INVARIANT OnceByKey
