SPECIFICATION HabitSpec
CONSTANTS
  ana = ana  ben = ben
  Users = {ana, ben}
  Family = {ana, ben}
  Owner = ana
  Ids = {e1, e2}
  food = food  milk = milk  fun = fun
  Cats = {food, milk, fun}
  FamilyCats = {fun}
  Name <- Names
  Deductible <- HealthNames
  Days <- AroundLeap
  FirstDay <- StartOfTime
  LastDay <- EndOfTime
  Amounts = {10, 2}
  Methods = {cash}
  StartDays = {1, 8}
  Incomes = {12, 30}
  NoRow = NoRow  NoCat = NoCat
 
INVARIANT FamilyPagesAgree
 
PROPERTY CycleTurnsOver
INVARIANT SpendingNeverScores
SYMMETRY Symmetry
CHECK_DEADLOCK FALSE
