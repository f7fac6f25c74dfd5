SPECIFICATION HabitSpec
CONSTANTS
  ana = ana  ben = ben  cleo = cleo  n1 = n1  n2 = n2  n3 = n3  plus = plus  bare = bare
  Users = {ana, ben, cleo}
  Numbers = {n1, n2, n3}
  Spellings = {plus, bare}
  FirstPhone <- ThreePhones
  Names = {ana, ben, cleo}
  Name <- OwnNames
  Salary <- Earnings
  Shares = {1}
  Groups = {g1, g2}
  Rows = {r1, r2, r3, r4}
  Threads = {t1, t2}
  MaxSpent = 1
  NoUser = NoUser  NoGroup = NoGroup  NoRow = NoRow  NoNumber = NoNumber
  Unborn = Unborn  Gone = Gone
SYMMETRY Symmetry
CHECK_DEADLOCK FALSE
INVARIANT NoDoublesInTurn
INVARIANT JoinedIsSeenUnmoved
INVARIANT MeansInTurn
INVARIANT BreakdownComplete
