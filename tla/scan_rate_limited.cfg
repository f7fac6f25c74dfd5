SPECIFICATION ServicesSpec
CONSTANTS
  Users = {u1}
  Names = {plain, quoted}
  Quoted = {quoted}
  Subs = {s1, s2}
  Notes = {1, 2, 3, 4}
  LastDay = 4
  Mondays = {2}
  Firsts = {3}
  Workers = {w1}
  Readers = {r1, r2}
  Unborn = Unborn  Gone = Gone  NoUser = NoUser
  NumKeys = 2
  Quota = 1
  MaxRetries = 1
  Heights = {1000, 2000}
  Lookback = 2
  Scanners = {x1, x2}
  Goals = {g1}
  Targets = {1, 2}
  MaxSaved = 3
  Savers = {payer, editor}
  NoGoal = NoGoal
  payer = payer
  StripeSubs = {c1, c2}
  PaidPlans = {pro, business}
  FreePlan = FreePlan
  MaxInvoices = 2
  MaxWire = 3
  ann = ann  bob = bob  flat = flat  food = food  dairy = dairy  misc = misc  home = home  cot = cot
  filer = filer
  Housemates = {ann, bob}
  Groups = {flat}
  FamilyOf <- SameFlat
  Cats = {food, dairy, misc, home, cot}
  Owner <- MadeBy
  Family <- SharedBy
  Parent <- Above
  Level <- Depth
  General = {misc}
  Texts = {"milk", "milk.pack"}
  Blank = ""
  Long = {}
  Spaced = {"milk.pack"}
  Within <- Parts
  Tokens <- Found
  Length <- Chars
  Named <- Called
  Filers = {filer, teacher}
  Bills = {bill}
  Words = {1, 2}
  NoGroup = NoGroup  NoCat = NoCat
  NoRow = NoRow  NoSub = NoSub  NoEvent = NoEvent
CHECK_DEADLOCK FALSE
INVARIANT RateLimitTold
