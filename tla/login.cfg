SPECIFICATION LoginSpec
CONSTANTS
  Contacts = {c1}
  Codes = {1, 2, 3}
  NoCode = NoCode  NoContact = NoContact
  MaxTries = 2
  MaxSends = 2
  Threads = {t1, t2}
  Numbers = {n1, n2}
  Ids = {1, 2, 3}
  Tokens = {1, 2}
  NoId = NoId  NoToken = NoToken  NoPhone = NoPhone  Unborn = Unborn
  ip1 = ip1  ana = ana
  Ips = {ip1}
  Logins = {ana}
  Limit <- TwoMisses
  MaxCalls = 4
  Clients = {w1, w2}
  NoKey = NoKey
SYMMETRY Symmetry
CHECK_DEADLOCK FALSE
INVARIANT GuessesCapped
INVARIANT OneAccountSteady
INVARIANT MissesBounded
PROPERTY CodesKeepPromise
 
PROPERTY LocksLastInTurn
