SPECIFICATION Spec
CONSTANTS
  u1 = u1  m1 = m1    p1 = p1  NoRow = NoRow  NoMandate = NoMandate  NoUser = NoUser  NoEvent = NoEvent
  Users = {u1}
  Mandates = {m1}
  Web = {p1}
  Relay = {p1}
  Sweepers = {p1}
  RazorpayKinds = {"authenticated", "activated", "charged", "refunded", "paused"}
  VerificationPay = {"verification"}
  HubFaults = {"refuse"}
  Grants = {"admin","checkout"}
  MaxRows = 2
INVARIANTS
  PaymentRecordedOnce
  CanceledMeansEnded
  StampTruthful
  
