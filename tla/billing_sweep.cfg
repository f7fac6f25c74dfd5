SPECIFICATION FairSpec
CONSTANTS
  u1 = u1  m1 = m1  c1 = c1  p1 = p1  NoRow = NoRow  NoMandate = NoMandate  NoUser = NoUser  NoEvent = NoEvent
  Users = {u1}
  Mandates = {m1}
  Web = {p1}
  Relay = {p1}
  Sweepers = {c1}
  RazorpayKinds = {"authenticated", "pending", "activated"}
  VerificationPay = {"verification"}
  HubFaults = {"refuse"}
  Grants = {}
  MaxRows = 2
PROPERTIES
  UnsyncedIsResolved
