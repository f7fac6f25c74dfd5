SPECIFICATION Spec
CONSTANTS
  u1 = u1  m1 = m1  m2 = m2  h1 = h1  p1 = p1  NoRow = NoRow  NoMandate = NoMandate  NoUser = NoUser  NoEvent = NoEvent
  Users = {u1}
  Mandates = {m1, m2}
  Web = {p1}
  Relay = {h1}
  Sweepers = {}
  RazorpayKinds = {"authenticated", "activated"}
  VerificationPay = {"verification"}
  HubFaults = {"lost"}
  Grants = {}
  MaxRows = 2
SYMMETRY MandateSymmetry
INVARIANTS
  NoResurrection
  EntitlementBacked
  OneOngoingMandate
