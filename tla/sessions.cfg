SPECIFICATION Spec
CONSTANTS
  Users = {u1, u2}
  Changes = {w1, w2}
  MaxChanges = 3
  InvitedAs <- MCInvitedAs
  Sent <- MCSent
  Devices = {d1}
  Requests = {q1, q2}
  NoRequest = none
  MaxRequests = 3
  MaxTokens = 3
SYMMETRY Alike
INVARIANTS TypeOK OneLivePerFamily ClosedStaysClosed PatientStaysSignedIn
PROPERTIES ShopKeepsAnOwner
CHECK_DEADLOCK FALSE
