SPECIFICATION Spec
SYMMETRY Symmetry
CHECK_DEADLOCK FALSE
CONSTANTS
  Devices = {d1, d2, d3}
  Codes = {c1}
  Request = {r1, r2}
  NoDevice = NoDevice
  Limit = 2
  MaxFails = 1
INVARIANTS
  DeviceLimitHolds
  CodeAcceptedByOverlapOnly
  DeletedIsSignedOut
