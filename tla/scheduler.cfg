SPECIFICATION PollerSpec
CONSTANTS
  Jobs = {once, daily}
  Daily = {daily}
  Users = {u1}
  Runs = {r1, r2}
  MaxDay = 1
  MaxCrashes = 1
INVARIANTS
  NotTwiceADay
  CancelledStays
PROPERTIES
  DueIsDispatched
