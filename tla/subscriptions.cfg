SPECIFICATION Spec
CONSTANTS
  monthly = monthly  lifetime = lifetime
  Null = Null
  Plans = {monthly, lifetime}
  Duration <- MCDuration
  Orders = {o1, o2}
  Handlers = {h1, h2}
  ReminderDays = 0
  GraceDays = 1
  MaxAttempts = 1
  LongAgo = 2
  MaxGrants = 2
CONSTRAINT GrantsBound
SYMMETRY Symmetry
INVARIANTS
  NeverBeyondBought
  ExpiredIsOver
  PaidIsGranted
