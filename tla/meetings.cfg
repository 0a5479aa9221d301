SPECIFICATION Spec
CONSTANTS
  small = small  open = open
  NoPackage = NoPackage
  Unlimited = Unlimited
  Packages = {small, open}
  Kinds = {"session"}
  Limit <- MCLimit
  StartedAt <- MCStartedAt
  Handlers = {h1, h2}
  Meetings = {m1, m2}
CONSTRAINT UsedBound
SYMMETRY Symmetry
INVARIANTS
  SessionOverrunBounded
  ApprovedIsCharged
