SPECIFICATION Spec
CONSTANTS
  Request = {r1, r2}
  Orders = {o1, o2}
  Items = {community, bundle, package}
  OwnedOnce = {community}
  Memberships = {community}
  NoCoupon = {package}
  Rows = {c1}
  NoRow = NoRow
  Limits = {0, 1}
  Unlimited = Unlimited
CONSTRAINT RowsBound
SYMMETRY Symmetry
INVARIANTS
  RedeemedWithinOverlap
  DiscountsAreCounted
  PayableUnlessCut
