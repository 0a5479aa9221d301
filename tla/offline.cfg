SPECIFICATION CopiesSpec
CONSTANTS
  Lessons = {l1}
  Tasks = {t1, t2}
  MaxMishaps = 1
  MaxGrants = 1
INVARIANTS
  KeysGoWithCopy
  FileIsListed
  PlaysWithinGrant
PROPERTIES
  RevokedIsWiped
