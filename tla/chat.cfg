SPECIFICATION ChatSpec
CONSTANTS
  Texts = {hello, thanks}
  Empty = Empty
  Flows = {f1, f2}
  MaxChanges = 1
  MaxFails = 2
INVARIANTS
  OneCopyPerFailure
  NoTextLost
PROPERTIES
  ViewCatchesUp
