\* Two requests at a time for one work, four requests in all.
SPECIFICATION Spec
CONSTANTS
  Works = {w1}
  Editors = {e1, e2}
  Foremen = {f1, f2}
  Payloads <- MCPayloads
  NoWork = NoWork
  NoDuration = NoDuration
  NoMinutes = NoMinutes
  NoTarget = NoTarget
  MaxRequests = 4
SYMMETRY ForemanSymmetry
CHECK_DEADLOCK FALSE
INVARIANTS
  WorkHangsTogether
  PublishedComplete
  SharesAddUp
PROPERTIES
  ChangesAreAccounted
