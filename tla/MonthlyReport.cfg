\* Two sessions at a time, one of which may regenerate, three requests.
SPECIFICATION Spec
CONSTANTS
  Sessions = {s1, s2}
  Regenerators = {s1}
  NoReport = NoReport
  MaxCorrections = 1
  MaxRequests = 3
CHECK_DEADLOCK FALSE
INVARIANTS
  OneReport
  DeliveredIsCurrent
PROPERTIES
  NewDataNewVersion
