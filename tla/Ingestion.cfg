\* Two overlapping runs over two source records and two keys, a rescoring, one correction
\* and new rules that begin on the first or on the second day.
SPECIFICATION Spec
CONSTANTS
  NumSources = 2
  k1 = k1
  k2 = k2
  g1 = g1
  g2 = g2
  Keys = {k1, k2}
  KpiOf <- MCKpiOf
  Day <- MCDay
  Days = {1, 2}
  FirstDays <- MCFirstDays
  Contents <- MCContents
  Feeds <- MCFeeds
  Fails <- MCFails
  Good = {g1, g2}
  Bad = {b1}
  Runs = {i1, i2}
  Rescorers = {x1}
  Settings <- MCSettings
  NoSource = NoSource
  NoValue = NoValue
  NoScore = NoScore
  Unknown = Unknown
  MaxRuns = 2
  MaxEdits = 1
SYMMETRY RunSymmetry
CHECK_DEADLOCK FALSE
INVARIANTS
  TablesAgree
  RunCatchesUp
  RescoreCatchesUp
PROPERTIES
  KeepsLedger
