\* Two requests and a watchdog over two attempts at one anomaly.
SPECIFICATION FairSpec
CONSTANTS
  NoAnomaly = NoAnomaly
  Anomalies = {a1}
  Workers = {w1, w2}
  Watchdogs = {d1}
  MaxAttempts = 2
INVARIANTS
  OneLiveAttempt
  StuckOnlyByCrash
PROPERTIES
  NoLateWrite
  AttemptEnds
