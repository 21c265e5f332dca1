\* Two overlapping batches, two overlapping watchdogs, two claims of one report.
SPECIFICATION FairSpec
CONSTANTS
  NoReport = NoReport
  Reports = {r1}
  Workers = {w1, w2}
  Watchdogs = {d1, d2}
  MaxRetry = 1
  MaxClaims = 2
INVARIANTS
  NoSilentDuplicate
  OverlapExplained
PROPERTIES
  VerdictsStand
  KeepsPromise
  ClaimReleased
