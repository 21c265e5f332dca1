\* Up to three records of two KPIs, in two plants and on one day.
SPECIFICATION ScoringSpec
CONSTANTS
  Plants = {p1, p2}
  Days = {d1}
  Readings <- MCReadings
  Selections <- MCSelections
  Weight <- MCWeight
  Levels <- MCLevels
  NoRecord = NoRecord
  MaxRecords = 3
  MaxCovered = 2
SYMMETRY PlaceSymmetry
INVARIANTS
  ScoresMeanTheSame
PROPERTIES
  BetterNeverScoresLess
  LevelNeverDrops
