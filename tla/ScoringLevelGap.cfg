\* The same periods as in Scoring.
SPECIFICATION ScoringSpec
CONSTANTS
  Plants = {p1, p2}
  Days = {d1}
  Readings <- MCReadings
  Selections <- MCSelections
  Weight <- MCWeight
  Levels <- MCLevels
  NoRecord = NoRecord
  MaxRecords = 3
  MaxCovered = 2
SYMMETRY PlaceSymmetry
INVARIANT LastLevelIsEarned
