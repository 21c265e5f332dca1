SPECIFICATION Spec
CONSTANTS
  Ids = {1, 2, 3}
  Values = {1, 2}
  Null = Null
  Absent = Absent
  Limits = {1, 2}
  MaxScore = 2
  LevelFloor = 2
  MaxWrites = 2
  MaxSwitches = 1
  Lists <- AllLists
CHECK_DEADLOCK FALSE
INVARIANTS
  PagesAreOneList
  NothingSkipped
  ShownAsRanked
