\* One plant, two shifts, four weeks, three foremen, two KPIs of opposite
\* direction; one change committed while a page is built.
SPECIFICATION ShiftSpec
CONSTANTS
    PageKpis = {"oee", "deviation"}
    DirectionHigher = {"oee"}
    NForemen = 3
    NShifts = 2
    Assignments <- MCAssignments
    Batches <- MCBatches
    Corrections <- MCCorrections
    MediumPct = 8
    HighPct = 15
    CriticalPct = 25
    MinRecords = 2
    MinPoints = 1
    MaxChanges = 1
INVARIANTS
  CardsTellOneStory
  ChartExplained
  InsightMatchesMatrix
  OneScale
