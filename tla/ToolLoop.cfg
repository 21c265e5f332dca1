SPECIFICATION FairLoopSpec
CONSTANTS
    Requests <- MCRequests
    CallsPerTurn = 2
    MaxToolCalls = 2
    MaxAnalysisSteps = 2
    MaxRangeDays = 365
    PeriodDays = {7, 400}
INVARIANTS
  RecordIsWhole
  LimitsHold
PROPERTIES
  OutcomeHonest
  LoopEnds
