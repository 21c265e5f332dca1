\* Three foremen on four plants, two months, one commit at any point of a request.
SPECIFICATION ViewsSpec
CONSTANTS
    Workers <- MCWorkers
    Months = 2
    Weight <- MCWeight
    Factory <- MCFactory
    PlantChief <- MCPlantChief
    Sequence <- MCSequence
    Starts <- MCStarts
    Changes <- MCChanges
    Requests <- MCRequests
    ForemanId <- MCForemanId
    Orders <- MCOrders
    MaxCommits = 1
CHECK_DEADLOCK FALSE
INVARIANTS
    PagesAgree
    PartsMakeTheTotal
    CommitsDoNotTear
    NothingOutsideFilter
