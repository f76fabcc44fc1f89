SPECIFICATION FairSpec
CONSTANTS
    MaxId = 1
    MaxCount = 1
    RequestCapacity = 1
    ManualCapacity = 1
    RollbackCapacity = 1
    EventCapacity = 1
    MaxRequests = 1
    MaxRollbacks = 1
    MaxBatch = 1
    Plans = {}
    PlanSize <- MCPlanSize
    ReadOnly = FALSE
PROPERTIES
    EverythingAnswered
    TaskEnds
