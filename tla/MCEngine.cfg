SPECIFICATION Spec
CONSTANTS
    MaxId = 2
    MaxCount = 2
    RequestCapacity = 1
    ManualCapacity = 1
    RollbackCapacity = 1
    EventCapacity = 1
    MaxRequests = 2
    MaxRollbacks = 1
    MaxBatch = 1
    Plans <- MCPlans
    PlanSize <- MCPlanSize
    ReadOnly = FALSE
INVARIANTS
    TypeOK
    NextReadAssured
    LanesInOrder
PROPERTIES
    EndsOnlyWithInterface
    LifecycleInOrder
    VerifiedAfterwards
    RollbackFirst
    ImplementsContract
