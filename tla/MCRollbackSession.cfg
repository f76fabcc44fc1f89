SPECIFICATION FairSpec
CONSTANTS
    OutboxCapacity = 3
    RequestCapacity = 1
    RollbackCapacity = 1
    EventCapacity = 2
    RollbackTicks = 2
    MaxOps = 5
    MaxPlan = 3
    Risky <- MCRisky
    Reversible <- MCReversible
INVARIANTS
    AccountsExact
    CleanExitSettlesAll
PROPERTIES
    ImplementsSwitch
    EveryChangeSettled
