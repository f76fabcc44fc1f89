SPECIFICATION FairSpec
CONSTANTS
    addressSet = addressSet
    binding = binding
    port = port
    Setting = {addressSet, binding, port}
    Needs <- MCNeeds
    Initially = {{addressSet}}
    Risky = {binding}
    EventCapacity = 1
    UndoCapacity = 1
    MaxChanges = 2
    MaxForeign = 1
INVARIANTS
    ExecutedOnce
    PlanAccounted
    ArmedNotUndoable
    FirewallAsReviewed
    WarningsAreTrue
PROPERTIES
    NothingStaysOpen
