SPECIFICATION Spec
CONSTANTS
    addressSet = addressSet
    binding = binding
    port = port
    Setting <- MCSetting
    Needs <- MCNeeds
    Initially <- MCInitially
    Risky <- MCRisky
    EventCapacity = 1
    UndoCapacity = 2
    MaxChanges = 3
    MaxForeign = 0
PROPERTIES
    NothingStagedIsLost
