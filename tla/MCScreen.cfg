SPECIFICATION Spec
CONSTANTS
    Object <- MCObject
    Member = {}
    Creatable <- MCCreatable
    Value <- MCValue
    ObjectOrder <- MCObjectOrder
    ValueOrder <- MCValueOrder
    Scenario <- MCScenario
    Firewall <- MCFirewall
    LogCapacity = 2
    MaxLines = 3
INVARIANTS
    SelectionHeld
PROPERTIES
    CursorFollows
    AsksWhatIsShown
    GatesHold
