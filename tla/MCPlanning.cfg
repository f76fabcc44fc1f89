CONSTANTS
    home = home
    public = public
    v = v
    odd = odd
    Strange = {odd}
    Object <- MCObject
    Member = {}
    Creatable = {}
    Value <- MCValue
    ZoneOrder <- MCZoneOrder
    OctetBits = 2
    Restorations <- MCRestorations
    Migrations <- MCMigrations
    Explanations <- MCExplanations
    Comparisons <- MCComparisons
    Listings <- MCListings
    Dispatches <- MCDispatches
    Packets <- MCPackets
SPECIFICATION Spec
INVARIANTS
    RestoreReaches
    MigrationExact
    ExplanationTrue
    
    NothingHalfDone
CHECK_DEADLOCK FALSE
