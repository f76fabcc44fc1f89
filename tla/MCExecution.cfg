SPECIFICATION Spec
CONSTANTS
    home = home
    public = public
    allow = allow
    egress = egress
    lan = lan
    world = world
    app = app
    v = v
    Object <- MCObject
    Member <- MCMember
    Creatable <- MCCreatable
    Value <- MCValue
    Situations <- MCSituations
    RollbackTicks = 2
    GraceTicks = 3
INVARIANTS
    JudgedOnKnown
    OutcomeIsTrue
    RevertRestores
    ExportAgrees
PROPERTIES
    NoUnexpectedRevert
CHECK_DEADLOCK FALSE
