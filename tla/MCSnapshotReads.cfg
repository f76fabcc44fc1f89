SPECIFICATION Spec
CONSTANTS
    ssh = ssh
    http = http
    egress = egress
    Service <- MCService
    Policy <- MCPolicy
    Referenced <- MCReferenced
    Listed <- MCListed
    Offline = FALSE
    HeavyEvery = 3
    DetailLimit = 1
    MaxChanges = 2
INVARIANTS
    FreshReadIsFresh
    QuietIsAccepted
    MissingIsReported
PROPERTIES
    OwnChangesShown
