SPECIFICATION Spec
CONSTANTS
    ssh = ssh
    http = http
    egress = egress
    Service <- MCService
    Policy <- MCPolicy
    Referenced <- MCReferenced
    Listed <- MCListed
    Offline = TRUE
    HeavyEvery = 3
    DetailLimit = 1
    MaxChanges = 1
INVARIANTS
    UnchangedIsAccepted
