CONSTANTS
    p1 = p1
    p2 = p2
    Process <- MCProcess
    NoProcess = NoProcess
    MinKeep = 1
    MaxCount = 2
    MaxFiles = 2
    LinesPerFile = 1
    MaxSaves = 3
    MaxRecords = 3
    MaxArchives = 3
SPECIFICATION Spec
SYMMETRY MCSymmetry
INVARIANT AuditHasNoGap
PROPERTY RemovesOnlySurplus
