CONSTANTS
    Directories <- AllDirectories
    Raw = TRUE
    MaxTyped = 3
    MaxReceived = 3
    MaxFaults = 2
SPECIFICATION Spec
INVARIANTS
    TypeOK
    Loaded
    PreeditIsCurrent
    CandidatesAreCurrent
    StatusIsCurrent
    CommitDelivered
PROPERTY OnlyChewingRepeats
CHECK_DEADLOCK FALSE
