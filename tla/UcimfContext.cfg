CONSTANTS
    Directories <- OvOnly
    Raw = FALSE
    MaxTyped = 2
    MaxReceived = 4
    MaxFaults = 1
SPECIFICATION Spec
CHECK_DEADLOCK FALSE
INVARIANT ContextAlive
