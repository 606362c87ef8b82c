CONSTANT Servers <- Both
SPECIFICATION FairSpec
CHECK_DEADLOCK FALSE
INVARIANTS
    TypeOK
    StateAgrees
    OneAckPerHide
    DrawnWhereAnnounced
PROPERTIES
    SilentServerAcknowledges
    WaitEnds
