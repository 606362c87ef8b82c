CONSTANT Servers <- DrawingOnly
SPECIFICATION FairSpec
CHECK_DEADLOCK FALSE
PROPERTY HideAcknowledged
