SPECIFICATION Spec
CONSTANTS
    Pyus <- MCPyus
    SpuNodes <- MCSpuNodes
    SPU <- MCSPU
    GcThreshold = 3
    MaxObjects = 7
    MaxHandles = 2
    MaxArgs = 1
    MaxFaults = 0
\* The user may stop at any time, and stops when the objects are spent.
CHECK_DEADLOCK FALSE
INVARIANT
    ArgumentsStored
