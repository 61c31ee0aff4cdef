SPECIFICATION Spec
CONSTANTS
    K = 2
    P = 5
    Elements <- MCElements
    Threads <- MCThreads
    Inputs <- MCInputs
CHECK_DEADLOCK FALSE
INVARIANT
    Compares
