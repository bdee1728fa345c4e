SPECIFICATION Spec
CONSTANTS
    tab1 = tab1
    tab2 = tab2
    Clients <- MCClients
    Lockless <- MCClients
    DumpEnds <- MCNoDumps
    Browser = TRUE
    Deployment = 2
    Depth = 1
    MaxBlocks = 2
    StartBlock <- MCNoBlock
    EndBlock <- MCNoBlock
    InitHeight = 3
    MaxHeight = 5
    ReorgDepth = 1
    MaxReorgs = 1
    Threshold = 1
    MaxImports = 2
    MaxFaults = 0
INVARIANTS
    SingleWriter
CHECK_DEADLOCK FALSE
