SPECIFICATION Spec
CONSTANTS
    tab1 = tab1
    tab2 = tab2
    Clients <- MCClients
    Lockless <- MCNobody
    DumpEnds <- MCDumpEnds
    Browser = TRUE
    Deployment = 2
    Depth = 1
    MaxBlocks = 2
    StartBlock <- MCNoBlock
    EndBlock <- MCNoBlock
    InitHeight = 3
    MaxHeight = 5
    ReorgDepth = 1
    MaxReorgs = 1
    Threshold = 1
    MaxImports = 2
    MaxFaults = 2
INVARIANTS
    TypeOK
    Faithful
    MarkOnChain
    StoreSetsComplete
    SingleWriter
PROPERTIES
    ImplementsReplica
    CatchesUp
CHECK_DEADLOCK FALSE
