SPECIFICATION Spec
CONSTANTS
    Target = {t1, t2}
    MaxHead = 4
    Lag = 2
    Deployment = 1
    Depth = 1
    MaxBlocks = 0
    StartBlock <- MCNoBlock
    EndBlock <- MCNoBlock
INVARIANTS EndNotAhead
PROPERTIES PublishedKept
