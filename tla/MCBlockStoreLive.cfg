CONSTANTS
    b1 = b1
    b2 = b2
    r1 = r1
    r2 = r2
    Branches = {b1, b2}
    InitialBlocks = 1
    RollbackDepth = 1
    RetargetPeriod = 4
    Disturbances = {"failed deletion", "request"}
    Runs = {r1}
    StartHeights = {0}
    MaxHeight = 3
    MaxReorgs = 1
    MaxFaults = 1
SPECIFICATION FairSpec
INVARIANTS IndexerReturns
PROPERTIES Converges
CHECK_DEADLOCK FALSE
