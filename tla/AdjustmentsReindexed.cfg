CONSTANTS
    b1 = b1
    b2 = b2
    r1 = r1
    r2 = r2
    Branches = {b1, b2}
    InitialBlocks = 2
    RollbackDepth = 2
    RetargetPeriod = 2
    Disturbances = {}
    Runs = {}
    StartHeights = {4}
    MaxHeight = 5
    MaxReorgs = 1
    MaxFaults = 0
SPECIFICATION Spec
PROPERTIES AdjustmentsReindexed
CHECK_DEADLOCK FALSE
