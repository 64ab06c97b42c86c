CONSTANTS
    b1 = b1
    b2 = b2
    r1 = r1
    r2 = r2
    Branches = {b1, b2}
    InitialBlocks = 1
    RollbackDepth = 3
    RetargetPeriod = 4
    Disturbances = {}
    Runs = {}
    StartHeights = {3}
    MaxHeight = 6
    MaxReorgs = 3
    MaxFaults = 1
SPECIFICATION Spec
INVARIANTS TypeOK SwitchesSettle
CHECK_DEADLOCK FALSE
