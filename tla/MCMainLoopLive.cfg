CONSTANTS
    Txs = {t1}
    ProtectionMinSize = 0
    ProtectionPercent = 80
    PriorityDelta = 1
    InitialBlocks = 1
    SeparateAudit = FALSE
    OutOfSyncRetries = 1
    StartHeight = 0
    MaxHeight = 2
    MaxReorgs = 1
    MaxEvents = 2
    MaxFaults = 1
SPECIFICATION FairSpec
PROPERTIES CatchesUp
