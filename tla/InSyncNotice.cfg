CONSTANTS
    Txs = {t1, t2, t3}
    ProtectionMinSize = 1
    ProtectionPercent = 80
    PriorityDelta = 1
    InitialBlocks = 1
    SeparateAudit = FALSE
    OutOfSyncRetries = 2
    StartHeight = 0
    MaxHeight = 0
    MaxReorgs = 0
    MaxEvents = 4
    MaxFaults = 0
SPECIFICATION Spec
PROPERTIES InSyncNotice
