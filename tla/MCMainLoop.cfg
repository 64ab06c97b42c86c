CONSTANTS
    Txs = {t1, t2}
    ProtectionMinSize = 1
    ProtectionPercent = 80
    PriorityDelta = 1
    InitialBlocks = 1
    SeparateAudit = TRUE
    OutOfSyncRetries = 2
    StartHeight = 0
    MaxHeight = 4
    MaxReorgs = 0
    MaxEvents = 2
    MaxFaults = 1
SYMMETRY TxSymmetry
SPECIFICATION Spec
INVARIANTS TypeOK ProtectionHasTimer MinedNeverEvicted MinedStaysOut BlocksAreConsecutive
PROPERTIES ClearIsDelayed InSyncIsExact
