CONSTANTS
    t1 = t1
    t2 = t2
    t3 = t3
    Txs = {t1, t2, t3}
    Mempools <- InstanceMempools
    Networks = {"mainnet", "testnet"}
    ChunkFiles = 2
    MaxHeight = 1
    MaxSaves = 2
    MaxExits = 1
    Elements = {1, 2, 3, 4}
    Priorities = {1, 2, 3}
    Pools <- InstancePools
    BlockWeight = 7
    Reserved = 1
    MaxBlocks = 3
    MaxFailures = 1
    PoolTxs = {1, 2}
    FirstBlock = 1
    MaxCalls = 3
    MaxCrashes = 1
    MaxThrows = 1
    MaxLeft = 1
    Workers = {"w1", "w2"}
    MaxPages = 5
    MaxPageFaults = 2
    Channels = {1, 2}
    Closing <- InstanceClosing
    MaxImports = 1
    MaxLnFaults = 1
SPECIFICATION ServicesSpec
INVARIANTS
    DiskTypeOK FilesAreWhole PausedOnlyByBlocks
    LinksAgree
    EachOnce ParentsNotLater BlocksFit ScoresAreCurrent
    WorkerInStep BlocksAreOfMempool ViewFollows
    PagesNeverRunOut PageIsOfOneJob
PROPERTIES
    RestoredIsSaved SaveEnds
    ImplementsQueue
    TemplatesCome
    ClosedStaysClosed ClosingsAreExplained
    NewerVersionKept Forgotten
CHECK_DEADLOCK FALSE
