CONSTANTS
    Pools <- OnePool
    BlockWeight = 10
    Reserved = 1
    MaxBlocks = 8
    MaxFailures = 1000
SPECIFICATION SelectionSpec
PROPERTIES BestFirst
