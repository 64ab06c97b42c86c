CONSTANTS
    Channels = {1}
    Closing <- InstanceClosing
    MaxImports = 0
    MaxLnFaults = 0
SPECIFICATION LightningSpec
INVARIANT PenaltiesAreFound
CHECK_DEADLOCK FALSE
