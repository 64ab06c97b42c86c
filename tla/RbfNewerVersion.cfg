CONSTANTS
    Txs = {1, 2, 3}
    Conflicts <- SplittingConflicts
    MaxReturns = 0
    MaxRestarts = 0
SPECIFICATION Spec
PROPERTIES NewerVersionKept
CHECK_DEADLOCK FALSE
