CONSTANTS
    Txs = {1, 2, 3}
    Conflicts <- CompetingConflicts
    MaxReturns = 1
    MaxRestarts = 1
    Wants = {"a", "b"}
    Tracked = {"first"}
    Others = {"asset", "rbf"}
    Refetched = {"asset"}
    Fragile = {"asset"}
    MaxRequests = 2
    MaxBreaks = 2
    MaxSwitches = 1
SPECIFICATION ClientsSpec
INVARIANTS
    ChangesAreTold AddFindsTrees TreesAgree
    SubscribedOnce
PROPERTY SessionFollows
CHECK_DEADLOCK FALSE
