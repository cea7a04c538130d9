SPECIFICATION FairSpec
CONSTANTS
    Root = root
    Desc = {d1}
    Streams = {"stdout"}
    Codes = {0}
    PipeCap = 1
    CanEscape = {}
    CanSetuid = {}
    HostReaps = FALSE
    Main = Main
    Monitor = Monitor
    Waiter = Waiter
    Cancellers = {c1}
    Configs <- FreshHandle
    MaxUnits = 1
    CallbackPanics = TRUE
    ThreadsMayFail = TRUE
    ReadsMayFail = FALSE
    ApisMayFail = TRUE
INVARIANTS TypeOK NoOrphans NoLostCancel NaturalMeansOwnCode FailedSpawnLeavesNoRoot
PROPERTIES KeepsContract FailedSpawnReturns RunReturns CancelReturns TimeoutReturns ThreadsEnd
