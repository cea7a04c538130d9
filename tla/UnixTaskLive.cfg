SPECIFICATION FairSpec
CONSTANTS
    Root = root
    Desc = {d1}
    Streams = {"stdout"}
    Codes = {0}
    PipeCap = 1
    CanEscape = {d1}
    CanSetuid = {root}
    HostReaps = FALSE
    Main = Main
    Monitor = Monitor
    Waiter = Waiter
    Cancellers = {c1}
    Configs <- OneKiller
    MaxUnits = 1
    CallbackPanics = TRUE
    ThreadsMayFail = TRUE
    ReadsMayFail = TRUE
PROPERTIES RunReturns CancelReturns TimeoutReturns ThreadsEnd
