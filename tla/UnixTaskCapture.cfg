SPECIFICATION FairSpec
CONSTANTS
    Root = root
    Desc = {d1}
    Streams = {"stdout", "stderr"}
    Codes = {0}
    PipeCap = 1
    CanEscape = {d1}
    CanSetuid = {}
    HostReaps = FALSE
    Main = Main
    Monitor = Monitor
    Waiter = Waiter
    Cancellers = {}
    Configs <- CaptureOnly
    MaxUnits = 2
    CallbackPanics = TRUE
    ThreadsMayFail = TRUE
    ReadsMayFail = TRUE
INVARIANTS ChunksInOrder OutputComplete RootReaped
PROPERTIES KeepsContract PipesAreDrained
