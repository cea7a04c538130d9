SPECIFICATION Spec
CONSTANTS
    Root = root
    Desc = {d1}
    Streams = {"stdout"}
    Codes = {0}
    PipeCap = 1
    CanEscape = {}
    CanSetuid = {}
    HostReaps = FALSE
    Main = Main
    Monitor = Monitor
    Waiter = Waiter
    Cancellers = {c1}
    Configs <- NoCapture
    MaxUnits = 1
    CallbackPanics = FALSE
    ThreadsMayFail = FALSE
    ReadsMayFail = FALSE
    ApisMayFail = FALSE
INVARIANTS NoDescendantSurvives
