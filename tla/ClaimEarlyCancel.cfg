SPECIFICATION FairSpec
CONSTANTS
    Root = root
    Desc = {}
    Streams = {"stdout"}
    Codes = {0}
    PipeCap = 1
    CanEscape = {}
    CanSetuid = {}
    HostReaps = FALSE
    Main = Main
    Monitor = Monitor
    Waiter = Waiter
    Cancellers = {c1}
    Configs <- CancelOnly
    MaxUnits = 1
    CallbackPanics = FALSE
    ThreadsMayFail = FALSE
    ReadsMayFail = FALSE
PROPERTIES EarlyCancelHasNoEffect
