SPECIFICATION Spec
CONSTANTS
    Root = root
    Desc = {d1}
    Streams = {"stdout"}
    Codes = {0}
    PipeCap = 1
    CanEscape = {}
    CanSetuid = {root}
    HostReaps = TRUE
    Main = Main
    Monitor = Monitor
    Waiter = Waiter
    Cancellers = {c1, c2}
    Configs <- SafetyConfigs
    MaxUnits = 0
    CallbackPanics = TRUE
    ThreadsMayFail = TRUE
    ReadsMayFail = FALSE
SYMMETRY Symmetry
INVARIANTS TypeOK NoOrphans NoLostCancel SpentHandleIsInert NaturalMeansUntouched NoCancelKillAfterExited RootReaped
PROPERTIES KeepsContract RootTermedFirst
