SPECIFICATION Spec
CONSTANTS
    None = None
    Freed = Freed
    Inherited = Inherited
    k1 = k1
    k2 = k2
    Keys = {k1, k2}
    Var <- OwnNames
    Threads = {a, b}
    Tasks = {t1, t2}
    Handles = {h1}
    Values = {v1, v2}
    MaxSet = 2
SYMMETRY Symmetry
INVARIANTS FfiTypeOK OneRunPerHandle OkMeansEffective RunErrorIsExplained
