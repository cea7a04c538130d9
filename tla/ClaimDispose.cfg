SPECIFICATION DotnetSpec
CONSTANTS
    None = None
    Null = Null
    Freed = Freed
    Inherited = Inherited
    k1 = k1
    Keys = {k1}
    Var <- OwnNames
    obj = obj
    Source = source
    Owner = r1
    Runners = {r1, r2}
    Disposers = {d1}
    Threads = {r1, r2, d1, source}
    Tasks = {obj}
    Handles = {h1}
    Values = {v1}
    MaxSet = 1
CHECK_DEADLOCK FALSE

PROPERTIES TokenStopsDisposedRun
