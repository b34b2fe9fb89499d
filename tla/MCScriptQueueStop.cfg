CONSTANTS
    c1 = c1
    c2 = c2
    script = script
    EmptyScript = EmptyScript
    Lua = Lua
    NoThread = NoThread
    Callers <- MCCallers
    Scripts <- MCScripts
    Capacity = 2
    MaxAccepted = 1
SPECIFICATION FairSpec
PROPERTY StopEndsWorker
CHECK_DEADLOCK FALSE
