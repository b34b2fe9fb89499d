CONSTANTS
    c1 = c1
    script = script
    EmptyScript = EmptyScript
    Lua = Lua
    NoThread = NoThread
    Callers <- MCCallers
    Scripts <- MCScripts
    Capacity = 1
    MaxAccepted = 1
SPECIFICATION LifeSpec
INVARIANT UnloadClean
CHECK_DEADLOCK FALSE
