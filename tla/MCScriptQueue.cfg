CONSTANTS
    c1 = c1
    c2 = c2
    script = script
    EmptyScript = EmptyScript
    Lua = Lua
    NoThread = NoThread
    Callers <- MCCallers
    Scripts <- MCScripts
    Capacity = 2
    MaxAccepted = 3
SPECIFICATION FairSpec
INVARIANTS TypeOK MutexHeld FIFO NoLostWakeup ExecutedInOrder
PROPERTIES ImplementsQueue EveryScriptTaken
CHECK_DEADLOCK FALSE
