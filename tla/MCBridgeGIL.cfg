CONSTANTS
    Lua = Lua
    Render = Render
    LuaThreads = {Lua, Render}
    Game = Game
    Nobody = Nobody
    Values <- MCValues
    Calls <- MCCalls
    MaxCounter <- MCMaxCounter
SPECIFICATION Spec
INVARIANTS TypeOK PythonUnderGIL ReleaseNotFatal KeptOnlyBy KeptForGood
CHECK_DEADLOCK FALSE
