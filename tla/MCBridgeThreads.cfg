CONSTANTS
    Lua = Lua
    Render = Render
    LuaThreads = {Lua, Render}
    Game = Game
    Nobody = Nobody
    Values <- MCValues
    Calls <- MCFewCalls
    MaxCounter <- MCFewCounter
SPECIFICATION FairSpec
PROPERTIES CallsReturn GameServed
CHECK_DEADLOCK FALSE
