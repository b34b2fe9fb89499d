----------------------------- MODULE MCBridgeGIL -----------------------------
(* The Lua thread calls every bridge function, with arguments that take each *)
(* of its paths, while the render thread calls a few.                        *)
EXTENDS BridgeGIL

CONSTANTS Lua, Render

str == Plain("string")
num == Plain("number")
obj == Object("callable")
Types == {Object("dict"), Object("list"), Object("tuple"), obj}

\* A value of each kind, and tables that nest and that fail inside.
Samples == {Plain(k) : k \in Kinds \ {"table", "object"}}
          \cup {obj, Table(<<str, num>>, <<>>), Table(<<Table(<<Plain("function")>>, <<>>)>>, <<>>),
                Table(<<>>, << <<str, obj>> >>)}
Mixed == {Table(<<str>>, << <<str, v>> >>) : v \in {obj, num, Table(<<Plain("function")>>, <<>>)}}

MCValues == Samples \cup Mixed \cup Types \cup {Table(<<Plain("function")>>, <<>>)}

C(fn, args) == [fn |-> fn, args |-> args]

Few == {str, obj, Plain("husk"), Plain("function")}

\* Each function with arguments for each of its paths; LuaToPython, which most of
\* them share, meets every kind of value as an argument of GMP.dict and of a call.
AllCalls ==
    {C(fn, <<v>>) : fn \in {"fromString", "importModule", "toPyBytes"}, v \in {str, obj}}
    \cup {C(fn, <<v>>) : fn \in {"pyType", "toString", "__len"}, v \in {obj, Plain("husk"), str}}
    \cup {C(fn, <<v>>) : fn \in {"items", "dictItems", "listItems", "tupleItems", "__pairs"}, v \in Types \cup {Plain("husk")}}
    \cup {C("pairs_next", <<v>>) : v \in {Object("dict"), Object("list")}}
    \cup {C(fn, <<>>) : fn \in {"__gc", "dict_next", "iter_next", "list_next", "tuple_next", "buildValue"}}
    \cup {C(fn, <<str>>) : fn \in {"list_next", "tuple_next"}}
    \cup {C(fn, <<obj, v>>) : fn \in {"__index", "getAttr"}, v \in Few}
    \cup {C(fn, <<obj, str, v>>) : fn \in {"__newindex", "setattr"}, v \in Few}
    \cup {C(fn, <<v>>) : fn \in {"tuple", "list", "dict"}, v \in Few}
    \cup {C("__call", <<obj, v>>) : v \in Samples}
    \cup {C("dict", <<str, v>>) : v \in Samples}
    \cup {C("callObject", <<obj, v>>) : v \in {Object("tuple"), obj, str}}
    \cup {C("callObject", <<v, Object("tuple")>>) : v \in {Object("dict"), str}}
    \cup {C("buildValue", <<str, v>>) : v \in Few}
    \cup {C("buildValue", <<str>> \o [i \in 1..n |-> obj]) : n \in {MaxArgs, MaxArgs + 1}}
    \cup {C("toPyAuto", <<v>>) : v \in Few \cup Mixed \cup {w \in Samples : w.kind = "table"}}

FewCalls == {C("__len", <<obj>>), C("list", <<num>>), C("iter_next", <<>>)}

\* Safety: every function on the Lua thread, with a second handle outstanding.
MCCalls      == [t \in LuaThreads |-> IF t = Lua THEN AllCalls ELSE FewCalls]
MCMaxCounter == [t \in LuaThreads |-> IF t = Lua THEN 2 ELSE 1]

\* Liveness: a function that keeps its promises, one that leaks a handle and one
\* that keeps the lock, on both threads.
MCFewCalls   == [t \in LuaThreads |-> FewCalls]
MCFewCounter == [t \in LuaThreads |-> 2]
==============================================================================
