------------------------------ MODULE BridgeGIL ------------------------------
(***************************************************************************)
(* The threads that run Lua scripts (LuaExecutionThread, and the render    *)
(* thread in RunScript) and the game's own Python threads share Python's   *)
(* global interpreter lock.  A Lua thread runs the functions of            *)
(* BridgeFunctions; its C stack is a sequence of frames, each with the     *)
(* steps it still has to take and its PyGILState handle.                   *)
(***************************************************************************)
EXTENDS BridgeFunctions

CONSTANTS LuaThreads, Game, Nobody,
          Values,          \* the Lua values scripts have, the parts of a table among them
          Calls,           \* what the scripts of each thread call: [fn |-> name, args |-> values]
          MaxCounter       \* bound, per thread: with that many handles outstanding it calls no more

\* What scripts can call, by the number of arguments the function looks at in any
\* case: with fewer it raises an error at once, as it does for nil in their place.
Nullary  == {"buildValue", "tuple", "list", "dict", "__gc", "dict_next", "iter_next", "list_next", "tuple_next"}
Unary    == {"fromString", "importModule", "toString", "toPyBytes", "toPyAuto", "dictItems", "listItems",
             "tupleItems", "items", "pyType", "__call", "__len", "__pairs", "pairs_next"}
Binary   == {"callObject", "getAttr", "__index"}
Ternary  == {"setattr", "__newindex"}
Registered == Nullary \cup Unary \cup Binary \cup Ternary

ASSUME BridgeAssumption ==
    /\ Game \notin LuaThreads /\ Nobody \notin LuaThreads \cup {Game}
    /\ MaxCounter \in [LuaThreads -> Nat]

ASSUME ValuesAssumption ==
    /\ \A v \in Values : v \in [kind : Kinds, type : STRING, array : Seq(Values), fields : Seq(Values \X Values)]
    /\ Plain("number") \in Values     \* an index of a table

ASSUME CallsAssumption ==
    \A t \in LuaThreads : \A c \in Calls[t] :
        /\ c \in [fn : Registered, args : Seq(Values)]
        /\ Len(c.args) >= IF c.fn \in Nullary THEN 0 ELSE IF c.fn \in Unary THEN 1
                         ELSE IF c.fn \in Binary THEN 2 ELSE 3

VARIABLES
    holder,      \* who holds the lock
    counter,     \* per Lua thread: gilstate_counter; 0: it has no thread state
    stack,       \* per Lua thread: the frames of the bridge, outermost first
    yielding,    \* per Lua thread: the interpreter has given the lock to others for a while
    kept         \* history, per Lua thread: functions that ended without a Release of the
                 \* handle that took the lock

vars == <<holder, counter, stack, yielding, kept>>

\* The functions as registered for scripts: GMP's, the metamethods of PyObject,
\* and the iterators they return (which scripts already have).
Body(c) ==
    LET a == c.args
    IN  CASE c.fn = "buildValue"   -> BuildValue(a)
          [] c.fn = "callObject"   -> CallObject(a[1], a[2])
          [] c.fn = "getAttr"      -> GetAttr(a[1], a[2])
          [] c.fn = "fromString"   -> FromString(a[1])
          [] c.fn = "importModule" -> ImportModule(a[1])
          [] c.fn = "toString"     -> ToString(a[1])
          [] c.fn = "toPyBytes"    -> toPyBytes(a[1])
          [] c.fn = "toPyAuto"     -> toPyAuto(a[1])
          [] c.fn = "tuple"        -> createPyTuple(a)
          [] c.fn = "list"         -> createPyList(a)
          [] c.fn = "dict"         -> createPyDict(a)
          [] c.fn = "setattr"      -> py_object_set_attr(a[1], a[2], a[3])
          [] c.fn = "dictItems"    -> py_dict_iterate(a[1])
          [] c.fn = "listItems"    -> py_list_iterate(a[1])
          [] c.fn = "tupleItems"   -> py_tuple_iterate(a[1])
          [] c.fn = "items"        -> py_iterate(a[1])
          [] c.fn = "pyType"       -> py_get_type(a[1])
          [] c.fn = "__index"      -> metaIndex(a[1], a[2])
          [] c.fn = "__newindex"   -> py_object_newindex(a[1], a[2], a[3])
          [] c.fn = "__call"       -> py_object_call(a[1], Tail(a))
          [] c.fn = "__gc"         -> py_object_gc
          [] c.fn = "__len"        -> py_object_len(a[1])
          [] c.fn = "__pairs"      -> py_object_pairs(a[1])
          [] c.fn = "pairs_next"   -> py_object_next(a[1])
          [] c.fn = "dict_next"    -> dict_next
          [] c.fn = "iter_next"    -> iter_next
          [] c.fn = "list_next"    -> list_next(a # <<>>)
          [] c.fn = "tuple_next"   -> tuple_next(a # <<>>)

Frame(fn, code) == [fn |-> fn, code |-> code, gstate |-> "none"]

Last(s)   == s[Len(s)]
Front(s)  == SubSeq(s, 1, Len(s) - 1)
Top(t)    == Last(stack[t])
Step(t)   == Head(Top(t).code)
At(t, op) == stack[t] # <<>> /\ Step(t).op = op

\* The frames s with the innermost one continuing at code; after its first step.
Continue(s, code) == Append(Front(s), [Last(s) EXCEPT !.code = code])
Advance(s)        == IF s = <<>> THEN s ELSE Continue(s, Tail(Last(s).code))
\* ... and with handle g.
WithHandle(s, g)  == Append(Front(s), [Last(s) EXCEPT !.gstate = g, !.code = Tail(Last(s).code)])

SetHandle(t, g)     == stack' = [stack EXCEPT ![t] = WithHandle(@, g)]
Goto(t, code)       == stack' = [stack EXCEPT ![t] = Continue(@, code)]
Proceed(t)          == stack' = [stack EXCEPT ![t] = Advance(@)]
Enter(t, fn, code)  == stack' = [stack EXCEPT ![t] = Append(@, Frame(fn, code))]
Keepers(frames)     == {f.fn : f \in {g \in frames : g.gstate = "UNLOCKED"}}

------------------------------------------------------------------------------

Init ==
    /\ holder = Nobody
    /\ counter = [t \in LuaThreads |-> 0]
    /\ stack = [t \in LuaThreads |-> <<>>]
    /\ yielding = [t \in LuaThreads |-> FALSE]
    /\ kept = [t \in LuaThreads |-> {}]

\* A script on t calls a bridge function, or its allocation runs a finalizer.
Call(t, c) ==
    /\ stack[t] = <<>> /\ counter[t] < MaxCounter[t]
    /\ Enter(t, c.fn, Body(c))
    /\ UNCHANGED <<holder, counter, yielding, kept>>

\* PyGILState_Ensure of a thread that has the lock already ...
EnsureLocked(t) ==
    /\ At(t, "Ensure") /\ holder = t
    /\ counter' = [counter EXCEPT ![t] = @ + 1]
    /\ SetHandle(t, "LOCKED")
    /\ UNCHANGED <<holder, yielding, kept>>

\* ... and of one that has to wait for it.
EnsureUnlocked(t) ==
    /\ At(t, "Ensure") /\ holder = Nobody
    /\ holder' = t
    /\ counter' = [counter EXCEPT ![t] = @ + 1]
    /\ SetHandle(t, "UNLOCKED")
    /\ UNCHANGED <<yielding, kept>>

\* PyGILState_Release: the lock is given back with the thread's last handle, and
\* by a handle that took it.  Without the lock it is a fatal error.
PyGILState_Release(t) ==
    /\ At(t, "Release") /\ holder = t
    /\ counter' = [counter EXCEPT ![t] = @ - 1]
    /\ holder' = IF counter'[t] = 0 \/ Top(t).gstate = "UNLOCKED" THEN Nobody ELSE t
    /\ SetHandle(t, "none")
    /\ UNCHANGED <<yielding, kept>>

\* PyCallable_Check and PyTuple_Check of CallObject, whoever holds the lock.
TestType(t) ==
    /\ At(t, "Check")
    /\ Proceed(t)
    /\ UNCHANGED <<holder, counter, yielding, kept>>

\* A call of the C API returns, with either outcome.
Complete(t) ==
    /\ At(t, "Python") /\ holder = t
    /\ \/ Proceed(t)
       \/ Step(t).or # <<>> /\ Goto(t, Step(t).or)
    /\ UNCHANGED <<holder, counter, yielding, kept>>

\* While it runs Python code the interpreter lets other threads have the lock ...
Yield(t) ==
    /\ At(t, "Python") /\ holder = t
    /\ holder' = Nobody /\ yielding' = [yielding EXCEPT ![t] = TRUE]
    /\ UNCHANGED <<counter, stack, kept>>

\* Mutant: the lock is taken back by a thread that still counts as having lent it.
ResumeForgets(t) ==
    /\ yielding[t] /\ holder = Nobody
    /\ holder' = t
    /\ UNCHANGED <<counter, stack, yielding, kept>>

\* ... and takes it back before it goes on.
Resume(t) ==
    /\ yielding[t] /\ holder = Nobody
    /\ holder' = t /\ yielding' = [yielding EXCEPT ![t] = FALSE]
    /\ UNCHANGED <<counter, stack, kept>>

\* LuaToPython is called for an argument.
Convert(t) ==
    /\ At(t, "Convert")
    /\ Enter(t, "LuaToPython", LuaToPython(Step(t).arg))
    /\ UNCHANGED <<holder, counter, yielding, kept>>

\* toPyAuto calls itself for a nested table.
Nest(t) ==
    /\ At(t, "Call") \/ At(t, "PCall")
    /\ Enter(t, "toPyAuto", toPyAuto(Step(t).arg))
    /\ UNCHANGED <<holder, counter, yielding, kept>>

\* PrintPythonError: PyErr_Occurred() is asked first.
ReportError(t) ==
    /\ At(t, "Report")
    /\ Proceed(t) \/ Enter(t, "PrintPythonError", PrintPythonError)
    /\ UNCHANGED <<holder, counter, yielding, kept>>

\* A Lua allocation; the collector may finalize a wrapper first.
Allocate(t) ==
    /\ At(t, "Wrap")
    /\ \/ Proceed(t)
       \/ Enter(t, "__gc", py_object_gc)
    /\ UNCHANGED <<holder, counter, yielding, kept>>

\* The function returns; a caller goes on behind the call.
ReturnValue(t) ==
    /\ At(t, "Return")
    /\ stack' = [stack EXCEPT ![t] = Advance(Front(@))]
    /\ kept' = [kept EXCEPT ![t] = @ \cup Keepers({Top(t)})]
    /\ UNCHANGED <<holder, counter, yielding>>

\* LuaToPython returns NULL.
ReturnNull(t) ==
    /\ At(t, "Null")
    /\ stack' = [stack EXCEPT ![t] = LET s == Front(@) IN Continue(s, Head(Last(s).code).or)]
    /\ kept' = [kept EXCEPT ![t] = @ \cup Keepers({Top(t)})]
    /\ UNCHANGED <<holder, counter, yielding>>

\* A Lua error jumps to the innermost lua_pcall: toPyAuto's own, or the one the
\* script runs under.  The frames in between end where they are.
Throw(t) ==
    LET s == stack[t]
        catchers == {i \in 1..(Len(s) - 1) : Head(s[i].code).op = "PCall"}
        k == IF catchers = {} THEN 0 ELSE CHOOSE i \in catchers : \A j \in catchers : j <= i
        rest == SubSeq(s, 1, k)
    IN  /\ At(t, "Raise")
        /\ stack' = [stack EXCEPT ![t] = IF k = 0 THEN <<>> ELSE Continue(rest, Head(Last(rest).code).or)]
        /\ kept' = [kept EXCEPT ![t] = @ \cup Keepers({s[i] : i \in (k + 1)..Len(s)})]
        /\ UNCHANGED <<holder, counter, yielding>>

\* A Python thread of the game takes the lock, and gives it back.
GameTakes == holder = Nobody /\ holder' = Game /\ UNCHANGED <<counter, stack, yielding, kept>>
GameGives == holder = Game /\ holder' = Nobody /\ UNCHANGED <<counter, stack, yielding, kept>>

Running(t) ==
    \/ EnsureLocked(t) \/ PyGILState_Release(t) \/ TestType(t) \/ Convert(t) \/ Nest(t)
    \/ ReportError(t) \/ Allocate(t) \/ ReturnValue(t) \/ ReturnNull(t) \/ Throw(t)

Next ==
    \/ \E t \in LuaThreads :
          \/ \E c \in Calls[t] : Call(t, c)
          \/ Running(t) \/ EnsureUnlocked(t) \/ Complete(t) \/ Yield(t) \/ Resume(t)
    \/ GameTakes \/ GameGives

Spec == Init /\ [][Next]_vars

\* Threads run; Python calls end; and CPython forces a switch, so a thread that
\* waits for a lock that is free again and again gets it.
Fairness ==
    /\ \A t \in LuaThreads : WF_vars(Running(t)) /\ SF_vars(EnsureUnlocked(t))
                             /\ SF_vars(Complete(t)) /\ SF_vars(Resume(t))
    /\ SF_vars(GameTakes) /\ WF_vars(GameGives)

FairSpec == Spec /\ Fairness

------------------------------------------------------------------------------

\* A function of t ended without giving back the lock it took.
Kept(t) == kept[t] # {}

\* Types, and: a thread whose interpreter has lent out the lock is inside a
\* Python call and does not hold the lock.
TypeOK ==
    /\ holder \in LuaThreads \cup {Game, Nobody}
    /\ counter \in [LuaThreads -> Nat]
    /\ \A t \in LuaThreads :
          /\ \A i \in 1..Len(stack[t]) : stack[t][i].gstate \in {"none", "LOCKED", "UNLOCKED"}
          /\ yielding[t] => At(t, "Python") /\ holder # t

\* Bridge.cpp uses Python's C API (calls, type tests, the question for a pending
\* error, the conversion of a result) only while its thread holds the lock, whatever
\* conversions, error reports, finalizers and nested calls came before.  The one
\* exception is CallObject, which tests its two arguments before it takes the lock.
PythonUnderGIL ==
    \A t \in LuaThreads : \A op \in {"Python", "Check", "Report", "Wrap"} :
        At(t, op) /\ ~yielding[t] /\ holder # t =>
            op = "Check" /\ Len(stack[t]) = 1 /\ Top(t).fn = "callObject"

\* No path of the bridge releases a handle twice or without the lock (CPython
\* stops the process with Py_FatalError).
ReleaseNotFatal ==
    \A t \in LuaThreads : At(t, "Release") => Top(t).gstate # "none" /\ holder = t /\ counter[t] > 0

\* A thread that is back in Lua still holds the lock only if one of four
\* functions kept it: the two iterators that forget the Release at their end,
\* toPyAuto when a nested call throws through it, and the pairs iterator when
\* an item is not a pair.  The handles LuaToPython forgets never keep the lock.
KeptOnlyBy ==
    \A t \in LuaThreads : stack[t] = <<>> /\ holder = t =>
        kept[t] \cap {"dict_next", "iter_next", "toPyAuto", "pairs_next"} # {}

\* Once kept, the lock stays with the thread for good: no later bridge function
\* gives it back, only the interpreter lends it out inside Python calls.
KeptForGood == \A t \in LuaThreads : Kept(t) /\ ~yielding[t] => holder = t

\* Every bridge function comes back to Lua, with a result or an error, unless
\* another Lua thread has kept the lock.
CallsReturn ==
    \A t \in LuaThreads : (stack[t] # <<>>) ~> (stack[t] = <<>> \/ \E u \in LuaThreads \ {t} : Kept(u))

\* The game's Python threads get the lock again and again while scripts use the
\* bridge, unless a Lua thread has kept it.
GameServed == []<>(holder = Game) \/ <>(\E t \in LuaThreads : Kept(t))
==============================================================================
