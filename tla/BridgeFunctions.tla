--------------------------- MODULE BridgeFunctions ---------------------------
(***************************************************************************)
(* What each function of Bridge.cpp does with Python's global interpreter  *)
(* lock: for given Lua arguments, the sequence of steps on its way from    *)
(* entry to return.  A step with an "or" has a second outcome (a NULL      *)
(* result, a Lua error of a protected call); the path then goes on with    *)
(* that code instead of the steps behind it.  The C++ handlers catch(...)  *)
(* are not paths: the Python C API throws no C++ exception, and the build  *)
(* (/EHsc) does not let them see a Lua error.                              *)
(***************************************************************************)
EXTENDS Naturals, Sequences

Ext == INSTANCE SequencesExt

\* Lua values.  "object" is a PyObject wrapper, "husk" one whose obj is NULL.
\* type is the Python type of an object, array and fields (pairs) the parts of a table.
Kinds == {"nil", "boolean", "number", "string", "table", "function", "userdata", "object", "husk"}
Plain(kind)          == [kind |-> kind, type |-> "none", array |-> <<>>, fields |-> <<>>]
Object(type)         == [Plain("object") EXCEPT !.type = type]
Table(array, fields) == [Plain("table") EXCEPT !.array = array, !.fields = fields]

IsObject(v)   == v.kind = "object"
isUserdata(v) == v.kind \in {"userdata", "object", "husk"}
isString(v)   == v.kind \in {"string", "number"}     \* lua_isstring, luaL_checkstring

\* Steps.
Ensure  == [op |-> "Ensure"]
Release == [op |-> "Release"]
Return  == [op |-> "Return"]          \* return to the caller
Null    == [op |-> "Null"]            \* ... with a NULL PyObject*
Raise   == [op |-> "Raise"]           \* luaL_error and the errors of the Lua API
Python  == [op |-> "Python", or |-> <<>>]             \* C API calls whose failure changes nothing here
PythonOr(code)     == [op |-> "Python", or |-> code]
ConvertOr(v, code) == [op |-> "Convert", arg |-> v, or |-> code]    \* LuaToPython(v)
CallAuto(v)        == [op |-> "Call", arg |-> v]                    \* lua_call of toPyAuto
PCallAuto(v, code) == [op |-> "PCall", arg |-> v, or |-> code]      \* lua_pcall of toPyAuto
Check   == [op |-> "Check"]           \* a test of an object's Python type where the lock is not taken
Report  == [op |-> "Report"]          \* PrintPythonError
Wrap    == [op |-> "Wrap"]            \* a Lua allocation: it may run the collector

Done == <<Release, Return>>
Fail == <<Release, Raise>>

\* The steps of Each(x) for every element x of s, in order.
ForEach(s, Each(_)) == Ext!FlattenSeq([i \in 1..Len(s) |-> Each(s[i])])

------------------------------------------------------------------------------

\* Mutant: a Release for the scalars, twice.
LuaToPythonTwice(v) ==
    CASE IsObject(v)           -> <<Ensure, Release, Return>>
      [] v.kind = "string"     -> <<Ensure, PythonOr(<<Release, Null>>), Release, Release, Return>>
      [] OTHER                 -> <<Ensure, Release, Null>>

\* Only the object, string and table cases reach a Release.  A table with array
\* part is converted by that part alone, any other one by its fields.
LuaToPython(v) ==
    LET Lost == <<Release, Null>>
    IN  CASE IsObject(v)                        -> <<Ensure, Release, Return>>
          [] v.kind = "nil"                     -> <<Ensure, Return>>
          [] v.kind \in {"boolean", "number"}   -> <<Ensure, PythonOr(<<Null>>), Return>>
          [] v.kind = "string"                  -> <<Ensure, PythonOr(<<PythonOr(Lost)>> \o Done)>> \o Done
          [] v.kind \in {"husk", "userdata", "function"} -> <<Ensure, Null>>
          [] v.kind = "table" /\ v.array # <<>> ->
                <<Ensure, PythonOr(Lost)>> \o ForEach(v.array, LAMBDA x : <<ConvertOr(x, Lost)>>) \o Done
          [] v.kind = "table" /\ v.array = <<>> ->
                <<Ensure, PythonOr(Lost)>>
                \o ForEach(v.fields, LAMBDA p : <<ConvertOr(p[1], Lost), ConvertOr(p[2], Lost), PythonOr(Lost)>>)
                \o Done

\* It may find no error pending: then it returns at once.
PrintPythonError == <<Ensure, Python, Release, Return>>

\* The references it would give back are not given back; it only takes the lock.
py_object_gc == <<Ensure, Release, Return>>

py_object_index(self, key) ==
    IF ~IsObject(self) THEN <<Raise>>
    ELSE <<Ensure, PythonOr(Fail), PythonOr(<<Report>> \o Fail), Wrap>> \o Done

py_object_getitem(self, key) ==
    IF ~IsObject(self) THEN <<Raise>>
    ELSE <<Ensure, ConvertOr(key, Fail), PythonOr(Done), Wrap>> \o Done

\* The __index metamethod: a string key is an attribute, any other an item.
metaIndex(self, key) ==
    IF key.kind = "string" THEN py_object_index(self, key) ELSE py_object_getitem(self, key)

py_object_call(self, args) ==
    IF ~IsObject(self) THEN <<Raise>>
    ELSE <<Ensure, Python>> \o ForEach(args, LAMBDA a : <<ConvertOr(a, Fail)>>)
         \o <<PythonOr(<<Report>> \o Fail), Wrap>> \o Done

MaxArgs == 20

BuildValue(args) ==
    IF args = <<>> \/ ~isString(args[1]) THEN <<Raise>>
    ELSE <<Ensure>> \o ForEach(Tail(args), LAMBDA a : <<ConvertOr(a, Fail)>>)
         \o (IF Len(args) - 1 > MaxArgs THEN Fail ELSE <<PythonOr(Fail), Wrap>> \o Done)

\* Both arguments are tested, each only when the one before it has passed, and the
\* lock is taken behind the tests.
CallObject(callable, args) ==
    LET called == IF args.type # "tuple" THEN <<Raise>> ELSE <<Ensure, PythonOr(Fail), Wrap>> \o Done
        tested == IF callable.type # "callable" \/ ~IsObject(args) THEN <<Raise>> ELSE <<Check>> \o called
    IN  IF ~IsObject(callable) THEN <<Raise>> ELSE <<Check>> \o tested

GetAttr(obj, name) ==
    IF ~IsObject(obj) \/ ~isString(name) THEN <<Raise>>
    ELSE <<Ensure, PythonOr(Fail), PythonOr(Fail), Wrap>> \o Done

FromString(str) ==
    IF ~isString(str) THEN <<Raise>> ELSE <<Ensure, PythonOr(Fail), Wrap>> \o Done

ImportModule(name) ==
    IF ~isString(name) THEN <<Raise>>
    ELSE <<Ensure, PythonOr(Fail), PythonOr(<<Python>> \o Fail), Wrap>> \o Done

\* Only a live object is formatted by Python.
ToString(v) == IF IsObject(v) THEN <<Ensure, Python, Release, Return>> ELSE <<Return>>

\* The values py_object_newindex and py_object_set_attr convert themselves.
OwnValue(v) ==
    CASE v.kind \in {"nil", "boolean"}   -> <<>>
      [] v.kind \in {"number", "string"} -> <<PythonOr(Fail)>>
      [] IsObject(v)                     -> <<Python>>
      [] OTHER                           -> <<ConvertOr(v, Fail)>>

py_object_newindex(self, key, v) ==
    IF ~IsObject(self) \/ ~isString(key) THEN <<Raise>>
    ELSE <<Ensure, PythonOr(Fail)>> \o (IF v.kind = "husk" THEN Fail ELSE OwnValue(v))
         \o <<PythonOr(<<Report>> \o Fail)>> \o Done

py_object_set_attr(self, key, v) ==
    IF ~IsObject(self) \/ ~isString(key) THEN <<Raise>>
    ELSE <<Ensure, PythonOr(Fail), Python>> \o OwnValue(v)
         \o <<PythonOr(<<Python>> \o Fail)>> \o Done

\* Mutant: the lock is given back before the length is asked for.
LenUnlocked(self) ==
    IF ~IsObject(self) THEN <<Raise>> ELSE <<Ensure, Release, PythonOr(<<Raise>>), Return>>

\* Mutant: the handle that took the lock is lost to a second Ensure.
LenNested(self) ==
    IF ~IsObject(self) THEN <<Raise>> ELSE <<Ensure, Ensure, PythonOr(Fail)>> \o Done

py_object_len(self) ==
    IF ~IsObject(self) THEN <<Raise>> ELSE <<Ensure, PythonOr(Fail)>> \o Done

py_object_pairs(self) ==
    IF ~IsObject(self) THEN <<Raise>>
    ELSE <<Ensure>> \o (IF self.type = "dict" THEN <<PythonOr(Fail)>> ELSE <<>>)
         \o <<PythonOr(Fail), Wrap>> \o Done

\* As the generic for calls it: argument 1 is nil, which has no environment, so
\* an item that is not a pair ends in a Lua error at lua_getfield.
py_object_next(self) ==
    <<Ensure, PythonOr(Done)>> \o (IF self.type = "dict" THEN <<>> ELSE <<PythonOr(<<Raise>>)>>)
    \o <<Wrap>> \o Done

toPyBytes(data) ==
    IF ~isString(data) THEN <<Raise>> ELSE <<Ensure, PythonOr(Fail), Wrap>> \o Done

\* A table without array part counts as sequential, whatever its fields.  The
\* fields' keys are converted by LuaToPython; a userdata value is looked up at
\* the wrong stack index and always refused.
toPyAuto(v) ==
    LET sequential == v.array = <<>> \/ v.fields = <<>>
        Item(x)  == IF x.kind = "table" THEN <<CallAuto(x)>> ELSE <<ConvertOr(x, Fail)>>
        Value(x) == CASE isUserdata(x)     -> Fail
                      [] x.kind = "table"  -> <<PCallAuto(x, Fail)>>
                      [] OTHER             -> <<ConvertOr(x, Fail)>>
        Pair(p)  == <<ConvertOr(p[1], Fail)>> \o Value(p[2]) \o <<PythonOr(Fail)>>
        indexed  == [i \in 1..Len(v.array) |-> <<Plain("number"), v.array[i]>>]
    IN  IF v.kind # "table" THEN <<Raise>>
        ELSE <<Ensure, PythonOr(Fail)>>
             \o (IF sequential THEN ForEach(v.array, Item) ELSE ForEach(indexed \o v.fields, Pair))
             \o <<Wrap>> \o Done

\* An argument of GMP.tuple, GMP.list and GMP.dict: an object is taken as it is.
Argument(a) == IF IsObject(a) THEN <<>> ELSE <<ConvertOr(a, Fail)>>

\* Mutant: an argument that cannot be converted keeps the lock.
createPyTupleKeeps(args) ==
    <<Ensure, PythonOr(Fail)>> \o ForEach(args, LAMBDA a : <<ConvertOr(a, <<Raise>>)>>) \o <<Wrap>> \o Done

createPyTuple(args) == <<Ensure, PythonOr(Fail)>> \o ForEach(args, Argument) \o <<Wrap>> \o Done

createPyList(args)  == <<Ensure, PythonOr(Fail)>> \o ForEach(args, Argument) \o <<Wrap>> \o Done

createPyDict(args) ==
    LET Pair(i) == Argument(args[2*i - 1]) \o Argument(args[2*i]) \o <<PythonOr(Fail)>>
    IN  IF Len(args) % 2 # 0 THEN <<Raise>>
        ELSE <<Ensure, PythonOr(Fail)>> \o ForEach([i \in 1..(Len(args) \div 2) |-> i], Pair) \o <<Wrap>> \o Done

py_dict_iterate(self) ==
    IF ~IsObject(self) THEN <<Raise>>
    ELSE <<Ensure>> \o (IF self.type # "dict" THEN Fail ELSE <<PythonOr(Fail), PythonOr(Fail), Wrap>> \o Done)

py_list_iterate(self) ==
    IF ~IsObject(self) THEN <<Raise>>
    ELSE <<Ensure>> \o (IF self.type # "list" THEN Fail ELSE <<Python, Wrap>> \o Done)

py_tuple_iterate(self) ==
    IF ~IsObject(self) THEN <<Raise>>
    ELSE <<Ensure>> \o (IF self.type \notin {"list", "tuple"} THEN Fail ELSE <<Python, Wrap>> \o Done)

\* The lock is given back before the function for the type takes it again.
py_iterate(self) ==
    IF ~IsObject(self) THEN <<Raise>>
    ELSE CASE self.type = "dict"  -> <<Ensure, Release>> \o py_dict_iterate(self)
           [] self.type = "list"  -> <<Ensure, Release>> \o py_list_iterate(self)
           [] self.type = "tuple" -> <<Ensure, Release>> \o py_tuple_iterate(self)
           [] OTHER               -> <<Ensure, PythonOr(Fail), Wrap>> \o Done

\* What the iterators do when there is no next item: the missing braces put the
\* Release, but not the return, under "if (PyErr_Occurred())".
Exhausted == <<PythonOr(<<Return>>), Release, Return>>

\* The iterators of py_dict_iterate and of py_iterate's last case.
dict_next == <<Ensure, PythonOr(Exhausted), Wrap>> \o Done
iter_next == <<Ensure, PythonOr(Exhausted), Wrap>> \o Done

\* The iterators of py_list_iterate and py_tuple_iterate: at the end they return at once.
list_next(more)  == IF more THEN <<Ensure, Python, Wrap>> \o Done ELSE <<Return>>
tuple_next(more) == IF more THEN <<Ensure, Python, Wrap>> \o Done ELSE <<Return>>

py_get_type(self) ==
    CASE IsObject(self)       -> <<Ensure, Python>> \o Done
      [] self.kind = "husk"   -> <<Return>>
      [] OTHER                -> <<Raise>>
==============================================================================
