---------------------------- MODULE BridgeObjects ----------------------------
(***************************************************************************)
(* Who owns the Python objects that Lua scripts hold.  Bridge.cpp has all  *)
(* its Py_INCREF and Py_DECREF commented out: a wrapper keeps the new      *)
(* references it was given for ever, points to borrowed ones without       *)
(* counting them, and hands its pointer to functions of the C API that     *)
(* either count it (dictionaries, attributes) or steal it (lists, tuples). *)
(* The game's Python code runs in between and drops its own references.    *)
(* Every function holds the interpreter lock while it touches counts, so   *)
(* one call is one step.  An object that is used after it was freed is     *)
(* undefined behaviour: no action continues from it.                       *)
(***************************************************************************)
EXTENDS Integers, Sequences, FiniteSets

CONSTANTS
    Objs,          \* Python objects; an address is used once
    Lists, Dicts,  \* which of them are lists (or tuples) and dictionaries
    Wrappers,      \* PyObjectWrapper userdata a script holds at once
    Iters,         \* iterators of GMP.listItems, GMP.tupleItems and GMP.dictItems
    None,          \* no object: a NULL pointer
    MaxItems,      \* bound: items of a container
    MaxTaken,      \* bound: new references to one object that the bridge is given
    MaxStolen      \* bound: references to one object that containers take over

Containers == Lists \cup Dicts

ASSUME ObjectsAssumption ==
    /\ IsFiniteSet(Objs) /\ Containers \subseteq Objs /\ Lists \cap Dicts = {}
    /\ None \notin Objs
    /\ MaxItems \in Nat \ {0} /\ MaxTaken \in Nat \ {0} /\ MaxStolen \in Nat \ {0}

VARIABLES
    life,       \* "none", "live", "freed"
    refs,       \* ob_refcnt
    held,       \* objects in the game's variables and attributes, one reference each
    items,      \* what each container holds
    wrapper,    \* [obj, borrowed]: the pointer, and whether its reference was only borrowed
    iter,       \* [obj, borrowed, index, size, rest]: a list's raw pointer, or a dict's items
    news,       \* history: new references the bridge was given and never gives back
    steals      \* history: references that containers took over uncounted

bridgeVars == <<wrapper, iter, news, steals>>
vars == <<life, refs, held, items, bridgeVars>>

NoIter == [obj |-> None, borrowed |-> FALSE, index |-> 0, size |-> 0, rest |-> <<>>]
Null   == [obj |-> None, borrowed |-> FALSE]

Count(s, o)    == Cardinality({i \in 1..Len(s) : s[i] = o})
Rest(s, i)     == SubSeq(s, 1, i - 1) \o SubSeq(s, i + 1, Len(s))
Live(o)        == life[o] = "live"
Fresh(o)       == life[o] = "none"
Free(w)        == wrapper[w].obj = None
Usable(w)      == ~Free(w) /\ Live(wrapper[w].obj)
Stored(o)      == {p \in Containers \X (1..MaxItems) : p[2] <= Len(items[p[1]]) /\ items[p[1]][p[2]] = o}

\* A container that is being freed drops its items first; nobody runs in between.
Settled == \A c \in Containers : life[c] = "freed" => items[c] = <<>>

\* The counts after the references in s were added, or o's last one was dropped.
Counted(s)  == refs' = [o \in Objs |-> refs[o] + Count(s, o)]
Decref(o)   == /\ refs' = [refs EXCEPT ![o] = @ - 1]
               /\ life' = [life EXCEPT ![o] = IF refs[o] = 1 THEN "freed" ELSE @]
Taken(s)    == /\ news' = [o \in Objs |-> news[o] + Count(s, o)]
               /\ \A o \in Objs : news'[o] <= MaxTaken
Stolen(s)   == /\ steals' = [o \in Objs |-> steals[o] + Count(s, o)]
               /\ \A o \in Objs : steals'[o] <= MaxStolen
Point(w, o, b) == Free(w) /\ wrapper' = [wrapper EXCEPT ![w] = [obj |-> o, borrowed |-> b]]

Init ==
    /\ life = [o \in Objs |-> "none"] /\ refs = [o \in Objs |-> 0]
    /\ held = {} /\ items = [c \in Containers |-> <<>>]
    /\ wrapper = [w \in Wrappers |-> Null] /\ iter = [i \in Iters |-> NoIter]
    /\ news = [o \in Objs |-> 0] /\ steals = [o \in Objs |-> 0]

------------------------------------------------------------------------------
(* Reading from Python.                                                      *)

\* PyImport_Import, PyObject_GetAttr (of GetAttr and py_object_index) and the
\* result of a call: a new reference to an object Python has.
NewReference(w, o) ==
    /\ Settled /\ o \in held /\ Live(o)
    /\ Point(w, o, FALSE) /\ Counted(<<o>>) /\ Taken(<<o>>)
    /\ UNCHANGED <<life, held, items, iter, steals>>

\* Mutant: the result is given back once its wrapper has it.
NewObjectDecref(w, o) ==
    /\ Settled /\ Fresh(o)
    /\ life' = [life EXCEPT ![o] = "freed"]
    /\ Point(w, o, FALSE)
    /\ UNCHANGED <<refs, held, items, iter, news, steals>>

\* A call, GMP.buildValue, GMP.toPyBytes: the result is an object of its own.
NewObject(w, o) ==
    /\ Settled /\ Fresh(o)
    /\ life' = [life EXCEPT ![o] = "live"]
    /\ Point(w, o, FALSE) /\ Counted(<<o>>) /\ Taken(<<o>>)
    /\ UNCHANGED <<held, items, iter, steals>>

\* An item of a list: PySequence_GetItem returns a new reference ...
GetSequenceItem(w, u, k) ==
    /\ Settled /\ Usable(u) /\ wrapper[u].obj \in Lists
    /\ k \in 1..Len(items[wrapper[u].obj])
    /\ LET o == items[wrapper[u].obj][k]
       IN  Live(o) /\ Point(w, o, FALSE) /\ Counted(<<o>>) /\ Taken(<<o>>)
    /\ UNCHANGED <<life, held, items, iter, steals>>

\* ... and of a dictionary, by key or as attribute: PyDict_GetItem lends one.
GetDictItem(w, u, k) ==
    /\ Settled /\ Usable(u) /\ wrapper[u].obj \in Dicts
    /\ k \in 1..Len(items[wrapper[u].obj])
    /\ LET o == items[wrapper[u].obj][k] IN Live(o) /\ Point(w, o, TRUE)
    /\ UNCHANGED <<life, refs, held, items, iter, news, steals>>

\* py_list_iterate, py_tuple_iterate: the pointer and the size of now are kept in
\* a Lua table, the wrapper is not.
py_list_iterate(i, u) ==
    /\ Settled /\ Usable(u) /\ wrapper[u].obj \in Lists
    /\ iter[i] = NoIter
    /\ iter' = [iter EXCEPT ![i] = [obj |-> wrapper[u].obj, borrowed |-> wrapper[u].borrowed,
                                    index |-> 0, size |-> Len(items[wrapper[u].obj]), rest |-> <<>>]]
    /\ UNCHANGED <<life, refs, held, items, wrapper, news, steals>>

\* Its function: PyList_GetItem lends the item; beyond the end of a list that has
\* shrunk it returns NULL, which becomes nil.
list_next(i, w) ==
    LET it == iter[i]
        k  == it.index + 1
    IN  /\ Settled /\ it.obj \in Lists /\ Live(it.obj) /\ it.index < it.size
        /\ iter' = [iter EXCEPT ![i].index = k]
        /\ IF k <= Len(items[it.obj])
           THEN Live(items[it.obj][k]) /\ Point(w, items[it.obj][k], TRUE)
           ELSE UNCHANGED wrapper
        /\ UNCHANGED <<life, refs, held, items, news, steals>>

\* py_dict_iterate and py_object_pairs of a dictionary: PyDict_Items makes a list
\* of pairs, which count their values and are never freed.
py_dict_iterate(i, u) ==
    /\ Settled /\ Usable(u) /\ wrapper[u].obj \in Dicts
    /\ iter[i] = NoIter
    /\ LET s == items[wrapper[u].obj]
       IN  /\ \A k \in 1..Len(s) : Live(s[k])
           /\ Counted(s) /\ Taken(s)
           /\ iter' = [iter EXCEPT ![i] = [NoIter EXCEPT !.rest = s]]
    /\ UNCHANGED <<life, held, items, wrapper, steals>>

\* dict_next, py_object_next: the value of the next pair.
dict_next(i, w) ==
    /\ Settled /\ iter[i].rest # <<>>
    /\ Point(w, Head(iter[i].rest), FALSE)
    /\ iter' = [iter EXCEPT ![i].rest = Tail(@)]
    /\ UNCHANGED <<life, refs, held, items, news, steals>>

\* The script lets go of an iterator.
DropIter(i) ==
    /\ Settled /\ iter[i] # NoIter
    /\ iter' = [iter EXCEPT ![i] = NoIter]
    /\ UNCHANGED <<life, refs, held, items, wrapper, news, steals>>

\* Mutant: the reference is given back, as the comment in the code would do it.
py_object_gcDecref(w) ==
    /\ Settled /\ Usable(w)
    /\ wrapper' = [wrapper EXCEPT ![w] = Null]
    /\ Decref(wrapper[w].obj)
    /\ UNCHANGED <<held, items, iter, news, steals>>

\* The collector finalizes a wrapper: only the pointer is cleared.
py_object_gc(w) ==
    /\ Settled /\ ~Free(w)
    /\ wrapper' = [wrapper EXCEPT ![w] = Null]
    /\ UNCHANGED <<life, refs, held, items, iter, news, steals>>

------------------------------------------------------------------------------
(* Writing to Python.                                                        *)

Pointers(us) == [k \in 1..Len(us) |-> wrapper[us[k]].obj]

\* createPyList, createPyTuple, toPyAuto and LuaToPython of an array: SetItem
\* steals the pointer of each argument.  If a later argument cannot be converted
\* the list stays as it is without a wrapper, like one that is finalized at once.
createPyList(w, c, us) ==
    /\ Settled /\ Fresh(c) /\ c \in Lists
    /\ \A k \in 1..Len(us) : Usable(us[k])
    /\ life' = [life EXCEPT ![c] = "live"]
    /\ items' = [items EXCEPT ![c] = Pointers(us)]
    /\ Point(w, c, FALSE) /\ Counted(<<c>>) /\ Taken(<<c>>) /\ Stolen(Pointers(us))
    /\ UNCHANGED <<held, iter>>

\* ... and of a Lua value: LuaToPython makes a new object for it, whose only
\* reference the list takes over.
createPyListOfValue(w, c, o) ==
    /\ Settled /\ Fresh(c) /\ c \in Lists /\ Fresh(o) /\ o \notin Containers
    /\ life' = [life EXCEPT ![c] = "live", ![o] = "live"]
    /\ items' = [items EXCEPT ![c] = <<o>>]
    /\ Point(w, c, FALSE) /\ Counted(<<c, o>>) /\ Taken(<<c, o>>) /\ Stolen(<<o>>)
    /\ UNCHANGED <<held, iter>>

\* Mutant: the value's reference is given back, as the comment behind
\* PyDict_SetItem would do it.
createPyDictDecref(w, c, u) ==
    /\ Settled /\ Fresh(c) /\ c \in Dicts /\ Usable(u)
    /\ life' = [life EXCEPT ![c] = "live"]
    /\ items' = [items EXCEPT ![c] = <<wrapper[u].obj>>]
    /\ Point(w, c, FALSE) /\ Counted(<<c>>) /\ Taken(<<c>>)
    /\ UNCHANGED <<held, iter, steals>>

\* createPyDict, toPyAuto of fields: PyDict_SetItem counts the value.
createPyDict(w, c, u) ==
    /\ Settled /\ Fresh(c) /\ c \in Dicts /\ Usable(u)
    /\ life' = [life EXCEPT ![c] = "live"]
    /\ items' = [items EXCEPT ![c] = <<wrapper[u].obj>>]
    /\ Point(w, c, FALSE) /\ Counted(<<c, wrapper[u].obj>>) /\ Taken(<<c>>)
    /\ UNCHANGED <<held, iter, steals>>

\* BuildValue of a list, a tuple or a dictionary.  The format's letters for C values
\* become "O", which counts the argument, as "S" and "U" do; an "N" is left in it and
\* takes the reference over.  ns are the arguments under "N".
BuildValue(w, c, us, ns) ==
    LET s      == Pointers(us)
        byN(o) == Cardinality({k \in ns : s[k] = o})
    IN  /\ Settled /\ Fresh(c)
        /\ \A k \in 1..Len(us) : Usable(us[k])
        /\ life' = [life EXCEPT ![c] = "live"]
        /\ items' = [items EXCEPT ![c] = s]
        /\ Point(w, c, FALSE) /\ Taken(<<c>>)
        /\ refs' = [o \in Objs |-> refs[o] + Count(<<c>>, o) + Count(s, o) - byN(o)]
        /\ steals' = [o \in Objs |-> steals[o] + byN(o)]
        /\ \A o \in Objs : steals'[o] <= MaxStolen
        /\ UNCHANGED <<held, iter>>

\* BuildValue of a single "O" or "N" returns its argument: counted, or as it is.
BuildValueOfOne(w, u) ==
    /\ Settled /\ Usable(u)
    /\ LET o == wrapper[u].obj
       IN  \/ Point(w, o, FALSE) /\ Counted(<<o>>) /\ Taken(<<o>>)
           \/ Point(w, o, wrapper[u].borrowed) /\ UNCHANGED <<refs, news>>
    /\ UNCHANGED <<life, held, items, iter, steals>>

\* py_object_newindex and py_object_set_attr: PyObject_SetAttr counts the value.
\* A call whose function keeps its argument does the same: the tuple of arguments
\* steals the pointer and is never freed, so that it never drops it.
SetAttr(u) ==
    /\ Settled /\ Usable(u) /\ wrapper[u].obj \notin held
    /\ held' = held \cup {wrapper[u].obj}
    /\ Counted(<<wrapper[u].obj>>)
    /\ UNCHANGED <<life, items, bridgeVars>>

------------------------------------------------------------------------------
(* The game's Python code.                                                   *)

GameNew(o) ==
    /\ Settled /\ Fresh(o)
    /\ life' = [life EXCEPT ![o] = "live"]
    /\ held' = held \cup {o}
    /\ Counted(<<o>>)
    /\ UNCHANGED <<items, bridgeVars>>

GameDrop(o) ==
    /\ Settled /\ o \in held /\ Live(o)
    /\ held' = held \ {o}
    /\ Decref(o)
    /\ UNCHANGED <<items, bridgeVars>>

\* Containers do not come to hold themselves: no cycles, no cyclic collector.
GameInsert(c, o) ==
    /\ Settled /\ {c, o} \subseteq held /\ Live(c) /\ Live(o)
    /\ o \notin Containers \/ (c \in Dicts /\ o \in Lists)
    /\ Len(items[c]) < MaxItems
    /\ items' = [items EXCEPT ![c] = Append(@, o)]
    /\ Counted(<<o>>)
    /\ UNCHANGED <<life, held, bridgeVars>>

GameRemove(c, k) ==
    /\ Settled /\ c \in held /\ Live(c)
    /\ k \in 1..Len(items[c]) /\ Live(items[c][k])
    /\ items' = [items EXCEPT ![c] = Rest(@, k)]
    /\ Decref(items[c][k])
    /\ UNCHANGED <<held, bridgeVars>>

\* list_dealloc, dict_dealloc
Dealloc(c) ==
    /\ life[c] = "freed" /\ items[c] # <<>>
    /\ Live(Head(items[c]))
    /\ items' = [items EXCEPT ![c] = Tail(@)]
    /\ Decref(Head(items[c]))
    /\ UNCHANGED <<held, bridgeVars>>

------------------------------------------------------------------------------

Args == {us \in UNION {[1..n -> Wrappers] : n \in 0..MaxItems} : \A k \in 1..Len(us) : ~Free(us[k])}

Read(w) ==
    \/ \E o \in Objs : NewReference(w, o) \/ NewObject(w, o)
    \/ \E u \in Wrappers, k \in 1..MaxItems : GetSequenceItem(w, u, k) \/ GetDictItem(w, u, k)
    \/ \E i \in Iters : list_next(i, w) \/ dict_next(i, w)

Write(w) ==
    \/ \E c \in Lists, us \in Args : createPyList(w, c, us)
    \/ \E c \in Containers, us \in Args : \E ns \in SUBSET (1..Len(us)) : BuildValue(w, c, us, ns)
    \/ \E u \in Wrappers : BuildValueOfOne(w, u)
    \/ \E c \in Lists, o \in Objs : createPyListOfValue(w, c, o)
    \/ \E c \in Dicts, u \in Wrappers : createPyDict(w, c, u)

Game ==
    \/ \E o \in Objs : GameNew(o) \/ GameDrop(o)
    \/ \E c \in Containers, o \in Objs : GameInsert(c, o)
    \/ \E c \in Containers, k \in 1..MaxItems : GameRemove(c, k)
    \/ \E c \in Containers : Dealloc(c)

Next ==
    \/ \E w \in Wrappers : Read(w) \/ Write(w) \/ py_object_gc(w) \/ SetAttr(w)
    \/ \E i \in Iters, u \in Wrappers : py_list_iterate(i, u) \/ py_dict_iterate(i, u)
    \/ \E i \in Iters : DropIter(i)
    \/ Game

Spec == Init /\ [][Next]_vars

------------------------------------------------------------------------------

\* The books balance: a live object's count is what Python refers to it with, plus
\* what the bridge was given, minus what the bridge gave away uncounted; and an object
\* is freed exactly when that comes to zero.
RefsAccounted ==
    \A o \in Objs :
        IF Live(o)
        THEN refs[o] > 0 /\ refs[o] = Cardinality(Stored(o)) + (IF o \in held THEN 1 ELSE 0) + news[o] - steals[o]
        ELSE refs[o] = 0

\* A pointer of a script (a wrapper, a list iterator) outlives its object only if it
\* was borrowed, or if containers took over as many references to the object uncounted
\* as the bridge ever had.
OwnedSafe ==
    \A p \in {wrapper[w] : w \in Wrappers} \cup {[obj |-> iter[i].obj, borrowed |-> iter[i].borrowed] : i \in Iters} :
        p.obj # None /\ ~p.borrowed /\ life[p.obj] = "freed" => steals[p.obj] >= news[p.obj] /\ news[p.obj] > 0

\* Python itself comes to refer to a freed object only if containers made by
\* scripts took over more references to it than the bridge had: borrowed pointers and
\* finalizers alone never damage the game's own data.
PythonSafe ==
    \A o \in Objs : life[o] = "freed" /\ (o \in held \/ Stored(o) # {}) => steals[o] > news[o]
==============================================================================
