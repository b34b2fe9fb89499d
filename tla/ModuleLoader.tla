----------------------------- MODULE ModuleLoader -----------------------------
(***************************************************************************)
(* GMP.require: LuaAPI::RequireScript with LuaVM's loadingModules and      *)
(* loadedModules, and the script run by ExecuteString or ExecuteFile below *)
(* it.  A module is the path FindModule returns; what its chunk requires   *)
(* is chosen once and then fixed.                                          *)
(***************************************************************************)
EXTENDS Naturals, Sequences

CONSTANTS Modules,      \* the paths of files that exist
          Missing,      \* a name for which FindModule returns ""
          MaxRuns       \* bound: how many scripts are run

ASSUME ModulesAssumption == Missing \notin Modules /\ MaxRuns \in Nat

VARIABLES
    requires,        \* fixed: what each module's chunk may require
    broken,          \* fixed: the modules luaL_loadfile rejects
    loadingModules,
    loadedModules,
    stack,           \* the chunks on the C stack, outermost first (without the script)
    raised,          \* the Lua error that is unwinding, or "none"
    blamed,          \* the module a circular dependency was reported for
    completed,       \* history: modules whose chunk ran to its end since the cache was new
    twice,           \* history: ... and again, without the cache having been cleared
    running,         \* a script is being executed
    runs             \* scripts started

fixed == <<requires, broken>>
vars  == <<fixed, loadingModules, loadedModules, stack, raised, blamed, completed, twice, running, runs>>

Errors == {"none", "notfound", "circular", "load", "runtime"}
Names  == Modules \cup {Missing}

Init ==
    /\ requires \in [Modules -> SUBSET Modules]
    /\ broken \in SUBSET Modules
    /\ loadingModules = {} /\ loadedModules = {}
    /\ stack = <<>> /\ raised = "none" /\ blamed = Missing
    /\ completed = {} /\ twice = {}
    /\ running = FALSE /\ runs = 0

Pop(s) == SubSeq(s, 1, Len(s) - 1)

\* What the running chunk may require: anything if it is the script itself.
Requirable == {Missing} \cup (IF stack = <<>> THEN Modules ELSE requires[stack[Len(stack)]])

\* ExecuteString / ExecuteFile: lua_pcall on a chunk; a script that does not load
\* ends at once and changes nothing here.
StartScript ==
    /\ ~running /\ runs < MaxRuns
    /\ running' = TRUE /\ runs' = runs + 1
    /\ UNCHANGED <<fixed, loadingModules, loadedModules, stack, raised, blamed, completed, twice>>

\* The script returns, or its lua_pcall catches the error.
EndScript ==
    /\ running /\ stack = <<>>
    /\ running' = FALSE /\ raised' = "none"
    /\ UNCHANGED <<fixed, loadingModules, loadedModules, stack, blamed, completed, twice, runs>>

\* The running chunk calls GMP.require(m).
CallRequire(m) == running /\ raised = "none" /\ m \in Requirable

\* FindModule tries every candidate and finds none.
RequireMissing(m) ==
    /\ CallRequire(m) /\ m = Missing
    /\ raised' = "notfound"
    /\ UNCHANGED <<fixed, loadingModules, loadedModules, stack, blamed, completed, twice, running, runs>>

RequireCircular(m) ==
    /\ CallRequire(m) /\ m \in loadingModules
    /\ raised' = "circular" /\ blamed' = m
    /\ UNCHANGED <<fixed, loadingModules, loadedModules, stack, completed, twice, running, runs>>

\* Already loaded: return 0, nothing happens.
RequireLoaded(m) ==
    /\ CallRequire(m) /\ m \in loadedModules \ loadingModules
    /\ UNCHANGED vars

\* Mutant: the cache is not looked at.
RequireEnterAgain(m) ==
    /\ CallRequire(m) /\ m \in Modules \ loadingModules
    /\ m \notin broken
    /\ loadingModules' = loadingModules \cup {m}
    /\ stack' = Append(stack, m)
    /\ UNCHANGED <<fixed, loadedModules, raised, blamed, completed, twice, running, runs>>

\* Mark it as loading, load the file and run its chunk under lua_pcall.
RequireEnter(m) ==
    /\ CallRequire(m) /\ m \in Modules \ (loadingModules \cup loadedModules)
    /\ m \notin broken
    /\ loadingModules' = loadingModules \cup {m}
    /\ stack' = Append(stack, m)
    /\ UNCHANGED <<fixed, loadedModules, raised, blamed, completed, twice, running, runs>>

\* luaL_loadfile fails: the mark is taken back before the error is raised.
RequireLoadError(m) ==
    /\ CallRequire(m) /\ m \in broken \ (loadingModules \cup loadedModules)
    /\ raised' = "load"
    /\ UNCHANGED <<fixed, loadingModules, loadedModules, stack, blamed, completed, twice, running, runs>>

\* The running chunk fails by itself.
ChunkError ==
    /\ running /\ raised = "none"
    /\ raised' = "runtime"
    /\ UNCHANGED <<fixed, loadingModules, loadedModules, stack, blamed, completed, twice, running, runs>>

\* The chunk catches the error with its own pcall and goes on.
ChunkCatches ==
    /\ running /\ raised # "none"
    /\ raised' = "none"
    /\ UNCHANGED <<fixed, loadingModules, loadedModules, stack, blamed, completed, twice, running, runs>>

\* Mutant: the mark stays behind when the chunk fails.
UnwindMarked ==
    /\ stack # <<>> /\ raised # "none"
    /\ stack' = Pop(stack)
    /\ raised' = "runtime"
    /\ UNCHANGED <<fixed, loadingModules, loadedModules, blamed, completed, twice, running, runs>>

\* RequireScript's lua_pcall returns an error: take the mark back, raise it again
\* in the chunk that required the module.
Unwind ==
    /\ stack # <<>> /\ raised # "none"
    /\ loadingModules' = loadingModules \ {stack[Len(stack)]}
    /\ stack' = Pop(stack)
    /\ raised' = "runtime"
    /\ UNCHANGED <<fixed, loadedModules, blamed, completed, twice, running, runs>>

\* The chunk returns: loading mark off, loaded mark on.
Complete ==
    /\ stack # <<>> /\ raised = "none"
    /\ LET m == stack[Len(stack)]
       IN  /\ loadingModules' = loadingModules \ {m}
           /\ loadedModules' = loadedModules \cup {m}
           /\ completed' = completed \cup {m}
           /\ twice' = IF m \in completed THEN twice \cup {m} ELSE twice
    /\ stack' = Pop(stack)
    /\ UNCHANGED <<fixed, raised, blamed, running, runs>>

\* ClearModuleCache: called from outside a script.
ClearModuleCache ==
    /\ ~running
    /\ loadedModules' = {} /\ completed' = {} /\ twice' = {}
    /\ UNCHANGED <<fixed, loadingModules, stack, raised, blamed, running, runs>>

\* Mutant: Shutdown keeps the loaded marks.
ShutdownKeepsLoaded ==
    /\ ~running
    /\ loadingModules' = {} /\ completed' = {} /\ twice' = {}
    /\ UNCHANGED <<fixed, loadedModules, stack, raised, blamed, running, runs>>

\* Shutdown closes the state and clears both sets; Initialize may follow.
Shutdown ==
    /\ ~running
    /\ loadingModules' = {} /\ loadedModules' = {} /\ completed' = {} /\ twice' = {}
    /\ UNCHANGED <<fixed, stack, raised, blamed, running, runs>>

Next ==
    \/ StartScript \/ EndScript
    \/ \E m \in Names : \/ RequireMissing(m) \/ RequireCircular(m) \/ RequireLoaded(m)
                        \/ RequireEnter(m) \/ RequireLoadError(m)
    \/ ChunkError \/ ChunkCatches \/ Unwind \/ Complete
    \/ ClearModuleCache \/ Shutdown

Spec == Init /\ [][Next]_vars

-------------------------------------------------------------------------------

\* The sets and the stack of RequireScript hold modules; a pending error is of a kind
\* the code raises.
TypeOK ==
    /\ requires \in [Modules -> SUBSET Modules] /\ broken \in SUBSET Modules
    /\ loadingModules \in SUBSET Modules /\ loadedModules \in SUBSET Modules
    /\ stack \in Seq(Modules)
    /\ raised \in Errors /\ blamed \in Names
    /\ completed \in SUBSET Modules /\ twice \in SUBSET Modules
    /\ running \in BOOLEAN /\ runs \in Nat

Entries(s)  == {s[i] : i \in 1..Len(s)}
Distinct(s) == \A i, j \in 1..Len(s) : s[i] = s[j] => i = j

\* loadingModules is exactly the set of modules on the C stack, and no module is on
\* it twice: whatever fails, is caught or is retried, no mark is left behind (a later
\* require would report a cycle that is not there) and none is missing (a cycle would
\* recurse until the C stack overflows).
LoadingIsStack == loadingModules = Entries(stack) /\ Distinct(stack)

\* A module is never loaded and loading, and loaded means its chunk ran to its end.
LoadedCompleted == loadedModules \cap loadingModules = {} /\ loadedModules = completed

\* No chunk runs to its end twice unless the cache was cleared in between.
AtMostOnce == twice = {}

\* Between scripts nothing is marked as loading and no error is pending.
QuietBetweenScripts == ~running => loadingModules = {} /\ raised = "none"
\* m requires itself, directly or through others: it is in every set that holds what m
\* requires and what the set's own members require.
Circular(m) ==
    \A S \in SUBSET Modules : requires[m] \subseteq S /\ (\A x \in S : requires[x] \subseteq S) => m \in S

\* A circular dependency is reported only for a module that really requires itself,
\* directly or through others.
CircularIsReal == raised = "circular" => Circular(blamed)
===============================================================================
