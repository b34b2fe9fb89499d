# Verification of GMPro (GunfireReborn_GMPro_lua)

GMPro is a DLL that runs Lua scripts inside a game.  It draws an overlay from a
hook in the game's render loop, takes scripts from other processes through an
exported function, runs them on a Lua thread and lets them call into the game's
embedded CPython 3.6.  This directory models its concurrent core in TLA+, checks
the models with TLC and proves their invariants with TLAPS.  Paths below are relative
to `src/DX11-Base-GM/` unless they say otherwise.

## 1. The system

| Part | State | Operations | Talks to |
|---|---|---|---|
| Script queue (`Source.cpp`, `src/LuaVM.cpp`) | `scriptQueue` (at most 5), `queueMutex`, `queueCondition`, `threadRunning`, `scriptMutex` | `RemoteRunScript`, `QueueScriptForExecution`, `LuaExecutionThread`, `Shutdown` | callers' threads, Lua thread, render thread |
| DLL lifecycle (`Source.cpp`, `src/Engine.cpp`, `src/Menu.cpp`) | `g_Running`, `g_KillSwitch`, `g_Engine`, `g_LuaVM`, the hooks, `bShowMenu` | `MainThread_Initialize`, `ClientBGThread`, Present hook, `RunScript`, UNHOOK | every thread, through atomics and raw pointers without locks |
| Module loader (`src/LuaVM.cpp`) | `loadedModules`, `loadingModules` | `GMP.require`, `ClearModuleCache`, `Shutdown` | Lua chunks, by `lua_pcall` and Lua errors |
| Python bridge, locking (`src/Bridge.cpp`) | PyGILState handles, the interpreter lock | every `GMP.*` function and every metamethod of `PyObject` | the game's Python threads |
| Python bridge, values (`src/Bridge.cpp`) | reference counts, wrappers | `LuaToPython`, `PythonToLua`, `toPyAuto` | CPython objects |
| `SafeStringBuffer` (`src/Bridge.cpp`) | buffer, capacity, size | `append`, `clear` | error reports |
| Script editor (`src/Menu.cpp`) | `scriptFiles`, `selectedScript`, `EditorBuffer`, the dialog | select, type, save, new, create, refresh, clear | files, render thread |
| D3D11 window, hooking (`src/Engine.cpp`) | hooks, window procedure, render target view, ImGui context | `HookD3D`, `UnhookD3D`, Present and ResizeBuffers hooks, `InitImGui` | Direct3D, MinHook, the main and background threads |
| Console, menu (`src/Engine.cpp`, `src/Menu.cpp`) | log buffer, windows | log, draw | every thread |
| Loader program (`src/DllInjector/`) and exports (`Source.cpp`) | handles, memory and threads in the game; `g_HookD3DSwitch` | `InjectDll`, `CallRemoteExportFunction`; `SetUIVisibility`, `InitializeMod`, `RemoteRunScript` | the game process |

What is hard here: five kinds of threads share flags and global objects with hardly
a lock; shutdown relies on sleeps; a condition variable is notified outside its
mutex; Lua errors are `longjmp`s that skip the rest of a C function, releases
included; the global interpreter lock is taken by hand on every path of some
thirty C functions; Python's reference counts are never touched by them, although
some of the functions they call steal references and others lend them; and the loader
program works on a library that its own mod may unload meanwhile.  `PROJECT.json`
lists these hazards line by line.

What makes each part correct:

* Queue: a script accepted is run once, in order; the queue is bounded; no wakeup
  is lost; a stop ends the worker.
* Lifecycle: nothing is used before it exists or after it is gone; UNHOOK ends in a
  clean unload; one thread at a time is inside the `lua_State`.
* Loader: the loading marks mirror the C stack, so cycles are found and none is
  invented; a chunk runs once.
* Bridge: Python is called only under the lock; no handle is released twice; the
  lock is free again when the function is back in Lua; nobody starves.  Objects live
  as long as a script's pointer to them, and scripts do not free what the game uses.
* Editor: Save writes the text of a file into that file; what was saved can be loaded.
* Overlay: the game can resize its buffers; its window gets its procedure back.
* Loader program: every return cleans up; what it reports is true; no remote thread
  runs in memory that is gone; the UI is shown to who asked for it.
* Buffer: no access outside the buffer or the argument; a cut is visible, as far as the
  marker gets room.

## 2. Modules and how they correspond to the code

`EXTENDS` relations: `Lifecycle` extends `ScriptQueue`; `BridgeGIL` extends
`BridgeFunctions`; `Overlay` extends `CodeEditor`; each `...Proofs` extends its component, `LifecycleProofs`
`ScriptQueueProofs` too; `ScriptQueue` instantiates
`ScriptQueueSpec` as its abstraction.  `PROJECT.json` maps each definition to lines.

**ScriptQueueSpec / ScriptQueue.**  The abstract module is an atomic bounded FIFO
that can be stopped, after which at most one more script is taken.  The detailed one
has a program counter per thread: a step is what a thread does between two accesses
others can interleave with.  Lock, unlock, the test of the wait predicate, going to
sleep, a spurious wakeup, `notify_one`, `notify_all` and the 100 ms sleep of
`Shutdown` are separate.  `notify_one` comes after the unlock, as in the code, and
the stop flag is stored and notified without `queueMutex`, as in the code.  Scripts
are opaque, except for the empty string, which is queued and never executed.
`accepted`, `taken`, `ran` and `late` are history.

**Lifecycle.**  The queue's threads plus the main thread, the background thread and
the render thread.  The queue's variables start unallocated (`ready`) and the queue's
actions are guarded by what they dereference.  `MainThread_Initialize` allocates the
queue, then `threadRunning`, then calls `StartScriptProcessor`, which stores true once
more: the hooks are active by then, so that a `Shutdown` may fall between any two of
these steps and its stop be revoked by the last.  An access to an object that is gone is
a `fault` step, after which nothing happens.  `prompt` is chosen in the initial state:
with it, each sleep and each reaction of the user lasts longer than what it waits for,
without it the sleeps prove nothing.  Drawing is reduced to frames and to the two
buttons that change shared state (Run and UNHOOK).

**ModuleLoader.**  `requires` (any graph) and `broken` (files that do not compile) are
chosen in the initial state.  The C stack of nested `require` calls is `stack`; a Lua
error is `raised` and unwinds one `lua_pcall` at a time; a script may catch it.  Scripts
run one at a time here; that the code does not ensure it is the subject of `one_thread`.
Modules are their resolved names.

**SafeStringBuffer.**  Contents are lengths; the doubling loop takes a step per round;
`malloc` and `realloc` may fail.  The test for the marker's room is strict, as in the code:
one size for which text, zero and marker would just fit is refused without a marker.  `touched` and `read` record the bytes an append used.

**BridgeFunctions.**  One operator per function of `Bridge.cpp`: the sequence of its
steps that concern the interpreter lock (`Ensure`, `Release`, a call of the C API with
its possible failure path, a type test, a conversion, an allocation, an error report, a return, a
Lua error), in the order of the code, for the kinds of its arguments.  Branches on
arguments are evaluated; branches on Python's answers stay as alternatives.

**BridgeGIL.**  Runs these sequences on Lua threads with a stack of frames, the
thread's `gilstate_counter` and the lock.  `PyGILState_Ensure` and `_Release` follow
`src/Python/pystate.c` (the lock is given back by a handle that took it, or with the
thread's last handle); inside a C API call the interpreter may lend the lock to others
(`drop_gil` and `take_gil` in
`src/Python/ceval_gil.h`).  A Lua allocation may run a finalizer first.  A Lua error
drops every frame up to the next `lua_pcall`, with the handles in them; `kept` names
the functions that so ended, or returned, with the handle that took the lock.

Details of the bridge worth knowing, all in the model: `LuaToPython` returns without
`Release` for nil, booleans, numbers and refused values, but its callers hold the lock
already, so only the counter stays too high; `toPyAuto` treats a table with an empty
array part as a list (an empty one); `CallObject` tests its two arguments with
`PyCallable_Check` and `PyTuple_Check` before it takes the lock; `toPyAuto` refuses a `PyObject` in a mixed table because it
looks at the wrong stack index, and lets a nested call throw through it.

**BridgeObjects.**  Objects with their reference counts, the game's variables
(`held`), containers, and what scripts hold: wrappers and iterators.  All
`Py_INCREF` and `Py_DECREF` of `Bridge.cpp` are commented out, so a wrapper keeps new
references for ever and points to borrowed ones uncounted; lists and tuples steal the
pointer of a wrapper, dictionaries and attributes count it.  `BuildValue` writes "O" for
the letters of C values in its format and leaves the others: "O", "S" and "U" count an
argument, "N" takes its reference over, and a single argument is returned as it is.  A call
holds the interpreter lock and is one step; the game's Python code runs between calls
and drops what is its own.  A freed object stays marked as freed, so that a pointer to
it can be seen; a use of it is undefined and not continued.  `news` and `steals` are
history.  A function's failure path leaves the half-built container behind, which is
the same as building it and finalizing its wrapper at once.

**CodeEditor.**  A file is its length, whether it starts with a byte order mark and
whether the editor wrote it; a text in the buffer is the file it came from and its
length.  `trouble`, chosen in the initial state, says which disturbances happen: other
programs in the directory, files larger than the buffer, I/O errors, among them a
listing of the directory that fails or ends early.  A name typed
into the dialog may be one the list does not show afterwards (not ending in `.lua`, or
an existing file in another case).

**Overlay.**  The main thread installs the two hooks one after the other, the render
thread sets ImGui up in its first frame and then alternates between frames, in which
the user works with the editor, and calls of `ResizeBuffers`; the background thread
undoes it in the order of `UnhookD3D`.  `views` counts the mod's references to the
back buffer, with which Direct3D refuses to resize.  A read of the list beyond its end
or of a null view is a fault, after which nothing happens.  When UNHOOK gets to
`UnhookD3D` at all is the subject of `Lifecycle`.

**Injector.**  Each run of the loader program is a process: open, allocate, write,
start the `LoadLibraryW` thread, wait at most ten seconds, look the module up, call
three exports on remote threads of their own, clean up.  Every system call may fail,
with the early return the code has for it.  The remote threads are steps of their own;
`references` is the library's load count, `main` the main thread that `InitializeMod`
starts and that gives the library back after UNHOOK.  `dllHandle` is the exit code of
the thread, the low 32 bits of the module's address, which may be zero; then the loader
program examines the file, and the mapping it opens for this is never closed.  The Boolean
`showUI` is passed where a pointer is expected: FALSE reaches the export as 0, TRUE
makes the write of the parameter fail.

## 3. Runs

| Run | Question | Result |
|---|---|---|
| `script_queue` | mutual exclusion, order, bound, lost wakeups, refinement of the FIFO, every script taken | holds |
| `queue_stop` | does a stop end the worker? | no: the notification can fall between the predicate and the wait |
| `lifecycle` | start-up order, orderly shutdown, which threads leave when, how UNHOOK ends | holds |
| `unload` | is the DLL left by everyone before it is unmapped? | no: `g_Running` is cleared before `g_KillSwitch` is set |
| `one_thread` | is one thread at a time in the `lua_State`? | no: only `RunScript` takes the mutex while it executes |
| `module_loader` | loading marks, cache, cycles | holds |
| `string_buffer` | bounds, truncation, termination | holds |
| `bridge_gil` | Python under the lock, no fatal release, who keeps the lock | holds |
| `bridge_threads` | do calls come back, and does the game get the lock? | holds |
| `bridge_objects` | do the counts balance, which pointers may dangle, when is the game's data damaged? | holds |
| `overlay` | the editor's buffer and files, resizing, the window procedure | holds |
| `injector` | clean-up and report of `InjectDll`, memory and code of remote threads, the UI switch | holds |

The three violations are findings in `PROJECT.json`, each against a sentence of the
code's comments.

Many of the passing properties are characterisations: the code does not give the
plain guarantee, and the property names every way in which it is lost, so that a new
one would be noticed.

* `PythonUnderGIL`: the C API is used only under the lock, but for the two type tests of
  `CallObject`.
* `LossVisible`: a marker ends a full buffer, and text is lost without one only if text,
  zero, marker and one byte more do not fit.
* `KeptOnlyBy`: the only four functions that can keep the interpreter lock (two iterators
  return without `Release` at their end, two are left by a Lua error); `KeptForGood`:
  no later call gives it back.
* `ThreadsLeave`: the Lua and the background thread may look at `g_Running` before it
  is set and leave at once; otherwise they leave only after UNHOOK.  `UnhookEnds`: an
  UNHOOK ends in an unload or a fault, unless it was pressed during start-up, when the
  main loop may stay with nobody left to end it.
* `RefsAccounted`: the references the bridge never gives back are counted, as `news`; that
  they leak is the code's design and not forbidden.  `OwnedSafe`: a script's pointer
  dangles only if it was borrowed or containers took over as many references as the
  bridge had; `PythonSafe`: the game's own data is damaged only if they took over more.
* `BufferBelongs`: a text comes into the wrong file only after other programs changed
  the directory or its listing failed, or through a file that is too large or cannot be
  read; the index leaves the list only for the first two reasons.  That Create empties an
  existing file is what the code does, and no property is against it.
* `ResizeSafe`: a resize fails because of the mod only between the two hooks, after
  `UnhookD3D`, or without the hook; the hook faults only before the first frame or
  after Direct3D refused a view.
* `StartupSound` and `PromptShutdownSafe` end where the VM is reset: afterwards the Lua
  thread and callers do dereference null, which is a fault of the model.
* `InjectDllReturns`: handles of processes and threads and the memory in the game are given
  back on every return, the file mapping is not after a failed load; success is reported only after all three exports ran, hence never
  to a user who wants the UI; `PathFault`: the path is freed under the remote thread
  only by the time-out; `ExportsMapped`: only `RemoteRunScript` can enter an unmapped
  library; `UiAsAsked`: the UI is hidden from a user who wants it only by another run.

### Bounds

* `script_queue`: two callers (the fewest that compete for the queue and for a
  notification), capacity 2 and 3 acceptances, so that the queue fills, a call is
  refused, and it drains and fills again; one real script and the empty one.
  `queue_stop` needs no accepted script at all; it allows one.
* `lifecycle` and its violations: one caller, one script, capacity 1.  The queue is
  checked on its own above; what is new is one instance of each other thread, and the
  code has one of each.
* `module_loader`: three modules with every graph over them (self-loops, two- and
  three-cycles, a module required twice without a cycle), a missing module, any of them broken, two
  scripts one after the other (a mark left by the first disturbs the second).
  Symmetric in the modules; all its properties are invariants.
* `string_buffer`: initial size 2 and limit 11, which is not a power of two times the
  initial size, so that doubling overshoots and is capped; marker length 3; lengths
  below, at and above each boundary and one larger than the limit.
* `bridge_gil`: the Lua thread calls every function with an argument for each of its
  branches, and tables nested so that an inner call fails; its counter may be too high
  by two (by one, then again: a call looks only at whether it has the lock).  The
  render thread, which runs scripts too, calls one function of each kind.
* `bridge_threads`: both threads call one function that is well-behaved, one that
  leaves the counter too high and one that keeps the lock.
* `bridge_objects`: a plain object, a list and a dictionary, two wrappers, one
  iterator, two items per container; one new reference to each object and two thefts,
  the fewest with which thefts exceed what was given.  Symmetric in the wrappers.
* `overlay`: two file names (the new one sorts before the selected one, or after),
  a buffer of three bytes and texts of two and three, on both sides of its limit, a
  mark of two bytes, a header of one, every combination of disturbances.
* `injector`: two runs in any overlap, both answers of each user.  Symmetric in the
  runs.

`CHECK_DEADLOCK FALSE` appears where the system really stops: the worker has left and
no call is accepted any more, the DLL is unloaded or faulted, scripts are over, a
thread has kept the interpreter lock and everyone waits for it, every run of the
loader program has returned, or a dangling pointer leaves nothing defined to do.  `string_buffer`
checks deadlock.

### Fairness

* Queue: the DLL's threads are scheduled (weak fairness); the worker, which asks for
  the mutex again and again while producers come and go, gets it (strong fairness on
  the two locks).  Nobody is obliged to call, to press UNHOOK or to wake spuriously.
* Lifecycle: main thread (to its next step or its fault), background thread and an
  uninstall that has begun go on.
* Buffer: an append goes on.
* Bridge: Lua threads run; Python calls end; strong fairness on taking the interpreter
  lock, because CPython is built with `FORCE_SWITCHING` (`src/Python/ceval_gil.h:16`):
  a thread that gives up the lock on request waits until another one has taken it.

## 4. Proofs

All are for any values of the constants that satisfy the named assumptions.

* `ScriptQueueProofs` (`ThreadsAssumption`, `ScriptsAssumption`,
  `CapacityAssumption`).  The capacity bound is not inductive: the size is read in one
  step and the script pushed in another.  `Safe` adds mutual exclusion and what a
  caller inside the critical section knows (`RoomToPush`).  `Order` adds what the
  worker knows before it sleeps (`WaitsEmpty`) and after a late take (`LateLeaves`);
  with it FIFO order, `NoLostWakeup` and the refinement of `ScriptQueueSpec` follow,
  one lemma per thread, one step per action.  `ExecutedInOrder` says that an increasing
  map leads from what ran onto the non-empty scripts that were taken; the proof extends
  that map by one place when a script starts and leaves it alone for an empty one.
* `ModuleLoaderProofs`.  `LoadingIsStack`, `LoadedCompleted`, `AtMostOnce` and
  `QuietBetweenScripts` for any set of modules, any graph and any errors.  The
  strengthening is `StackOfScript`: outside a script the stack is empty.  `PushFacts`
  and `PopFacts` say what entering and leaving a chunk does to the stack's entries.
  `CircularIsReal` needs `Chain`, each chunk was required by the one below it;
  reachability is stated by closed sets, which TLC can enumerate and along which
  `CycleCloses` climbs the stack by `SetInduction` (induction over a set of numbers, from
  the well-foundedness of `<`).
* `SafeStringBufferProofs` (`SizesAssumption`).  The bounds hold for any initial size,
  limit and marker; `AppendKnows` says what a running append knows at each step.
* `LifecycleProofs` (the queue's assumptions).  `Startup` ties the objects and threads
  that exist to the line `MainThread_Initialize` has reached, `Teardown` ties what is
  gone to the point of UNHOOK: without it nothing says that the background thread meets
  a set kill switch only once.  `Promptly` is what holds when the sleeps are long enough:
  while `lua_close` runs the worker is asleep or between its wait and its exit.
  `ThreadsLeave` is an action property and follows from the first two.
  `UnloadAfterShutdown` is the part of `UnloadClean` that does hold: the DLL goes only
  after UninstallHook has returned, `g_LuaVM` is reset and the background thread is gone,
  and, with sleeps that are long enough, the Lua thread is then not inside a script.
  It rests on `Unloading` (`g_Running` is clear at the end only through UninstallHook, and
  the VM is not initialised again behind its back).
  Last, the queue inside the DLL: `ScriptQueue` starts from a queue that is set up,
  while here calls arrive before the queue and the worker exist, UNHOOK may come in
  between, and a fault or the unloading cuts everything short.  `LifeSteps` shows that every step of
  the DLL is a step of `ScriptQueue`, leaves it alone, or is `Outside` (the worker is
  started, the VM created, a flag set, a call refused), which keeps the queue's invariants
  because `Unserved`: no worker, nothing taken.  So mutual exclusion,
  capacity, order, wakeups, execution and the refinement of `ScriptQueueSpec` hold for the
  whole DLL (`DllQueueLocked`, `DllQueueOrdered`, `DllExecution`, `DllRefinesQueue`).  The
  refinement counts a stop from the creation of the Lua thread on: one that was stored
  earlier may be revoked by `StartScriptProcessor`, none is revoked later, and a worker
  created after a stop takes at most one script.
  TLC checked these formulas under `LifeSpec` with up to two waiting and three accepted scripts first.
* `OverlayProofs` (`EditorAssumption`).  `EditorInv`: as long as nobody else writes to the
  directory and no listing fails, the list is the directory's and the index in it, and
  without large files the buffer holds the file it points to; the listing is characterised by ranks of places, since the proof
  has to know that listing a directory again gives the same index the same name.
  `WindowInv`: the reference to the back buffer is held exactly while the pointer is
  set, and the saved procedure is the game's.
* `InjectorProofs` (`RunsAssumption`: finitely many runs).  `Control` says what each run
  holds at each line; a mapping that is open means a run that is over and called nothing.  `ExportsMapped` needs `Holders`, the library's load count is at
  least the number of runs that loaded it and whose main thread has not given it back,
  and `UiAsAsked` needs `Switch`, who can have cleared `g_HookD3DSwitch`.
* `BridgeObjectsProofs` (`ObjectsAssumption`: finitely many objects).  `RefsAccounted`
  speaks of live objects only and is not inductive, since the step that frees an object
  must know what still refers to it.  `Books` balances the count of every object, a freed
  one included; `WrappersInv` and `ItersInv` say which pointers of a script are counted.
  The places that hold an object are a finite set, split by container, and each action
  changes the part of one container: no induction over data is needed.  `MadeContainer`
  covers every function that builds one: of each pointer it stores, a part is stolen and
  the rest counted.
* `BridgeGILProofs` (`BridgeAssumption`; `ValuesAssumption`: the parts of a table are
  values again; `CallsAssumption`: scripts call registered functions with the arguments
  they look at).  Two layers.  The first is about code alone: `BodyCode` shows that each
  function of `BridgeFunctions`, with any arguments, is `OutCode`: it ends at once or takes
  a handle, uses Python only with it, gives it back at most once before it takes another, and only
  the iterators and `LuaToPython` end with it; the tests of `CallObject` precede its handle,
  which is code of its own (`TestCode`); each alternative a step can jump to is
  such code of the same function.  Loops over arguments and tables are the
  `FlattenSeq` of the community modules, a recursive function, which is followed by
  `SetInduction` too.  The second layer
  runs such code: `LockInv` says that each frame below the innermost waits at the call of the one above
  it, that only the outermost handle can have taken the lock, that the thread holds or
  lends the lock exactly if that handle or a kept one took it, and that the counter is at least the number
  of open handles plus one for a kept lock.  The plain properties are not inductive: a
  `Release` of an inner handle keeps the lock only because the counter does not reach 0,
  and a Lua error leaves the lock behind only where the outermost frame is one of four
  functions.  TLC checked `LockInv` on the instance of `bridge_gil` first.

Only model-checked: everything under fairness (`EveryScriptTaken`, `UnhookEnds`,
`AppendReturns`, `CallsReturn`, `GameServed`), which the prover cannot express.

## 5. Not modelled

The repository also holds CPython 3.6, LuaJIT, ImGui and MinHook, which are most of its
lines; of them only what the bridge's locking rests on is modelled.  Of GMPro itself:

* What the conversions of the bridge compute from numbers, strings and nested tables,
  and the keys an iteration shows (the static index of `py_iterate`).  In
  `LuaToPython`, nested tables without array part and tables as keys are left out.
* `InitPyBridge`: fixed offsets into a DLL.  Scripts call the bridge after it.
* `LuaVM::Reset`, `CreateNewScript` and `RenderCodeEditor` have no caller;
  `FindModule` resolves names by looking for files.
* The console's log buffer: threads append to it without a lock, which is undefined
  behaviour of `std::string` as soon as two do; there is nothing else to check.
* Drawing, styles, the dummy device that only serves to read a method table, MinHook,
  logging text, the references to the device that every frame takes and never gives back.
* The dialogue of the loader program's `main`, and what its diagnostics after a failed load
  print.
* Letters of a `BuildValue` format that make Python read an object's address as a string
  or a number, or that nest containers: the first is undefined behaviour.
* Whether the test script of the loader program was queued: `RemoteRunScript` returns
  without a result, and at once while the VM is not initialised.
* Assumption about the build: with `/EHsc`, `catch (...)` in the bridge does not see
  LuaJIT's errors, which pass through C++ frames without running their handlers.
* Iterators returned to a script are assumed to be at hand when it calls them.

## 6. Plan

Done: queue, lifecycle, loader, buffer, lock discipline and references of the bridge,
editor, overlay, loader program, and the proofs above.  Every
invariant and every action property the runs check is proved, those of the queue also for
the whole DLL; the liveness properties stay with TLC.
