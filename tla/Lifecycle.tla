------------------------------- MODULE Lifecycle -------------------------------
(***************************************************************************)
(* The life of GMPro.dll inside the game: MainThread_Initialize, the       *)
(* background thread, the Lua thread and the RemoteRunScript callers (both *)
(* from ScriptQueue), and the game's render thread, which runs the overlay *)
(* inside the Present hook and from there RunScript and UNHOOK DLL.        *)
(* A fault is a step whose outcome C++ leaves undefined (a member of a     *)
(* reset g_LuaVM, a released g_Engine, a closed lua_State); the process    *)
(* goes no further, and the same holds once the DLL is unmapped.           *)
(***************************************************************************)
EXTENDS ScriptQueue

VARIABLES
    main,          \* where MainThread_Initialize is
    bg,            \* where ClientBGThread is
    render,        \* where the game's render thread is
    g_KillSwitch,
    hooks,         \* the Present/ResizeBuffers hooks: "none", "active", "removed"
    unhooks,       \* history: how often UnhookD3D ran (it frees MethodsTable)
    bShowMenu,
    g_LuaVM,       \* "null" before the Engine exists, "live", "reset"
    g_Engine,      \* "null", "live", "released"
    ready,         \* "none"; "queue": the queue, its mutex and condition are allocated; "all": the flag too
    dll,           \* "loaded" or "unloaded"
    fault,
    prompt         \* fixed: do the sleeps outlast what they wait for (see Patient)

mainVars   == <<main, bg, ready, dll>>
renderVars == <<render, bShowMenu>>
lifeVars   == <<mainVars, renderVars, g_KillSwitch, hooks, unhooks, g_LuaVM, g_Engine, fault, prompt>>
allVars    == <<vars, lifeVars>>

MainStates   == {"start", "init", "hook", "vm", "queue", "running", "processor", "spawn", "bg", "flag",
                 "loop", "join", "failed", "done"}
BgStates     == {"none", "top", "check", "unhook", "release", "clear", "exited"}
RenderStates == {"game", "frame", "executing", "uninstall"}

LifeInit ==
    /\ queue = <<>> /\ queueMutex = NoThread /\ scriptMutex = NoThread
    /\ threadRunning = TRUE /\ g_Running = FALSE
    /\ isInitialized = FALSE /\ luaState = "closed"
    /\ worker = "none" /\ cur = EmptyScript
    /\ caller = [c \in Callers |-> "idle"]
    /\ arg = [c \in Callers |-> EmptyScript]
    /\ stopper = "run"
    /\ accepted = <<>> /\ taken = <<>> /\ ran = <<>> /\ late = 0
    /\ main = "start" /\ bg = "none" /\ render = "game"
    /\ g_KillSwitch = FALSE /\ hooks = "none" /\ unhooks = 0 /\ bShowMenu = TRUE
    /\ g_LuaVM = "null" /\ g_Engine = "null" /\ ready = "none"
    /\ dll = "loaded" /\ fault = "none"
    /\ prompt \in BOOLEAN

Alive == fault = "none" /\ dll = "loaded"

\* With prompt, a sleep or a user's reaction lasts longer than what cond waits for.
Patient(cond) == prompt => cond

Fault(why) == Alive /\ fault' = why /\ UNCHANGED <<vars, mainVars, renderVars, g_KillSwitch,
                                                    hooks, unhooks, g_LuaVM, g_Engine, prompt>>

-------------------------------------------------------------------------------
(* MainThread_Initialize.                                                    *)

MainGoto(from, to) == Alive /\ main = from /\ main' = to

\* std::make_unique<Engine>(): all the global objects exist from here on.
MainCreate ==
    /\ MainGoto("start", "init")
    /\ g_Engine' = "live" /\ g_LuaVM' = "live"
    /\ UNCHANGED <<vars, bg, ready, dll, renderVars, g_KillSwitch, hooks, unhooks, fault, prompt>>

\* LuaVM::Initialize, or its failure to create a lua_State.
InitializeVM ==
    IF isInitialized THEN UNCHANGED <<isInitialized, luaState>>
    ELSE \/ isInitialized' = TRUE /\ luaState' = "open"
         \/ UNCHANGED <<isInitialized, luaState>>

\* g_Engine->Init(): a failed Initialize is only logged here.
MainEngineInit ==
    /\ MainGoto("init", "hook")
    /\ InitializeVM
    /\ UNCHANGED <<queueVars, workerVars, callerVars, threadRunning, g_Running, stopper, bg, ready, dll,
                   renderVars, g_KillSwitch, hooks, unhooks, g_LuaVM, g_Engine, fault, prompt>>

\* if (g_HookD3DSwitch) HookD3D(): the hooks are active at once, unless the UI is
\* off or there is no D3D context.
MainHook ==
    /\ MainGoto("hook", "vm")
    /\ hooks' \in {"none", "active"}
    /\ UNCHANGED <<vars, bg, ready, dll, renderVars, g_KillSwitch, unhooks, g_LuaVM, g_Engine, fault, prompt>>

\* if (!g_LuaVM->Initialize()) return FALSE;
MainInitVM ==
    /\ g_LuaVM = "live"
    /\ InitializeVM
    /\ MainGoto("vm", IF isInitialized' THEN "queue" ELSE "failed")
    /\ UNCHANGED <<queueVars, workerVars, callerVars, threadRunning, g_Running, stopper, bg, ready, dll,
                   renderVars, g_KillSwitch, hooks, unhooks, g_LuaVM, g_Engine, fault, prompt>>

\* Mutant: the queue is not allocated before the Lua thread starts.
MainCreateQueueNot ==
    /\ MainGoto("queue", "spawn") /\ g_LuaVM = "live"
    /\ UNCHANGED <<vars, bg, ready, dll, renderVars, g_KillSwitch, hooks, unhooks, g_LuaVM, g_Engine, fault, prompt>>

\* The new queue, its mutex and its condition: from here on a script can be queued.
MainCreateQueue ==
    /\ MainGoto("queue", "running") /\ g_LuaVM = "live"
    /\ ready' = "queue"
    /\ UNCHANGED <<vars, bg, dll, renderVars, g_KillSwitch, hooks, unhooks, g_LuaVM, g_Engine, fault, prompt>>

\* threadRunning = new std::atomic<bool>(true): from here on Shutdown can clear it.
MainCreateRunning ==
    /\ MainGoto("running", "processor") /\ g_LuaVM = "live"
    /\ ready' = "all"
    /\ threadRunning' = TRUE
    /\ UNCHANGED <<queueVars, workerVars, callerVars, g_Running, isInitialized, luaState, stopper, bg, dll,
                   renderVars, g_KillSwitch, hooks, unhooks, g_LuaVM, g_Engine, fault, prompt>>

\* StartScriptProcessor stores true once more, whatever Shutdown has stored meanwhile.
MainStartProcessor ==
    /\ MainGoto("processor", "spawn") /\ g_LuaVM = "live"
    /\ threadRunning' = TRUE
    /\ UNCHANGED <<queueVars, workerVars, callerVars, g_Running, isInitialized, luaState, stopper, bg, ready, dll,
                   renderVars, g_KillSwitch, hooks, unhooks, g_LuaVM, g_Engine, fault, prompt>>

\* std::thread(LuaExecutionThread).detach()
MainSpawnLua ==
    /\ MainGoto("spawn", "bg")
    /\ worker' = "top"
    /\ UNCHANGED <<queueVars, cur, ran, callerVars, controlVars, bg, ready, dll,
                   renderVars, g_KillSwitch, hooks, unhooks, g_LuaVM, g_Engine, fault, prompt>>

\* std::thread WCMUpdate(ClientBGThread)
MainSpawnBG ==
    /\ MainGoto("bg", "flag")
    /\ bg' = "top"
    /\ UNCHANGED <<vars, ready, dll, renderVars, g_KillSwitch, hooks, unhooks, g_LuaVM, g_Engine, fault, prompt>>

\* g_Running = true, after both threads were started.
MainSetRunning ==
    /\ MainGoto("flag", "loop")
    /\ g_Running' = TRUE
    /\ UNCHANGED <<queueVars, workerVars, callerVars, threadRunning, isInitialized, luaState, stopper,
                   bg, ready, dll, renderVars, g_KillSwitch, hooks, unhooks, g_LuaVM, g_Engine, fault, prompt>>

\* VK_INSERT or both thumb sticks: show or hide the menu.
MainToggle ==
    /\ Alive /\ main = "loop" /\ g_Running /\ g_Engine = "live"
    /\ bShowMenu' = ~bShowMenu
    /\ UNCHANGED <<vars, mainVars, render, g_KillSwitch, hooks, unhooks, g_LuaVM, g_Engine, fault, prompt>>

MainLeaveLoop ==
    /\ MainGoto("loop", "join")
    /\ ~g_Running
    /\ UNCHANGED <<vars, bg, ready, dll, renderVars, g_KillSwitch, hooks, unhooks, g_LuaVM, g_Engine, fault, prompt>>

\* WCMUpdate.join(); FreeLibraryAndExitThread(...)
MainUnload ==
    /\ MainGoto("join", "done")
    /\ bg = "exited"
    /\ dll' = "unloaded"
    /\ UNCHANGED <<vars, bg, ready, renderVars, g_KillSwitch, hooks, unhooks, g_LuaVM, g_Engine, fault, prompt>>

\* What the main thread does when an object it dereferences is gone.
MainFault ==
    \/ main \in {"vm", "queue", "running", "processor"} /\ g_LuaVM = "reset" /\ Fault("main")
    \/ main = "loop" /\ g_Running /\ g_Engine = "released" /\ Fault("engine")

MainStep ==
    \/ MainCreate \/ MainEngineInit \/ MainHook \/ MainInitVM \/ MainCreateQueue \/ MainCreateRunning
    \/ MainStartProcessor \/ MainSpawnLua \/ MainSpawnBG \/ MainSetRunning \/ MainLeaveLoop \/ MainUnload

-------------------------------------------------------------------------------
(* ClientBGThread.                                                           *)

BgGoto(from, to) == Alive /\ bg = from /\ bg' = to

\* Mutant: the loop does not look at g_Running.
BgTopForever ==
    /\ BgGoto("top", "check")
    /\ UNCHANGED <<vars, main, ready, dll, renderVars, g_KillSwitch, hooks, unhooks, g_LuaVM, g_Engine, fault, prompt>>

BgTop ==
    /\ BgGoto("top", IF g_Running THEN "check" ELSE "exited")
    /\ UNCHANGED <<vars, main, ready, dll, renderVars, g_KillSwitch, hooks, unhooks, g_LuaVM, g_Engine, fault, prompt>>

\* Mutant: without the kill switch the thread is done.
BgCheckOnce ==
    /\ BgGoto("check", IF g_KillSwitch THEN "unhook" ELSE "exited")
    /\ UNCHANGED <<vars, main, ready, dll, renderVars, g_KillSwitch, hooks, unhooks, g_LuaVM, g_Engine, fault, prompt>>

BgCheck ==
    /\ BgGoto("check", IF g_KillSwitch THEN "unhook" ELSE "top")
    /\ UNCHANGED <<vars, main, ready, dll, renderVars, g_KillSwitch, hooks, unhooks, g_LuaVM, g_Engine, fault, prompt>>

\* UnhookD3D() and g_Hooking->Shutdown()
BgUnhook ==
    /\ BgGoto("unhook", "release")
    /\ hooks' = "removed" /\ unhooks' = unhooks + 1
    /\ UNCHANGED <<vars, main, ready, dll, renderVars, g_KillSwitch, g_LuaVM, g_Engine, fault, prompt>>

\* g_Engine.release(): the pointer is null from here on, the object is not destroyed.
BgRelease ==
    /\ BgGoto("release", "clear")
    /\ g_Engine' = "released"
    /\ UNCHANGED <<vars, main, ready, dll, renderVars, g_KillSwitch, hooks, unhooks, g_LuaVM, fault, prompt>>

\* Mutant: the flag is left alone, so the loop goes round again.
BgClearNot ==
    /\ BgGoto("clear", "top")
    /\ g_Running' = TRUE
    /\ UNCHANGED <<queueVars, workerVars, callerVars, threadRunning, isInitialized, luaState, stopper,
                   main, ready, dll, renderVars, g_KillSwitch, hooks, unhooks, g_LuaVM, g_Engine, fault, prompt>>

BgClear ==
    /\ BgGoto("clear", "top")
    /\ g_Running' = FALSE
    /\ UNCHANGED <<queueVars, workerVars, callerVars, threadRunning, isInitialized, luaState, stopper,
                   main, ready, dll, renderVars, g_KillSwitch, hooks, unhooks, g_LuaVM, g_Engine, fault, prompt>>

BgStep == BgTop \/ BgCheck \/ BgUnhook \/ BgRelease \/ BgClear

-------------------------------------------------------------------------------
(* The render thread: frames of the Present hook, Run, UNHOOK DLL.           *)

RenderGoto(from, to) ==
    /\ Alive /\ render = from /\ render' = to
    /\ UNCHANGED <<mainVars, bShowMenu, hooks, unhooks, g_Engine, fault, prompt>>

\* The game presents a frame: SwapChain_Present_hook, Overlay, Menu::Draw.
BeginFrame ==
    /\ RenderGoto("game", "frame")
    /\ hooks = "active" /\ g_Engine = "live"
    /\ UNCHANGED <<vars, g_KillSwitch, g_LuaVM>>

EndFrame ==
    /\ RenderGoto("frame", "game")
    /\ UNCHANGED <<vars, g_KillSwitch, g_LuaVM>>

\* CodeEditor::RunScript: ExecuteString on the render thread.
RunScript ==
    /\ RenderGoto("frame", "executing")
    /\ bShowMenu /\ g_Engine = "live" /\ g_LuaVM = "live" /\ isInitialized
    /\ UNCHANGED <<vars, g_KillSwitch, g_LuaVM>>

EndRunScript ==
    /\ RenderGoto("executing", "frame")
    /\ UNCHANGED <<vars, g_KillSwitch, g_LuaVM>>

\* UNHOOK DLL is pressed: UninstallHook starts.  Once: a second press finds
\* g_LuaVM null and sets flags that are set.
PressUnhook ==
    /\ RenderGoto("frame", "uninstall")
    /\ bShowMenu /\ g_Engine = "live" /\ stopper = "run"
    /\ Patient(main = "loop")
    /\ UNCHANGED <<vars, g_KillSwitch, g_LuaVM>>

Uninstalling == Alive /\ render = "uninstall"
                /\ UNCHANGED <<mainVars, renderVars, hooks, unhooks, g_Engine, fault, prompt>>

\* Shutdown stops the worker only if threadRunning is allocated.
ShutdownStop ==
    /\ Uninstalling
    /\ IF ready = "all" THEN StoreStop
       ELSE StopperGoto("run", "close")
            /\ UNCHANGED <<queueVars, workerVars, callerVars, threadRunning, g_Running, isInitialized, luaState>>
    /\ UNCHANGED <<g_KillSwitch, g_LuaVM>>

\* Mutant: the 100 ms are not slept.
ShutdownNoSleep == Uninstalling /\ SleepOver /\ UNCHANGED <<g_KillSwitch, g_LuaVM>>

\* The 100 ms in which the worker is expected to leave.
ShutdownSleep ==
    /\ Uninstalling
    /\ Patient(worker \in {"none", "asleep", "exited"})
    /\ SleepOver
    /\ UNCHANGED <<g_KillSwitch, g_LuaVM>>

ShutdownNotify == Uninstalling /\ NotifyAll /\ UNCHANGED <<g_KillSwitch, g_LuaVM>>

ShutdownClose == Uninstalling /\ CloseState /\ UNCHANGED <<g_KillSwitch, g_LuaVM>>

\* The end of Shutdown, and g_LuaVM.reset().
ResetVM ==
    /\ Uninstalling
    /\ ClearInitialized
    /\ g_LuaVM' = "reset"
    /\ UNCHANGED g_KillSwitch

ClearRunFlag == Uninstalling /\ ClearRunning /\ UNCHANGED <<g_KillSwitch, g_LuaVM>>

\* Mutant: the kill switch is set without waiting for UninstallHook.
SetKillSwitchEarly ==
    /\ RenderGoto("uninstall", "frame")
    /\ g_KillSwitch' = TRUE
    /\ UNCHANGED <<vars, g_LuaVM>>

\* UninstallHook has returned and the 3 s are over: g_KillSwitch = TRUE.
SetKillSwitch ==
    /\ RenderGoto("uninstall", "frame")
    /\ stopper = "done"
    /\ Patient(bg = "exited")
    /\ g_KillSwitch' = TRUE
    /\ UNCHANGED <<vars, g_LuaVM>>

\* The overlay reads g_Engine->bShowMenu.
RenderFault == render = "frame" /\ g_Engine = "released" /\ Fault("engine")

UninstallStep ==
    \/ ShutdownStop \/ ShutdownNotify \/ ShutdownSleep \/ ShutdownClose \/ ResetVM \/ ClearRunFlag
    \/ SetKillSwitch

-------------------------------------------------------------------------------
(* The Lua thread and the callers, as long as g_LuaVM is there.              *)

WorkerDerefs == worker \in {"top", "lock", "locked", "pred", "check", "pop", "run"}

LuaThread ==
    /\ Alive
    /\ WorkerDerefs => g_LuaVM = "live" /\ ready = "all"
    /\ worker = "executing" => luaState = "open"
    /\ WorkerStep
    /\ UNCHANGED lifeVars

LuaWakeup == Alive /\ SpuriousWakeup /\ UNCHANGED lifeVars

\* The worker reads through a null pointer, or runs on a closed lua_State.
LuaFault ==
    \/ WorkerDerefs /\ ~(g_LuaVM = "live" /\ ready = "all") /\ Fault("null")
    \/ worker = "executing" /\ luaState = "closed" /\ Fault("closed")

CallerDerefs(c) == caller[c] \in {"queue", "size", "push", "notify"}

RemoteCall(c, s) == Alive /\ g_LuaVM = "live" /\ Call(c, s) /\ UNCHANGED lifeVars

RemoteThread(c) ==
    /\ Alive
    /\ CallerDerefs(c) => g_LuaVM = "live" /\ ready # "none"
    /\ CallerStep(c)
    /\ UNCHANGED lifeVars

\* QueueScriptForExecution refuses while the queue is not allocated.
RemoteRefused(c) ==
    /\ Alive /\ caller[c] = "queue" /\ g_LuaVM = "live" /\ ready = "none"
    /\ Goto(c, "unlock")
    /\ UNCHANGED <<queueVars, workerVars, arg, scriptMutex, controlVars, lifeVars>>

RemoteFault(c) == CallerDerefs(c) /\ g_LuaVM = "reset" /\ Fault("caller")

-------------------------------------------------------------------------------

LifeNext ==
    \/ MainStep \/ MainToggle \/ MainFault
    \/ BgStep
    \/ BeginFrame \/ EndFrame \/ RunScript \/ EndRunScript \/ PressUnhook \/ UninstallStep \/ RenderFault
    \/ LuaThread \/ LuaWakeup \/ LuaFault
    \/ \E c \in Callers : RemoteThread(c) \/ RemoteRefused(c) \/ RemoteFault(c)
    \/ \E c \in Callers, s \in Scripts : RemoteCall(c, s)

LifeSpec == LifeInit /\ [][LifeNext]_allVars

\* The DLL's own threads are scheduled and an uninstall that was started goes on.
LifeFairness ==
    /\ WF_allVars(MainStep \/ MainFault)
    /\ WF_allVars(BgStep)
    /\ WF_allVars(UninstallStep)

FairLifeSpec == LifeSpec /\ LifeFairness

-------------------------------------------------------------------------------
(* Properties.                                                               *)

\* Types of the lifecycle's own variables; UnhookD3D, which frees MethodsTable, is
\* never entered twice although the kill switch stays set.
LifeTypeOK ==
    /\ main \in MainStates /\ bg \in BgStates /\ render \in RenderStates
    /\ hooks \in {"none", "active", "removed"} /\ unhooks \in 0..1
    /\ g_LuaVM \in {"null", "live", "reset"} /\ g_Engine \in {"null", "live", "released"}
    /\ g_KillSwitch \in BOOLEAN /\ bShowMenu \in BOOLEAN /\ prompt \in BOOLEAN
    /\ ready \in {"none", "queue", "all"}
    /\ dll \in {"loaded", "unloaded"}
    /\ fault \in {"none", "main", "engine", "null", "closed", "caller"}

\* Until UNHOOK is pressed no thread touches an object that does not exist yet: the
\* order in which MainThread_Initialize creates objects, hooks and threads is sound,
\* although frames and RemoteRunScript calls arrive in the middle of it.
StartupSound == fault # "none" => render = "uninstall" \/ stopper # "run"

\* If 100 ms are enough for the worker to finish its script, lua_close never pulls
\* the state away from under LuaExecutionThread.
PromptShutdownSafe == prompt => fault # "closed"

\* The hooks are removed only after the Lua VM is gone, so no frame can start a
\* script on a VM that is being torn down.
VMGoneBeforeUnhook == unhooks > 0 => g_LuaVM = "reset"

\* The Lua thread and the background thread leave their loops only after UNHOOK, or
\* because they looked at g_Running before MainThread_Initialize set it; in the
\* second case the mod goes on without them.
ThreadsLeave ==
    [][(worker # "exited" /\ worker' = "exited") \/ (bg # "exited" /\ bg' = "exited")
       => stopper # "run" \/ main \in {"bg", "flag"}]_allVars

\* The main loop runs on and no thread is left that would end it.
Orphaned == main = "loop" /\ g_Running /\ bg = "exited"

\* An UNHOOK, whenever it is pressed, ends with the DLL unloaded or with a fault,
\* unless it was pressed during start-up: then MainThread_Initialize may fail, or set
\* g_Running again after the background thread has gone, and stays for ever.
UnhookEnds == (stopper = "done") ~> (~Alive \/ (~prompt /\ (main = "failed" \/ Orphaned)))

\* Menu.cpp: after Sleep(3000) all threads are closed, then the flag that unloads
\* is set.  So, when the sleeps were long enough and the DLL goes, nobody is inside
\* it and no hook leads into it.
UnloadClean ==
    prompt /\ dll = "unloaded" => hooks # "active" /\ render = "game" /\ worker = "exited"

\* Menu.cpp: a mutex makes sure that only one thread executes a script.
OneThreadInLua == ~(worker = "executing" /\ render = "executing")

===============================================================================
