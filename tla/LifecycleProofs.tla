---------------------------- MODULE LifecycleProofs ----------------------------
(***************************************************************************)
(* Proofs about the life of the DLL, for any set of callers and scripts.   *)
(* Startup ties the objects and threads that exist to the point            *)
(* MainThread_Initialize has reached; Teardown ties what UNHOOK has taken  *)
(* away to the point of UninstallHook; Promptly adds what holds when the   *)
(* sleeps are long enough.  The last part shows that the promises of the   *)
(* script queue hold for the whole DLL, which Lifecycle composes with it.  *)
(***************************************************************************)
EXTENDS Lifecycle, ScriptQueueProofs

Looping == {"loop", "join", "done"}
PastVM  == {"queue", "running", "processor", "spawn", "bg", "flag"} \cup Looping
Up      == {"run", "notify", "sleep", "close"}   \* UninstallHook before lua_close

Startup ==
    /\ g_Engine = "null" <=> main = "start"
    /\ g_LuaVM = "null" <=> main = "start"
    /\ main = "start" => hooks = "none" /\ render = "game" /\ stopper = "run"
    /\ main \in PastVM \ {"queue", "running"} => ready = "all"
    /\ worker # "none" => main \in {"bg", "flag"} \cup Looping
    /\ bg # "none" => main \in {"flag"} \cup Looping
    /\ g_Running => main = "loop"
    /\ main \in PastVM /\ stopper \in Up => isInitialized

Teardown ==
    /\ stopper \in StopperStates
    /\ ~threadRunning => stopper # "run"
    /\ main \in Looping /\ ~g_Running => stopper # "run"
    /\ isInitialized /\ stopper \in Up => luaState = "open"
    /\ g_LuaVM = "reset" <=> stopper \in {"flag", "done"}
    /\ g_KillSwitch => stopper = "done"
    /\ g_Engine = "released" => g_KillSwitch
    /\ bg \in {"unhook", "release", "clear"} => g_KillSwitch
    /\ bg \in {"check", "unhook", "release", "clear"} => main \in {"loop", "join"}
    \* UnhookD3D ran at most once: the loop cannot come round to it again
    /\ unhooks # 0 => /\ unhooks = 1 /\ g_KillSwitch /\ main \in Looping
                      /\ \/ bg \in {"release", "clear"}
                         \/ bg \in {"top", "exited"} /\ ~g_Running

Promptly ==
    prompt => /\ render = "uninstall" \/ stopper # "run" => main \in Looping
              /\ stopper # "run" => ~threadRunning
              /\ stopper \in {"close", "clear", "flag", "done"}
                    => worker \in {"none", "asleep", "wake", "pred", "check", "exited"}

LifeInv == LifeTypeOK /\ Startup /\ Teardown /\ Promptly

-------------------------------------------------------------------------------
(* What the threads of ScriptQueue do to the rest.                           *)

\* LuaExecutionThread touches no flag; it leaves only when told to stop, and while it is
\* told to stop it does not go from its wait to a script.
LEMMA WorkerMoves ==
    ASSUME WorkerStep
    PROVE  /\ UNCHANGED controlVars
           /\ worker \notin {"none", "asleep"} /\ worker' # "none"
           /\ worker' = "exited" => worker \in {"top", "check"} /\ Stopping
           /\ Stopping /\ worker \in {"wake", "pred", "check"} => worker' \in {"pred", "check", "exited"}
           /\ worker # "exited"
  <1>1. CASE WorkerTop \/ WorkerLock \/ WorkerEmpty \/ WorkerPred \/ WorkerSleep
    BY <1>1 DEF WorkerTop, WorkerLock, WorkerEmpty, WorkerPred, WorkerSleep, WorkerAcquire
  <1>2. CASE WorkerRelock \/ WorkerCheck \/ WorkerPop \/ WorkerRun \/ WorkerEndRun
    BY <1>2 DEF WorkerRelock, WorkerAcquire, WorkerCheck, WorkerPop, WorkerRun, WorkerEndRun
  <1> QED
    BY <1>1, <1>2 DEF WorkerStep

\* A caller touches no flag and at most wakes the worker.
LEMMA CallerMoves ==
    ASSUME NEW c \in Callers, CallerStep(c) \/ \E s \in Scripts : Call(c, s)
    PROVE  UNCHANGED controlVars /\ (worker' = worker \/ (worker = "asleep" /\ worker' = "wake"))
  <1>1. ASSUME NEW s \in Scripts, Call(c, s) PROVE UNCHANGED controlVars /\ worker' = worker
    BY <1>1 DEF Call, workerVars
  <1>2. CASE LockScript(c) \/ LockQueue(c) \/ CheckSize(c) \/ Push(c) \/ NotifyOne(c) \/ UnlockScript(c)
    BY <1>2 DEF LockScript, LockQueue, CheckSize, Push, NotifyOne, UnlockScript, Notified, workerVars
  <1> QED
    BY <1>1, <1>2 DEF CallerStep

-------------------------------------------------------------------------------
(* LifeInv is inductive: one lemma per thread.                               *)

\* MainThread_Initialize creates each object before it is needed.
LEMMA MainKeeps == LifeInv /\ (MainStep \/ MainToggle \/ MainFault) => LifeInv'
  <1> SUFFICES ASSUME LifeInv, MainStep \/ MainToggle \/ MainFault PROVE LifeInv'
    OBVIOUS
  <1> USE DEF LifeInv, LifeTypeOK, Startup, Teardown, Promptly, Looping, PastVM, Up, MainStates, BgStates, RenderStates,
              vars, controlVars, workerVars, mainVars, renderVars, MainGoto, Fault
  <1>1. CASE MainCreate
    BY <1>1 DEF MainCreate
  <1>2. CASE MainEngineInit
    BY <1>2 DEF MainEngineInit, InitializeVM
  <1>3. CASE MainHook
    BY <1>3 DEF MainHook
  <1>4. CASE MainInitVM
    BY <1>4 DEF MainInitVM, InitializeVM
  <1>5. CASE MainCreateQueue \/ MainCreateRunning \/ MainStartProcessor
    BY <1>5 DEF MainCreateQueue, MainCreateRunning, MainStartProcessor
  <1>6. CASE MainSpawnLua
    BY <1>6 DEF MainSpawnLua
  <1>7. CASE MainSpawnBG
    BY <1>7 DEF MainSpawnBG
  <1>8. CASE MainSetRunning
    BY <1>8 DEF MainSetRunning
  <1>9. CASE MainLeaveLoop
    BY <1>9 DEF MainLeaveLoop
  <1>10. CASE MainUnload
    BY <1>10 DEF MainUnload
  <1>11. CASE MainToggle
    BY <1>11 DEF MainToggle
  <1>12. CASE MainFault
    BY <1>12 DEF MainFault
  <1> QED
    BY <1>1, <1>2, <1>3, <1>4, <1>5, <1>6, <1>7, <1>8, <1>9, <1>10, <1>11, <1>12 DEF MainStep

\* ClientBGThread unhooks once, after the kill switch.
LEMMA BgKeeps == LifeInv /\ BgStep => LifeInv'
  <1> SUFFICES ASSUME LifeInv, BgStep PROVE LifeInv'
    OBVIOUS
  <1> USE DEF LifeInv, LifeTypeOK, Startup, Teardown, Promptly, Looping, PastVM, Up, BgStates, RenderStates, MainStates,
              vars, controlVars, workerVars, mainVars, renderVars, Fault, BgGoto
  <1>1. CASE BgTop
    BY <1>1 DEF BgTop
  <1>2. CASE BgCheck
    BY <1>2 DEF BgCheck
  <1>3. CASE BgUnhook
    BY <1>3 DEF BgUnhook
  <1>4. CASE BgRelease
    BY <1>4 DEF BgRelease
  <1>5. CASE BgClear
    BY <1>5 DEF BgClear
  <1> QED
    BY <1>1, <1>2, <1>3, <1>4, <1>5 DEF BgStep

\* Frames, Run and the press of UNHOOK DLL.
LEMMA FrameKeeps == LifeInv /\ (BeginFrame \/ EndFrame \/ RunScript \/ EndRunScript \/ PressUnhook \/ RenderFault) => LifeInv'
  <1> SUFFICES ASSUME LifeInv, BeginFrame \/ EndFrame \/ RunScript \/ EndRunScript \/ PressUnhook \/ RenderFault PROVE LifeInv'
    OBVIOUS
  <1> USE DEF LifeInv, LifeTypeOK, Startup, Teardown, Promptly, Looping, PastVM, Up, BgStates, RenderStates, MainStates,
              vars, controlVars, workerVars, mainVars, renderVars, Fault, RenderGoto
  <1>1. CASE BeginFrame
    BY <1>1 DEF BeginFrame
  <1>2. CASE EndFrame \/ RunScript \/ EndRunScript
    BY <1>2 DEF EndFrame, RunScript, EndRunScript
  <1>3. CASE PressUnhook
    BY <1>3 DEF PressUnhook, Patient
  <1>4. CASE RenderFault
    BY <1>4 DEF RenderFault
  <1> QED
    BY <1>1, <1>2, <1>3, <1>4

\* UninstallHook takes the parts away in its order and sets the kill switch last.
LEMMA UninstallKeeps == LifeInv /\ UninstallStep => LifeInv'
  <1> SUFFICES ASSUME LifeInv, UninstallStep PROVE LifeInv'
    OBVIOUS
  <1> USE DEF LifeInv, LifeTypeOK, Startup, Teardown, Promptly, Looping, PastVM, Up, BgStates, RenderStates, MainStates,
              vars, controlVars, workerVars, mainVars, renderVars, Fault, Uninstalling, StopperGoto, StopperStates
  <1>1. CASE ShutdownStop
    BY <1>1 DEF ShutdownStop, StoreStop
  <1>2. CASE ShutdownNotify
    BY <1>2 DEF ShutdownNotify, NotifyAll, Notified
  <1>3. CASE ShutdownSleep
    BY <1>3 DEF ShutdownSleep, SleepOver, Patient
  <1>4. CASE ShutdownClose
    BY <1>4 DEF ShutdownClose, CloseState
  <1>5. CASE ResetVM
    BY <1>5 DEF ResetVM, ClearInitialized
  <1>6. CASE ClearRunFlag
    BY <1>6 DEF ClearRunFlag, ClearRunning
  <1>7. CASE SetKillSwitch
    BY <1>7 DEF SetKillSwitch, RenderGoto
  <1> QED
    BY <1>1, <1>2, <1>3, <1>4, <1>5, <1>6, <1>7 DEF UninstallStep

\* The Lua thread and the callers change none of the objects.
LEMMA QueueKeeps ==
    ASSUME LifeInv,
           \/ LuaThread \/ LuaWakeup \/ LuaFault
           \/ \E c \in Callers : RemoteThread(c) \/ RemoteRefused(c) \/ RemoteFault(c)
           \/ \E c \in Callers, s \in Scripts : RemoteCall(c, s)
    PROVE  LifeInv'
  <1> USE DEF LifeInv, LifeTypeOK, Startup, Teardown, Promptly, Looping, PastVM, Up, BgStates, RenderStates, MainStates,
              vars, controlVars, workerVars, mainVars, renderVars, Fault, lifeVars
  <1>1. CASE LuaThread
    BY <1>1, WorkerMoves DEF LuaThread, Stopping
  <1>2. CASE LuaWakeup
    BY <1>2 DEF LuaWakeup, SpuriousWakeup
  <1>3. CASE LuaFault
    BY <1>3 DEF LuaFault
  <1>4. ASSUME NEW c \in Callers, RemoteThread(c) \/ \E s \in Scripts : RemoteCall(c, s) PROVE LifeInv'
    <2>1. UNCHANGED lifeVars /\ (CallerStep(c) \/ \E s \in Scripts : Call(c, s))
      BY <1>4 DEF RemoteThread, RemoteCall
    <2>2. UNCHANGED controlVars /\ (worker' = worker \/ (worker = "asleep" /\ worker' = "wake"))
      BY <2>1, CallerMoves
    <2> QED
      BY <2>1, <2>2
  <1>5. ASSUME NEW c \in Callers, RemoteRefused(c) PROVE LifeInv'
    BY <1>5 DEF RemoteRefused
  <1>6. ASSUME NEW c \in Callers, RemoteFault(c) PROVE LifeInv'
    BY <1>6 DEF RemoteFault
  <1> QED
    BY <1>1, <1>2, <1>3, <1>4, <1>5, <1>6

\* LifeInv holds when MainThread_Initialize starts and is kept by every thread.
LEMMA LifeInvariant == LifeSpec => []LifeInv
  <1>1. LifeInit => LifeInv
    <2> SUFFICES ASSUME LifeInit PROVE LifeInv
      OBVIOUS
    <2>1. LifeTypeOK
      <3>1. g_KillSwitch \in BOOLEAN /\ bShowMenu \in BOOLEAN /\ prompt \in BOOLEAN
        BY DEF LifeInit
      <3>2. unhooks \in 0..1
        BY DEF LifeInit
      <3>3. main \in MainStates /\ bg \in BgStates /\ render \in RenderStates
        BY DEF LifeInit, MainStates, BgStates, RenderStates
      <3> QED
        BY <3>1, <3>2, <3>3 DEF LifeInit, LifeTypeOK
    <2>2. Startup
      BY DEF LifeInit, Startup, Looping, PastVM
    <2>3. Teardown /\ Promptly
      BY DEF LifeInit, Teardown, Promptly, Looping, StopperStates
    <2> QED
      BY <2>1, <2>2, <2>3 DEF LifeInv
  <1>2. LifeInv /\ UNCHANGED allVars => LifeInv'
    BY DEF allVars, vars, queueVars, workerVars, callerVars, controlVars, lifeVars, mainVars, renderVars,
           LifeInv, LifeTypeOK, Startup, Teardown, Promptly
  <1>3. LifeInv /\ [LifeNext]_allVars => LifeInv'
    BY <1>2, MainKeeps, BgKeeps, FrameKeeps, UninstallKeeps, QueueKeeps DEF LifeNext
  <1> QED
    BY <1>1, <1>3, PTL DEF LifeSpec

-------------------------------------------------------------------------------

\* The types of the lifecycle; UnhookD3D is never entered twice.
THEOREM LifeTypeCorrect == LifeSpec => []LifeTypeOK
  BY LifeInvariant, PTL DEF LifeInv

\* The hooks go only after the VM is gone: the kill switch is set after g_LuaVM.reset().
THEOREM VMGoneFirst == LifeSpec => []VMGoneBeforeUnhook
  <1>1. LifeInv => VMGoneBeforeUnhook
    BY DEF LifeInv, LifeTypeOK, Teardown, VMGoneBeforeUnhook
  <1> QED
    BY <1>1, LifeInvariant, PTL

\* A thread touches a missing object only when UNHOOK has begun, and on a closed state
\* only when the 100 ms were too short.
LEMMA FaultKeeps ==
    LifeInv /\ StartupSound /\ PromptShutdownSafe /\ [LifeNext]_allVars => StartupSound' /\ PromptShutdownSafe'
  <1> SUFFICES ASSUME LifeInv, StartupSound, PromptShutdownSafe, [LifeNext]_allVars
               PROVE  StartupSound' /\ PromptShutdownSafe'
    OBVIOUS
  <1>1. CASE fault' = "none"
    BY <1>1 DEF StartupSound, PromptShutdownSafe
  <1>2. CASE UNCHANGED allVars
    BY <1>2 DEF StartupSound, PromptShutdownSafe, allVars, vars, controlVars, lifeVars, renderVars
  <1> USE DEF StartupSound, PromptShutdownSafe, LifeInv, Startup, Teardown, Fault, Alive, vars, controlVars, renderVars
  <1>3. CASE MainFault
    BY <1>3 DEF MainFault
  <1>4. CASE RenderFault
    BY <1>4 DEF RenderFault
  <1>5. CASE LuaFault
    <2>1. CASE WorkerDerefs /\ ~(g_LuaVM = "live" /\ ready = "all") /\ Fault("null")
      BY <2>1 DEF WorkerDerefs, LifeTypeOK, PastVM, Looping
    <2>2. CASE worker = "executing" /\ luaState = "closed" /\ Fault("closed")
      BY <2>2 DEF Promptly, PastVM, Looping, Up, StopperStates
    <2> QED
      BY <1>5, <2>1, <2>2 DEF LuaFault
  <1>6. ASSUME NEW c \in Callers, RemoteFault(c) PROVE StartupSound' /\ PromptShutdownSafe'
    BY <1>6 DEF RemoteFault
  <1>7. CASE MainStep \/ MainToggle
    BY <1>1, <1>7 DEF MainStep, MainToggle, MainGoto, MainCreate, MainEngineInit, MainHook, MainInitVM, MainCreateQueue,
                      MainCreateRunning, MainStartProcessor, MainSpawnLua, MainSpawnBG, MainSetRunning, MainLeaveLoop, MainUnload
  <1>8. CASE BgStep
    BY <1>1, <1>8 DEF BgStep, BgGoto, BgTop, BgCheck, BgUnhook, BgRelease, BgClear
  <1>9. CASE BeginFrame \/ EndFrame \/ RunScript \/ EndRunScript \/ PressUnhook
    BY <1>1, <1>9 DEF RenderGoto, BeginFrame, EndFrame, RunScript, EndRunScript, PressUnhook
  <1>10. CASE UninstallStep
    BY <1>1, <1>10 DEF UninstallStep, Uninstalling, ShutdownStop, ShutdownNotify, ShutdownSleep, ShutdownClose, ResetVM,
                       ClearRunFlag, SetKillSwitch, RenderGoto
  <1>11. CASE LuaThread \/ LuaWakeup
    BY <1>1, <1>11 DEF LuaThread, LuaWakeup, lifeVars
  <1>12. ASSUME NEW c \in Callers, RemoteThread(c) \/ RemoteRefused(c) \/ \E s \in Scripts : RemoteCall(c, s)
         PROVE  fault' = "none"
    BY <1>12 DEF RemoteThread, RemoteRefused, RemoteCall, lifeVars
  <1> QED
    BY <1>1, <1>2, <1>3, <1>4, <1>5, <1>6, <1>7, <1>8, <1>9, <1>10, <1>11, <1>12 DEF LifeNext

\* Both hold in every reachable state.
LEMMA FaultInvariant == LifeSpec => [](StartupSound /\ PromptShutdownSafe)
  <1>1. LifeInit => StartupSound /\ PromptShutdownSafe
    BY DEF LifeInit, StartupSound, PromptShutdownSafe
  <1> QED
    BY <1>1, FaultKeeps, LifeInvariant, PTL DEF LifeSpec

\* Until UNHOOK is pressed no thread meets an object that does not exist: the order of
\* MainThread_Initialize is sound.
THEOREM StartupIsSound == LifeSpec => []StartupSound
  BY FaultInvariant, PTL

\* With sleeps that are long enough lua_close never runs under the worker.
THEOREM PromptShutdownIsSafe == LifeSpec => []PromptShutdownSafe
  BY FaultInvariant, PTL

\* The Lua thread and the background thread leave only after UNHOOK, or because they
\* looked at g_Running before it was set.
THEOREM ThreadsLeaveLate == LifeSpec => ThreadsLeave
  <1> DEFINE Leaves == (worker # "exited" /\ worker' = "exited") \/ (bg # "exited" /\ bg' = "exited")
  <1>1. LifeInv /\ [LifeNext]_allVars => [Leaves => stopper # "run" \/ main \in {"bg", "flag"}]_allVars
    <2> SUFFICES ASSUME LifeInv, LifeNext, Leaves PROVE stopper # "run" \/ main \in {"bg", "flag"}
      OBVIOUS
    <2> USE DEF vars, workerVars, mainVars
    <2>1. CASE MainStep \/ MainToggle \/ MainFault
      BY <2>1 DEF MainStep, MainToggle, MainFault, Fault, MainGoto, MainCreate, MainEngineInit, MainHook, MainInitVM,
                  MainCreateQueue, MainCreateRunning, MainStartProcessor, MainSpawnLua, MainSpawnBG, MainSetRunning, MainLeaveLoop, MainUnload
    <2>2. CASE BgStep
      <3>1. bg = "top" /\ ~g_Running
        BY <2>2 DEF BgStep, BgGoto, BgTop, BgCheck, BgUnhook, BgRelease, BgClear
      <3> QED
        BY <3>1 DEF LifeInv, Startup, Teardown
    <2>3. CASE BeginFrame \/ EndFrame \/ RunScript \/ EndRunScript \/ PressUnhook \/ RenderFault
      BY <2>3 DEF RenderGoto, BeginFrame, EndFrame, RunScript, EndRunScript, PressUnhook, RenderFault, Fault
    <2>4. CASE UninstallStep
      BY <2>4 DEF UninstallStep, Uninstalling, ShutdownStop, StoreStop, StopperGoto, ShutdownNotify, NotifyAll, Notified,
                  ShutdownSleep, SleepOver, ShutdownClose, CloseState, ResetVM, ClearInitialized, ClearRunFlag,
                  ClearRunning, SetKillSwitch, RenderGoto
    <2>5. CASE LuaThread
      <3>1. WorkerStep /\ UNCHANGED bg
        BY <2>5 DEF LuaThread, lifeVars
      <3>2. worker \in {"top", "check"} /\ Stopping
        BY <3>1, WorkerMoves
      <3> QED
        BY <3>2 DEF LifeInv, Startup, Teardown, Stopping
    <2>6. CASE LuaWakeup \/ LuaFault
      BY <2>6 DEF LuaWakeup, SpuriousWakeup, LuaFault, Fault, lifeVars
    <2>7. ASSUME NEW c \in Callers, RemoteThread(c) \/ \E s \in Scripts : RemoteCall(c, s) PROVE FALSE
      <3>1. UNCHANGED bg /\ (CallerStep(c) \/ \E s \in Scripts : Call(c, s))
        BY <2>7 DEF RemoteThread, RemoteCall, lifeVars
      <3>2. worker' = worker \/ worker' = "wake"
        BY <3>1, CallerMoves
      <3> QED
        BY <3>1, <3>2
    <2>8. ASSUME NEW c \in Callers, RemoteRefused(c) \/ RemoteFault(c) PROVE FALSE
      BY <2>8 DEF RemoteRefused, RemoteFault, Fault, lifeVars
    <2> QED
      BY <2>1, <2>2, <2>3, <2>4, <2>5, <2>6, <2>7, <2>8 DEF LifeNext
  <1> QED
    BY <1>1, LifeInvariant, PTL DEF LifeSpec, ThreadsLeave

-------------------------------------------------------------------------------
(* What is over when FreeLibraryAndExitThread is reached.                    *)

\* The DLL is unmapped only after UninstallHook has returned: the VM is shut down and
\* reset, the background thread is gone and g_Running is clear.  If the sleeps were long
\* enough, the lua_State is closed and the Lua thread is not inside a script: it waits
\* on the queue or has left.  (That it has left is what UnloadClean asks in vain.)
UnloadAfterShutdown ==
    dll = "unloaded" =>
        /\ stopper = "done" /\ g_LuaVM = "reset" /\ ~isInitialized /\ ~g_Running /\ bg = "exited"
        /\ prompt => luaState = "closed" /\ worker \in {"asleep", "wake", "pred", "check", "exited"}

Unloading ==
    /\ main \in {"start", "init", "hook"} => hooks = "none" /\ render = "game" /\ stopper = "run"
    /\ stopper \in {"flag", "done"} => ~isInitialized
    /\ main \in Looping /\ ~g_Running => stopper = "done"
    /\ main \in Looping => worker # "none"
    /\ main \in {"bg", "flag"} => worker # "none"
    /\ main \in {"join", "done"} => ~g_Running
    /\ main = "done" => bg = "exited"
    /\ dll = "unloaded" => main = "done"
    /\ prompt /\ stopper \in {"clear", "flag", "done"} => luaState = "closed"

\* Each thread keeps it.
LEMMA UnloadingStep == LifeInv /\ Unloading /\ [LifeNext]_allVars => Unloading'
  <1> SUFFICES ASSUME LifeInv, Unloading, [LifeNext]_allVars PROVE Unloading'
    OBVIOUS
  <1> USE DEF LifeInv, Startup, Teardown, Promptly, Unloading, Looping, PastVM,
              vars, controlVars, workerVars, mainVars, renderVars, lifeVars
  <1>1. CASE MainStep
    <2> USE DEF MainGoto
    <2>1. CASE MainCreate
      BY <2>1 DEF MainCreate
    <2>2. CASE MainEngineInit
      BY <2>2 DEF MainEngineInit, InitializeVM
    <2>3. CASE MainHook
      BY <2>3 DEF MainHook
    <2>4. CASE MainInitVM
      BY <2>4 DEF MainInitVM, InitializeVM
    <2>5. CASE MainCreateQueue \/ MainCreateRunning \/ MainStartProcessor
      BY <2>5 DEF MainCreateQueue, MainCreateRunning, MainStartProcessor
    <2>6. CASE MainSpawnLua
      BY <2>6 DEF MainSpawnLua
    <2>7. CASE MainSpawnBG
      BY <2>7 DEF MainSpawnBG
    <2>8. CASE MainSetRunning
      BY <2>8 DEF MainSetRunning
    <2>9. CASE MainLeaveLoop
      BY <2>9 DEF MainLeaveLoop
    <2>10. CASE MainUnload
      BY <2>10 DEF MainUnload
    <2> QED
      BY <1>1, <2>1, <2>2, <2>3, <2>4, <2>5, <2>6, <2>7, <2>8, <2>9, <2>10 DEF MainStep
  <1>2. CASE MainToggle \/ MainFault \/ RenderFault \/ LuaFault \/ \E c \in Callers : RemoteFault(c)
    BY <1>2 DEF MainToggle, MainFault, RenderFault, LuaFault, RemoteFault, Fault
  <1>3. CASE BgStep
    <2>1. CASE BgTop \/ BgCheck \/ BgUnhook \/ BgRelease
      BY <2>1 DEF BgTop, BgCheck, BgUnhook, BgRelease, BgGoto
    <2>2. CASE BgClear
      BY <2>2 DEF BgClear, BgGoto
    <2> QED
      BY <1>3, <2>1, <2>2 DEF BgStep
  <1>4. CASE BeginFrame \/ EndFrame \/ RunScript \/ EndRunScript \/ PressUnhook
    BY <1>4 DEF BeginFrame, EndFrame, RunScript, EndRunScript, PressUnhook, RenderGoto
  <1>5. CASE UninstallStep
    <2> USE DEF Uninstalling, StopperGoto
    <2>1. CASE ShutdownStop
      BY <2>1 DEF ShutdownStop, StoreStop
    <2>2. CASE ShutdownNotify
      BY <2>2 DEF ShutdownNotify, NotifyAll, Notified
    <2>3. CASE ShutdownSleep
      BY <2>3 DEF ShutdownSleep, SleepOver
    <2>4. CASE ShutdownClose
      BY <2>4 DEF ShutdownClose, CloseState
    <2>5. CASE ResetVM
      BY <2>5 DEF ResetVM, ClearInitialized
    <2>6. CASE ClearRunFlag
      BY <2>6 DEF ClearRunFlag, ClearRunning
    <2>7. CASE SetKillSwitch
      BY <2>7 DEF SetKillSwitch, RenderGoto
    <2> QED
      BY <1>5, <2>1, <2>2, <2>3, <2>4, <2>5, <2>6, <2>7 DEF UninstallStep
  <1>6. CASE LuaThread
    BY <1>6, WorkerMoves DEF LuaThread
  <1>7. CASE LuaWakeup
    BY <1>7 DEF LuaWakeup, SpuriousWakeup
  <1>8. ASSUME NEW c \in Callers, RemoteThread(c) \/ \E s \in Scripts : RemoteCall(c, s) PROVE Unloading'
    <2>1. UNCHANGED lifeVars /\ (CallerStep(c) \/ \E s \in Scripts : Call(c, s))
      BY <1>8 DEF RemoteThread, RemoteCall
    <2>2. UNCHANGED controlVars /\ (worker' = worker \/ (worker = "asleep" /\ worker' = "wake"))
      BY <2>1, CallerMoves
    <2> QED
      BY <2>1, <2>2
  <1>9. ASSUME NEW c \in Callers, RemoteRefused(c) PROVE Unloading'
    BY <1>9 DEF RemoteRefused
  <1>10. CASE UNCHANGED allVars
    BY <1>10 DEF allVars
  <1> QED
    BY <1>1, <1>2, <1>3, <1>4, <1>5, <1>6, <1>7, <1>8, <1>9, <1>10 DEF LifeNext

\* Whenever and in whatever state UNHOOK was pressed, the DLL is unloaded only after
\* UninstallHook is through; with sleeps that are long enough no script of the Lua thread
\* is cut off by it.
THEOREM UnloadsAfterShutdown == LifeSpec => []UnloadAfterShutdown
  <1>1. LifeInit => Unloading
    BY DEF LifeInit, Unloading, Looping
  <1>2. LifeInv /\ Unloading => UnloadAfterShutdown
    BY DEF LifeInv, Teardown, Promptly, Unloading, UnloadAfterShutdown, Looping
  <1> QED
    BY <1>1, <1>2, UnloadingStep, LifeInvariant, PTL DEF LifeSpec

-------------------------------------------------------------------------------
(* The queue inside the DLL.  ScriptQueue starts from a queue that is set up *)
(* and a worker that runs; here both come into being step by step while      *)
(* calls arrive, UNHOOK may be pressed at any moment, and a fault or the     *)
(* unloading may cut everything short.  What ScriptQueueProofs shows holds   *)
(* all the same.                                                             *)

\* What the rest of the DLL does to the variables of the queue: it starts the worker and,
\* before that, creates the VM and sets threadRunning; it sets and clears flags, moves
\* UninstallHook along, and refuses a call that has found no queue.
Outside ==
    /\ UNCHANGED <<queueVars, cur, ran, arg, scriptMutex>>
    /\ threadRunning' = threadRunning \/ (worker = "none" /\ threadRunning' = TRUE)
    /\ worker' = worker \/ (worker = "none" /\ worker' = "top")
    /\ caller' = caller \/ \E c \in Callers : caller[c] = "queue" /\ Goto(c, "unlock")
    /\ isInitialized' = isInitialized \/ (worker = "none" /\ isInitialized' = TRUE)
    /\ luaState' = luaState \/ luaState' = "open"
    /\ g_Running' = g_Running \/ g_Running' \in BOOLEAN
    /\ stopper' = stopper \/ stopper' = "close"

\* Without a worker nothing was taken from the queue.
Unserved == worker = "none" => taken = <<>> /\ ran = <<>>

\* A step of MainThread_Initialize is no step of the queue's threads.
LEMMA MainOutside ==
    LifeInv /\ Unserved /\ TypeOK /\ (MainStep \/ MainToggle \/ MainFault) => Outside /\ Unserved'
  <1> SUFFICES ASSUME LifeInv, Unserved, TypeOK, MainStep \/ MainToggle \/ MainFault PROVE Outside /\ Unserved'
    OBVIOUS
  <1>0. isInitialized \in BOOLEAN /\ threadRunning \in BOOLEAN
    BY DEF TypeOK
  <1> USE <1>0 DEF Outside, Unserved, LifeInv, Startup, PastVM, Looping, MainGoto,
              vars, queueVars, workerVars, callerVars, controlVars
  <1>1. CASE MainCreate
    BY <1>1 DEF MainCreate
  <1>2. CASE MainEngineInit
    BY <1>2 DEF MainEngineInit, InitializeVM
  <1>3. CASE MainHook
    BY <1>3 DEF MainHook
  <1>4. CASE MainInitVM
    BY <1>4 DEF MainInitVM, InitializeVM
  <1>5. CASE MainCreateQueue \/ MainCreateRunning \/ MainStartProcessor
    BY <1>5 DEF MainCreateQueue, MainCreateRunning, MainStartProcessor
  <1>6. CASE MainSpawnLua
    BY <1>6 DEF MainSpawnLua
  <1>7. CASE MainSpawnBG
    BY <1>7 DEF MainSpawnBG
  <1>8. CASE MainSetRunning
    BY <1>8 DEF MainSetRunning
  <1>9. CASE MainLeaveLoop
    BY <1>9 DEF MainLeaveLoop
  <1>10. CASE MainUnload
    BY <1>10 DEF MainUnload
  <1>11. CASE MainToggle
    BY <1>11 DEF MainToggle, mainVars
  <1>12. CASE MainFault
    BY <1>12 DEF MainFault, Fault, mainVars
  <1> QED
    BY <1>1, <1>2, <1>3, <1>4, <1>5, <1>6, <1>7, <1>8, <1>9, <1>10, <1>11, <1>12 DEF MainStep

\* Neither is one of ClientBGThread or of the frames.
LEMMA OthersOutside ==
    Unserved /\ (BgStep \/ BeginFrame \/ EndFrame \/ RunScript \/ EndRunScript \/ PressUnhook \/ RenderFault)
    => Outside /\ Unserved'
  <1> SUFFICES ASSUME Unserved,
                      BgStep \/ BeginFrame \/ EndFrame \/ RunScript \/ EndRunScript \/ PressUnhook \/ RenderFault
               PROVE  Outside /\ Unserved'
    OBVIOUS
  <1> USE DEF Outside, Unserved, vars, queueVars, workerVars, callerVars, controlVars, mainVars
  <1>1. CASE BgTop \/ BgCheck \/ BgUnhook \/ BgRelease
    BY <1>1 DEF BgTop, BgCheck, BgUnhook, BgRelease, BgGoto
  <1>2. CASE BgClear
    BY <1>2 DEF BgClear, BgGoto
  <1>3. CASE BeginFrame \/ EndFrame \/ RunScript \/ EndRunScript \/ PressUnhook
    BY <1>3 DEF BeginFrame, EndFrame, RunScript, EndRunScript, PressUnhook, RenderGoto
  <1>4. CASE RenderFault
    BY <1>4 DEF RenderFault, Fault
  <1> QED
    BY <1>1, <1>2, <1>3, <1>4 DEF BgStep

\* UninstallHook is the stopper of the queue, unless it finds no queue.
LEMMA UninstallQueue ==
    Unserved /\ UninstallStep => (Outside \/ StoreStop \/ StopperStep \/ UNCHANGED vars) /\ Unserved'
  <1> SUFFICES ASSUME Unserved, UninstallStep
               PROVE  (Outside \/ StoreStop \/ StopperStep \/ UNCHANGED vars) /\ Unserved'
    OBVIOUS
  <1> USE DEF Unserved, Uninstalling, mainVars, queueVars, workerVars
  <1>1. CASE ShutdownStop
    <2>1. CASE ready = "all"
      BY <1>1, <2>1 DEF ShutdownStop, StoreStop
    <2>2. CASE ready # "all"
      BY <1>1, <2>2 DEF ShutdownStop, StopperGoto, Outside, callerVars
    <2> QED
      BY <2>1, <2>2
  <1>2. CASE ShutdownNotify
    BY <1>2 DEF ShutdownNotify, NotifyAll, Notified, StopperStep
  <1>3. CASE ShutdownSleep
    BY <1>3 DEF ShutdownSleep, SleepOver, StopperStep
  <1>4. CASE ShutdownClose
    BY <1>4 DEF ShutdownClose, CloseState, StopperStep
  <1>5. CASE ResetVM
    BY <1>5 DEF ResetVM, ClearInitialized, StopperStep
  <1>6. CASE ClearRunFlag
    BY <1>6 DEF ClearRunFlag, ClearRunning, StopperStep
  <1>7. CASE SetKillSwitch
    BY <1>7 DEF SetKillSwitch, RenderGoto, vars, controlVars
  <1> QED
    BY <1>1, <1>2, <1>3, <1>4, <1>5, <1>6, <1>7 DEF UninstallStep

\* The Lua thread and the callers are those of ScriptQueue.
LEMMA ThreadsQueue ==
    ASSUME Unserved,
           \/ LuaThread \/ LuaWakeup \/ LuaFault
           \/ \E c \in Callers : RemoteThread(c) \/ RemoteRefused(c) \/ RemoteFault(c)
           \/ \E c \in Callers, s \in Scripts : RemoteCall(c, s)
    PROVE  (Outside \/ [Next]_vars) /\ Unserved'
  <1> USE DEF Unserved, lifeVars, mainVars
  <1>1. CASE LuaThread
    BY <1>1, WorkerMoves DEF LuaThread, Next, controlVars
  <1>2. CASE LuaWakeup
    BY <1>2 DEF LuaWakeup, SpuriousWakeup, Next, controlVars
  <1>3. CASE LuaFault
    BY <1>3 DEF LuaFault, Fault, vars, queueVars, workerVars, controlVars
  <1>4. ASSUME NEW c \in Callers, RemoteThread(c) \/ \E s \in Scripts : RemoteCall(c, s)
        PROVE  [Next]_vars /\ Unserved'
    <2>1. UNCHANGED lifeVars /\ (CallerStep(c) \/ \E s \in Scripts : Call(c, s))
      BY <1>4 DEF RemoteThread, RemoteCall
    <2>2. UNCHANGED <<threadRunning, taken, ran>> /\ (worker' = "none" => worker = "none")
      BY <2>1 DEF CallerStep, Call, LockScript, LockQueue, CheckSize, Push, NotifyOne, UnlockScript, Notified,
                  queueVars, workerVars, controlVars
    <2>3. Next
      BY <2>1 DEF Next
    <2> QED
      BY <2>1, <2>2, <2>3
  <1>5. ASSUME NEW c \in Callers, RemoteRefused(c) PROVE Outside /\ Unserved'
    BY <1>5 DEF RemoteRefused, Outside, queueVars, workerVars, controlVars
  <1>6. ASSUME NEW c \in Callers, RemoteFault(c) PROVE UNCHANGED vars /\ Unserved'
    BY <1>6 DEF RemoteFault, Fault, vars, queueVars, workerVars, controlVars
  <1> QED
    BY <1>1, <1>2, <1>3, <1>4, <1>5, <1>6

\* So every step of the DLL is a step of ScriptQueue, leaves it alone or is Outside.
LEMMA LifeSteps ==
    LifeInv /\ Unserved /\ TypeOK /\ [LifeNext]_allVars => (Outside \/ [Next]_vars) /\ Unserved'
  <1>1. Unserved /\ UNCHANGED allVars => UNCHANGED vars /\ Unserved'
    BY DEF Unserved, allVars, vars, queueVars, workerVars, controlVars, lifeVars, mainVars
  <1>2. StoreStop \/ StopperStep => Next
    BY DEF Next
  <1> QED
    BY <1>1, <1>2, MainOutside, OthersOutside, UninstallQueue, ThreadsQueue DEF LifeNext

\* Outside steps keep the mutex discipline, ...
LEMMA OutsideSafe == Safe /\ Outside => Safe'
  <1> SUFFICES ASSUME Safe, Outside PROVE Safe'
    OBVIOUS
  <1> USE ThreadsAssumption DEF Safe, Outside, queueVars
  <1>1. caller' \in [Callers -> CallerStates]
        /\ \A c \in Callers : caller'[c] = caller[c] \/ (caller[c] = "queue" /\ caller'[c] = "unlock")
    BY DEF TypeOK, CallerStates, Goto
  <1>2. TypeOK'
    <2>1. g_Running' \in BOOLEAN /\ isInitialized' \in BOOLEAN /\ threadRunning' \in BOOLEAN
      BY Zenon DEF TypeOK
    <2>2. luaState' \in {"open", "closed"} /\ stopper' \in StopperStates /\ worker' \in WorkerStates
      BY DEF TypeOK, WorkerStates, StopperStates
    <2> QED
      BY <1>1, <2>1, <2>2 DEF TypeOK
  <1>3. MutexHeld'
    BY <1>1 DEF MutexHeld, InCritical
  <1>4. RoomToPush'
    BY <1>1 DEF RoomToPush
  <1> QED
    BY <1>2, <1>3, <1>4

\* ... the order of the scripts, ...
LEMMA OutsideOrder == Safe /\ Order /\ Outside => Order'
  <1> SUFFICES ASSUME Safe, Order, Outside PROVE Order'
    OBVIOUS
  <1>1. \A c \in Callers : caller[c] = "notify" => caller'[c] = "notify"
    BY DEF Outside, Safe, TypeOK, Goto
  <1> QED
    BY <1>1 DEF Outside, queueVars, Order, FIFO, WaitsEmpty, NoLostWakeup, LateLeaves

\* ... and what was executed.
LEMMA OutsideExecuted == Safe /\ Unserved /\ Executed /\ Outside => Executed'
  <1> SUFFICES ASSUME Safe, Unserved, Executed, Outside PROVE Executed'
    OBVIOUS
  <1> USE DEF Outside, queueVars
  <1>1. Fresh'
    BY DEF Executed, Fresh, WorkerStates
  <1>2. (ran \o Unstarted)' = ran \o Unstarted /\ taken' = taken
    BY DEF Unstarted, NonEmpty
  <1>3. ASSUME worker = "none" PROVE NonEmptyOf(taken, ran \o Unstarted)
    <2>1. taken = <<>> /\ ran \o Unstarted = <<>>
      BY <1>3, ConcatEmptySeq DEF Unserved, Unstarted
    <2> QED
      BY <2>1, NothingExecuted
  <1>4. ExecutedInOrder'
    BY <1>2, <1>3 DEF Executed, ExecutedInOrder
  <1> QED
    BY <1>1, <1>4 DEF Executed

\* The start of the DLL: an empty queue and no worker.
LEMMA LifeInitQueue == LifeInit => Safe /\ Order /\ Executed /\ Unserved
  <1> SUFFICES ASSUME LifeInit PROVE Safe /\ Order /\ Executed /\ Unserved
    OBVIOUS
  <1> USE DEF LifeInit
  <1>1. Safe
    <2>1. threadRunning \in BOOLEAN /\ g_Running \in BOOLEAN /\ isInitialized \in BOOLEAN
      OBVIOUS
    <2>2. /\ worker \in WorkerStates /\ stopper \in StopperStates
          /\ caller \in [Callers -> CallerStates] /\ arg \in [Callers -> Scripts]
      BY ScriptsAssumption DEF WorkerStates, CallerStates, StopperStates
    <2>3. queue \in Seq(Scripts) /\ Len(queue) <= Capacity /\ late \in Nat
      BY CapacityAssumption
    <2>4. TypeOK
      BY <2>1, <2>2, <2>3, ScriptsAssumption DEF TypeOK
    <2>5. MutexHeld /\ RoomToPush
      BY ThreadsAssumption DEF MutexHeld, InCritical, RoomToPush
    <2> QED
      BY <2>4, <2>5 DEF Safe
  <1>2. Order
    BY ConcatEmptySeq, ScriptsAssumption DEF Order, FIFO, WaitsEmpty, NoLostWakeup, LateLeaves
  <1>3. Executed
    BY DEF Executed, Fresh, ExecutedInOrder
  <1>4. Unserved
    BY DEF Unserved
  <1> QED
    BY <1>1, <1>2, <1>3, <1>4

QueueInv == Safe /\ Order /\ Executed /\ Unserved

\* The invariants of the queue are invariants of the DLL.
LEMMA QueueInvariant == LifeSpec => []QueueInv
  <1>1. LifeInv /\ QueueInv /\ [LifeNext]_allVars => QueueInv'
    <2> SUFFICES ASSUME LifeInv, Safe, Order, Executed, Unserved, [LifeNext]_allVars
                 PROVE  Safe' /\ Order' /\ Executed' /\ Unserved'
      BY DEF QueueInv
    <2>1. (Outside \/ [Next]_vars) /\ Unserved'
      BY LifeSteps DEF Safe
    <2>2. CASE Outside
      BY <2>1, <2>2, OutsideSafe, OutsideOrder, OutsideExecuted
    <2>3. CASE [Next]_vars
      BY <2>1, <2>3, SafeStep, OrderStep, ExecutedStep
    <2> QED
      BY <2>1, <2>2, <2>3
  <1> QED
    BY <1>1, LifeInitQueue, LifeInvariant, PTL DEF LifeSpec, QueueInv

\* In the whole DLL, during start-up and UNHOOK too, the queue never exceeds its
\* capacity and its critical sections exclude each other.
THEOREM DllQueueLocked == LifeSpec => [](TypeOK /\ MutexHeld)
  BY QueueInvariant, PTL DEF QueueInv, Safe

\* In the whole DLL no accepted script is lost, duplicated or overtaken, although
\* RemoteRunScript may be called before the Lua thread exists, and the worker never
\* sleeps over a waiting script without a notification to come.
THEOREM DllQueueOrdered == LifeSpec => [](FIFO /\ NoLostWakeup)
  BY QueueInvariant, PTL DEF QueueInv, Order

\* In the whole DLL the interpreter is given each non-empty script exactly once and in
\* order as long as the VM is up, whichever of its two Initialize calls succeeded.
THEOREM DllExecution == LifeSpec => []ExecutedInOrder
  BY QueueInvariant, PTL DEF QueueInv, Executed

\* The queue of ScriptQueueSpec as the DLL keeps it: a stop is given once the Lua thread
\* exists and threadRunning is clear.  A stop that Shutdown stores earlier is no stop yet:
\* StartScriptProcessor may still take it back.
Dll == INSTANCE ScriptQueueSpec WITH pending <- queue, stopped <- ~threadRunning /\ worker # "none"

\* The threads of the queue neither start nor forget the worker.
LEMMA WorkerStays ==
    ASSUME [Next]_vars
    PROVE  worker' = "none" <=> worker = "none"
  <1>1. CASE WorkerStep
    BY <1>1, WorkerMoves
  <1>2. ASSUME NEW c \in Callers, CallerStep(c) \/ \E s \in Scripts : Call(c, s)
        PROVE  worker' = "none" <=> worker = "none"
    BY <1>2, CallerMoves
  <1>3. CASE SpuriousWakeup \/ StoreStop \/ StopperStep
    BY <1>3 DEF SpuriousWakeup, StoreStop, StopperStep, NotifyAll, Notified, SleepOver, CloseState, ClearInitialized,
                ClearRunning, workerVars
  <1>4. CASE UNCHANGED vars
    BY <1>4 DEF vars, workerVars
  <1> QED
    BY <1>1, <1>2, <1>3, <1>4 DEF Next

\* A step of the queue's threads is the same step of the queue in the DLL; a stop without
\* a worker is none.
LEMMA QueueStepInDll ==
    ASSUME TypeOK, Unserved', [Next]_vars, [Abstract!Next]_(Abstract!vars)
    PROVE  [Dll!Next]_(Dll!vars)
  <1> USE DEF Dll!vars
  <1>0. worker' = "none" <=> worker = "none"
    BY WorkerStays
  <1>1. ASSUME NEW s \in Scripts, Abstract!Submit(s) PROVE [Dll!Next]_(Dll!vars)
    <2>1. Dll!Submit(s)
      BY <1>0, <1>1 DEF Abstract!Submit, Dll!Submit
    <2> QED
      BY <2>1 DEF Dll!Next
  <1>2. CASE Abstract!Take
    <2>1. taken \in Seq(Scripts) /\ queue \in Seq(Scripts) /\ queue # <<>>
      BY <1>2 DEF TypeOK, Abstract!Take
    <2>2. Head(queue) \in Scripts
      BY <2>1
    <2>3. taken' # <<>>
      BY <1>2, <2>1, <2>2 DEF Abstract!Take
    <2>4. worker # "none" /\ worker' # "none"
      BY <1>0, <2>3 DEF Unserved
    <2>5. Dll!Take
      BY <1>2, <2>4 DEF Abstract!Take, Dll!Take
    <2> QED
      BY <2>5 DEF Dll!Next
  <1>3. CASE Abstract!Stop
    <2>1. CASE worker = "none"
      BY <1>0, <1>3, <2>1 DEF Abstract!Stop
    <2>2. CASE worker # "none"
      <3>1. Dll!Stop
        BY <1>0, <1>3, <2>2 DEF Abstract!Stop, Dll!Stop
      <3> QED
        BY <3>1 DEF Dll!Next
    <2> QED
      BY <2>1, <2>2
  <1>4. CASE UNCHANGED Abstract!vars
    BY <1>0, <1>4 DEF Abstract!vars
  <1> QED
    BY <1>1, <1>2, <1>3, <1>4 DEF Abstract!Next

\* The rest of the DLL at most starts the worker, which may find itself stopped.
LEMMA OutsideInDll ==
    ASSUME TypeOK, Outside
    PROVE  [Dll!Next]_(Dll!vars)
  <1> USE DEF Outside, queueVars, Dll!vars
  <1>1. CASE worker' = worker
    BY <1>1
  <1>2. CASE worker = "none" /\ worker' = "top" /\ threadRunning'
    BY <1>2
  <1>3. CASE worker = "none" /\ worker' = "top" /\ ~threadRunning'
    <2>1. Dll!Stop
      BY <1>3 DEF Dll!Stop
    <2> QED
      BY <2>1 DEF Dll!Next
  <1> QED
    BY <1>1, <1>2, <1>3

\* The DLL as a whole implements the bounded queue of ScriptQueueSpec: once the Lua thread
\* exists no step of start-up, UNHOOK or a fault revokes a stop, and at most one script is
\* taken after it.
THEOREM DllRefinesQueue == LifeSpec => Dll!Spec
  <1>1. LifeInit => Dll!Init
    BY DEF LifeInit, Dll!Init
  <1>2. LifeInv /\ QueueInv /\ [LifeNext]_allVars => [Dll!Next]_(Dll!vars)
    <2> SUFFICES ASSUME LifeInv, QueueInv, [LifeNext]_allVars PROVE [Dll!Next]_(Dll!vars)
      OBVIOUS
    <2>1. TypeOK /\ (Outside \/ [Next]_vars) /\ Unserved'
      BY LifeSteps DEF QueueInv, Safe
    <2>2. CASE Outside
      BY <2>1, <2>2, OutsideInDll
    <2>3. CASE [Next]_vars
      <3>1. [Abstract!Next]_(Abstract!vars)
        BY <2>3, StepRefines DEF QueueInv
      <3> QED
        BY <2>1, <2>3, <3>1, QueueStepInDll
    <2> QED
      BY <2>1, <2>2, <2>3
  <1> QED
    BY <1>1, <1>2, LifeInvariant, QueueInvariant, PTL DEF LifeSpec, Dll!Spec
================================================================================
