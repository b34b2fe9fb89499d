------------------------------ MODULE ScriptQueue ------------------------------
(***************************************************************************)
(* The script queue: RemoteRunScript / LuaVM::QueueScriptForExecution on   *)
(* the callers' threads, LuaExecutionThread on the worker, and             *)
(* LuaVM::Shutdown on the render thread (from Menu::UninstallHook).        *)
(* A step of a thread is what it does between two accesses to shared state *)
(* another thread can interleave with.                                     *)
(***************************************************************************)
EXTENDS Naturals, Sequences

CONSTANTS Callers,      \* threads that call RemoteRunScript
          Scripts,      \* the scripts they may pass
          EmptyScript,  \* the empty string, which is queued but never executed
          Capacity,     \* 5 in the code
          MaxAccepted,  \* bound: no new call once this many were accepted
          Lua,          \* the thread that runs LuaExecutionThread
          NoThread      \* owner of a free mutex

ASSUME ThreadsAssumption == Lua \notin Callers /\ NoThread \notin Callers \cup {Lua}
ASSUME ScriptsAssumption == EmptyScript \in Scripts
ASSUME CapacityAssumption == Capacity \in Nat \ {0} /\ MaxAccepted \in Nat

VARIABLES
    queue,          \* *scriptQueue
    queueMutex,     \* owner of *queueMutex
    scriptMutex,    \* owner of CodeEditor::scriptMutex (Source.cpp's copy)
    threadRunning,  \* *threadRunning
    g_Running,
    isInitialized,
    luaState,       \* L: "open" or "closed"
    worker,         \* where LuaExecutionThread is
    cur,            \* its scriptToExecute
    caller,         \* where each caller is in RemoteRunScript
    arg,            \* the script each caller passes
    stopper,        \* where UninstallHook is
    accepted,       \* history: scripts pushed, in order
    taken,          \* history: scripts popped, in order
    ran,            \* history: scripts given to the interpreter, in order
    late            \* history: scripts popped after threadRunning was cleared

queueVars   == <<queue, queueMutex, accepted, taken, late>>
workerVars  == <<worker, cur, ran>>
callerVars  == <<caller, arg, scriptMutex>>
controlVars == <<threadRunning, g_Running, isInitialized, luaState, stopper>>
vars == <<queueVars, workerVars, callerVars, controlVars>>

WorkerStates == {"none", "top", "lock", "locked", "pred", "towait", "asleep", "wake",
                 "check", "pop", "run", "executing", "exited"}
CallerStates == {"idle", "script", "queue", "size", "push", "notify", "unlock"}
StopperStates == {"run", "notify", "sleep", "close", "clear", "flag", "done"}

\* The state once MainThread_Initialize has created the queue and set g_Running.
Init ==
    /\ queue = <<>> /\ queueMutex = NoThread /\ scriptMutex = NoThread
    /\ threadRunning = TRUE /\ g_Running = TRUE
    /\ isInitialized = TRUE /\ luaState = "open"
    /\ worker = "top" /\ cur = EmptyScript
    /\ caller = [c \in Callers |-> "idle"]
    /\ arg = [c \in Callers |-> EmptyScript]
    /\ stopper = "run"
    /\ accepted = <<>> /\ taken = <<>> /\ ran = <<>> /\ late = 0

-------------------------------------------------------------------------------
(* LuaExecutionThread.                                                       *)

Stopping == ~threadRunning \/ ~g_Running

\* while (threadRunning && g_Running): the two flags are read together.
WorkerTop ==
    /\ worker = "top"
    /\ worker' = IF Stopping THEN "exited" ELSE "lock"
    /\ cur' = EmptyScript
    /\ UNCHANGED <<queueVars, ran, callerVars, controlVars>>

WorkerAcquire(from, to) ==
    /\ worker = from
    /\ queueMutex = NoThread
    /\ queueMutex' = Lua
    /\ worker' = to
    /\ UNCHANGED <<queue, accepted, taken, late, cur, ran, callerVars, controlVars>>

\* std::unique_lock lock(*queueMutex)
WorkerLock == WorkerAcquire("lock", "locked")

\* if (scriptQueue->empty()) wait(...)
WorkerEmpty ==
    /\ worker = "locked"
    /\ worker' = IF queue = <<>> THEN "pred" ELSE "check"
    /\ UNCHANGED <<queueVars, cur, ran, callerVars, controlVars>>

\* The wait predicate, evaluated with the mutex held.
WorkerPred ==
    /\ worker = "pred"
    /\ worker' = IF queue # <<>> \/ Stopping THEN "check" ELSE "towait"
    /\ UNCHANGED <<queueVars, cur, ran, callerVars, controlVars>>

\* condition_variable::wait: release the mutex and sleep, in one step.
WorkerSleep ==
    /\ worker = "towait"
    /\ worker' = "asleep"
    /\ queueMutex' = NoThread
    /\ UNCHANGED <<queue, accepted, taken, late, cur, ran, callerVars, controlVars>>

\* A wakeup nobody asked for, which the standard allows.
SpuriousWakeup ==
    /\ worker = "asleep"
    /\ worker' = "wake"
    /\ UNCHANGED <<queueVars, cur, ran, callerVars, controlVars>>

WorkerRelock == WorkerAcquire("wake", "pred")

\* Mutant: no stop check between the wait and the pop.
WorkerCheckNever ==
    /\ worker = "check"
    /\ worker' = "pop"
    /\ UNCHANGED <<queueVars, cur, ran, callerVars, controlVars>>

\* if (!threadRunning || !g_Running) break;
WorkerCheck ==
    /\ worker = "check"
    /\ IF Stopping
       THEN worker' = "exited" /\ queueMutex' = NoThread
       ELSE worker' = "pop" /\ UNCHANGED queueMutex
    /\ UNCHANGED <<queue, accepted, taken, late, cur, ran, callerVars, controlVars>>

\* Mutant: front() without pop().
WorkerPopNot ==
    /\ worker = "pop"
    /\ queue # <<>>
    /\ cur' = Head(queue)
    /\ taken' = Append(taken, Head(queue))
    /\ worker' = "run"
    /\ queueMutex' = NoThread
    /\ UNCHANGED <<queue, late, accepted, ran, callerVars, controlVars>>

\* Take the front script, if there is one, and leave the critical section.
WorkerPop ==
    /\ worker = "pop"
    /\ IF queue # <<>>
       THEN /\ cur' = Head(queue)
            /\ queue' = Tail(queue)
            /\ taken' = Append(taken, Head(queue))
            /\ late' = IF threadRunning THEN late ELSE late + 1
       ELSE UNCHANGED <<cur, queue, taken, late>>
    /\ worker' = "run"
    /\ queueMutex' = NoThread
    /\ UNCHANGED <<accepted, ran, callerVars, controlVars>>

\* if (!scriptToExecute.empty()) ExecuteString(...), which returns at once
\* when the VM is not initialized.
WorkerRun ==
    /\ worker = "run"
    /\ IF cur # EmptyScript /\ isInitialized
       THEN worker' = "executing" /\ ran' = Append(ran, cur)
       ELSE worker' = "top" /\ UNCHANGED ran
    /\ UNCHANGED <<queueVars, cur, callerVars, controlVars>>

\* Mutant: a script that failed is tried again.
WorkerRetry ==
    /\ worker = "executing"
    /\ worker' \in {"run", "top"}
    /\ UNCHANGED <<queueVars, cur, ran, callerVars, controlVars>>

\* The script ended, with a syntax error, a runtime error or normally.
WorkerEndRun ==
    /\ worker = "executing"
    /\ worker' = "top"
    /\ UNCHANGED <<queueVars, cur, ran, callerVars, controlVars>>

WorkerStep ==
    \/ WorkerTop \/ WorkerLock \/ WorkerEmpty \/ WorkerPred \/ WorkerSleep
    \/ WorkerRelock \/ WorkerCheck \/ WorkerPop \/ WorkerRun \/ WorkerEndRun

-------------------------------------------------------------------------------
(* RemoteRunScript and QueueScriptForExecution.                              *)

Goto(c, to) == caller' = [caller EXCEPT ![c] = to]

\* RemoteRunScript(s); without an initialized VM it returns silently.
Call(c, s) ==
    /\ caller[c] = "idle"
    /\ isInitialized
    /\ Len(accepted) < MaxAccepted
    /\ Goto(c, "script")
    /\ arg' = [arg EXCEPT ![c] = s]
    /\ UNCHANGED <<queueVars, workerVars, scriptMutex, controlVars>>

LockScript(c) ==
    /\ caller[c] = "script"
    /\ scriptMutex = NoThread
    /\ scriptMutex' = c
    /\ Goto(c, "queue")
    /\ UNCHANGED <<queueVars, workerVars, arg, controlVars>>

\* Mutant: the caller does not wait for the mutex.
LockQueueNot(c) ==
    /\ caller[c] = "queue"
    /\ queueMutex' = c
    /\ Goto(c, "size")
    /\ UNCHANGED <<queue, accepted, taken, late, workerVars, arg, scriptMutex, controlVars>>

LockQueue(c) ==
    /\ caller[c] = "queue"
    /\ queueMutex = NoThread
    /\ queueMutex' = c
    /\ Goto(c, "size")
    /\ UNCHANGED <<queue, accepted, taken, late, workerVars, arg, scriptMutex, controlVars>>

\* Mutant: > instead of >=.
CheckSizeOffByOne(c) ==
    /\ caller[c] = "size"
    /\ IF Len(queue) > Capacity
       THEN queueMutex' = NoThread /\ Goto(c, "unlock")
       ELSE UNCHANGED queueMutex /\ Goto(c, "push")
    /\ UNCHANGED <<queue, accepted, taken, late, workerVars, arg, scriptMutex, controlVars>>

\* if (queueSize >= 5) return false;
CheckSize(c) ==
    /\ caller[c] = "size"
    /\ IF Len(queue) >= Capacity
       THEN queueMutex' = NoThread /\ Goto(c, "unlock")
       ELSE UNCHANGED queueMutex /\ Goto(c, "push")
    /\ UNCHANGED <<queue, accepted, taken, late, workerVars, arg, scriptMutex, controlVars>>

\* Mutant: only a push to an empty queue is followed by a notification, and the
\* emptiness is judged after the push.
PushQuietly(c) ==
    /\ caller[c] = "push"
    /\ queue' = Append(queue, arg[c])
    /\ accepted' = Append(accepted, arg[c])
    /\ queueMutex' = NoThread
    /\ Goto(c, IF Len(queue') = 0 THEN "notify" ELSE "unlock")
    /\ UNCHANGED <<taken, late, workerVars, arg, scriptMutex, controlVars>>

Push(c) ==
    /\ caller[c] = "push"
    /\ queue' = Append(queue, arg[c])
    /\ accepted' = Append(accepted, arg[c])
    /\ queueMutex' = NoThread
    /\ Goto(c, "notify")
    /\ UNCHANGED <<taken, late, workerVars, arg, scriptMutex, controlVars>>

\* A notification reaches the worker only while it sleeps.
Notified == worker' = IF worker = "asleep" THEN "wake" ELSE worker

\* notify_one, after the critical section.
NotifyOne(c) ==
    /\ caller[c] = "notify"
    /\ Notified
    /\ Goto(c, "unlock")
    /\ UNCHANGED <<queueVars, cur, ran, arg, scriptMutex, controlVars>>

UnlockScript(c) ==
    /\ caller[c] = "unlock"
    /\ scriptMutex' = NoThread
    /\ Goto(c, "idle")
    /\ UNCHANGED <<queueVars, workerVars, arg, controlVars>>

CallerStep(c) ==
    LockScript(c) \/ LockQueue(c) \/ CheckSize(c) \/ Push(c) \/ NotifyOne(c) \/ UnlockScript(c)

-------------------------------------------------------------------------------
(* UninstallHook: LuaVM::Shutdown, then g_Running = false.                   *)

StopperGoto(from, to) == stopper = from /\ stopper' = to

\* threadRunning->store(false): without the mutex.
StoreStop ==
    /\ StopperGoto("run", "notify")
    /\ threadRunning' = FALSE
    /\ UNCHANGED <<queueVars, workerVars, callerVars, g_Running, isInitialized, luaState>>

NotifyAll ==
    /\ StopperGoto("notify", "sleep")
    /\ Notified
    /\ UNCHANGED <<queueVars, cur, ran, callerVars, threadRunning, g_Running, isInitialized, luaState>>

\* The 100 ms are over; nothing bounds what the others did meanwhile.
SleepOver ==
    /\ StopperGoto("sleep", "close")
    /\ UNCHANGED <<queueVars, workerVars, callerVars, threadRunning, g_Running, isInitialized, luaState>>

\* lua_close(L)
CloseState ==
    /\ StopperGoto("close", "clear")
    /\ luaState' = "closed"
    /\ UNCHANGED <<queueVars, workerVars, callerVars, threadRunning, g_Running, isInitialized>>

ClearInitialized ==
    /\ StopperGoto("clear", "flag")
    /\ isInitialized' = FALSE
    /\ UNCHANGED <<queueVars, workerVars, callerVars, threadRunning, g_Running, luaState>>

ClearRunning ==
    /\ StopperGoto("flag", "done")
    /\ g_Running' = FALSE
    /\ UNCHANGED <<queueVars, workerVars, callerVars, threadRunning, isInitialized, luaState>>

StopperStep == NotifyAll \/ SleepOver \/ CloseState \/ ClearInitialized \/ ClearRunning

-------------------------------------------------------------------------------

Next ==
    \/ WorkerStep
    \/ SpuriousWakeup
    \/ \E c \in Callers : CallerStep(c) \/ \E s \in Scripts : Call(c, s)
    \/ StoreStop
    \/ StopperStep

Spec == Init /\ [][Next]_vars

\* Threads are scheduled, scripts end, a started call or shutdown goes on, and the
\* worker, asking for the mutex again and again, gets it.  Nobody has to call, to
\* press UNHOOK, or to wake up spuriously.
Fairness ==
    /\ WF_vars(WorkerStep)
    /\ SF_vars(WorkerLock \/ WorkerRelock)
    /\ \A c \in Callers : WF_vars(CallerStep(c))
    /\ WF_vars(StopperStep)

FairSpec == Spec /\ Fairness

-------------------------------------------------------------------------------
(* Properties.                                                               *)

\* Types, and the bound QueueScriptForExecution puts on the queue: never more
\* than Capacity scripts wait, although the size is read in one step and the
\* script pushed in another.
TypeOK ==
    /\ queue \in Seq(Scripts) /\ Len(queue) <= Capacity
    /\ accepted \in Seq(Scripts) /\ taken \in Seq(Scripts) /\ ran \in Seq(Scripts)
    /\ late \in Nat
    /\ queueMutex \in Callers \cup {Lua, NoThread}
    /\ scriptMutex \in Callers \cup {NoThread}
    /\ worker \in WorkerStates /\ cur \in Scripts
    /\ caller \in [Callers -> CallerStates] /\ arg \in [Callers -> Scripts]
    /\ stopper \in StopperStates
    /\ threadRunning \in BOOLEAN /\ g_Running \in BOOLEAN /\ isInitialized \in BOOLEAN
    /\ luaState \in {"open", "closed"}

InCritical(t) ==
    IF t = Lua THEN worker \in {"locked", "pred", "towait", "check", "pop"}
               ELSE caller[t] \in {"size", "push"}

\* Whoever is between lock and unlock of queueMutex owns it, so no two threads
\* are ever inside the queue's critical sections together.
MutexHeld == \A t \in Callers \cup {Lua} : InCritical(t) <=> queueMutex = t

\* Scripts reach the Lua thread in the order they were accepted: none is lost,
\* duplicated or overtaken between RemoteRunScript and LuaExecutionThread.
FIFO == accepted = taken \o queue

\* No lost wakeup: if the worker sleeps in queueCondition->wait although a script
\* waits, some caller that pushed has still to call notify_one.
NoLostWakeup ==
    worker = "asleep" /\ queue # <<>> => \E c \in Callers : caller[c] = "notify"

NonEmpty(s) == s # EmptyScript
Unstarted == IF worker = "run" /\ NonEmpty(cur) THEN <<cur>> ELSE <<>>

\* The non-empty scripts of s are those of r: r[i] is the one at place[i] of s.
NonEmptyOf(s, r) ==
    \E place \in [1..Len(r) -> 1..Len(s)] :
        /\ \A i \in 1..Len(r) : NonEmpty(r[i]) /\ r[i] = s[place[i]]
        /\ \A i, j \in 1..Len(r) : i < j => place[i] < place[j]
        /\ \A k \in 1..Len(s) : NonEmpty(s[k]) => \E i \in 1..Len(r) : place[i] = k

\* As long as the VM is up, the interpreter is given every non-empty script taken
\* from the queue exactly once and in order, whatever its scripts' outcome.
ExecutedInOrder == isInitialized => NonEmptyOf(taken, ran \o Unstarted)

\* The threads together implement the queue of ScriptQueueSpec; in particular at
\* most one script is taken after Shutdown has cleared threadRunning.
Abstract == INSTANCE ScriptQueueSpec WITH pending <- queue, stopped <- ~threadRunning
ImplementsQueue == Abstract!Spec

\* Every accepted script is eventually taken by the Lua thread, unless it is told
\* to stop first.
EveryScriptTaken ==
    \A n \in 1..MaxAccepted : (Len(accepted) >= n) ~> (Len(taken) >= n \/ Stopping)

\* LuaVM.cpp says that clearing threadRunning and notifying wakes every waiting
\* thread: after that LuaExecutionThread ends.
StopEndsWorker == ~threadRunning ~> worker = "exited"

===============================================================================
