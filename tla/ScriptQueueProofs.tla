--------------------------- MODULE ScriptQueueProofs ---------------------------
(***************************************************************************)
(* Proofs about ScriptQueue for every set of callers and scripts and every *)
(* capacity.  TypeOK (which bounds the queue) and NoLostWakeup are not     *)
(* inductive: they rest on the mutex discipline and on what each thread    *)
(* knows about the queue while it owns the mutex.                          *)
(***************************************************************************)
EXTENDS ScriptQueue, SequenceTheorems, TLAPS

\* A caller that has read the size still finds room when it pushes.
RoomToPush == \A c \in Callers : caller[c] = "push" => Len(queue) < Capacity

\* The worker still sees the empty queue when it goes to sleep.
WaitsEmpty == worker = "towait" => queue = <<>>

\* After a late take the worker only finishes that script and leaves.
LateLeaves == late # 0 => ~threadRunning /\ worker \in {"run", "executing", "top", "exited"}

Safe == TypeOK /\ MutexHeld /\ RoomToPush

\* Pushing at the back of the queue appends to what was ever accepted.
LEMMA ConcatAppend ==
    ASSUME NEW S, NEW p \in Seq(S), NEW q \in Seq(S), NEW s \in S
    PROVE  p \o Append(q, s) = Append(p \o q, s)
  <1>1. /\ <<s>> \in Seq(S)
        /\ Append(q, s) = q \o <<s>>
        /\ p \o q \in Seq(S)
    BY AppendIsConcat, ConcatProperties
  <1>2. (p \o q) \o <<s>> = p \o (q \o <<s>>)
    BY <1>1, ConcatAssociative
  <1>3. Append(p \o q, s) = (p \o q) \o <<s>>
    BY <1>1, AppendIsConcat
  <1> QED
    BY <1>1, <1>2, <1>3

\* Moving the front of the queue to the end of taken keeps their concatenation.
LEMMA ConcatTail ==
    ASSUME NEW S, NEW p \in Seq(S), NEW q \in Seq(S), q # <<>>
    PROVE  Append(p, Head(q)) \o Tail(q) = p \o q
  <1>1. /\ Head(q) \in S /\ Tail(q) \in Seq(S)
        /\ Len(Tail(q)) = Len(q) - 1
        /\ \A i \in 1 .. Len(Tail(q)) : Tail(q)[i] = q[i + 1]
    BY HeadTailProperties
  <1>2. /\ <<Head(q)>> \in Seq(S)
        /\ Append(p, Head(q)) = p \o <<Head(q)>>
    BY <1>1, AppendIsConcat
  <1>3. <<Head(q)>> \o Tail(q) = q
    <2>1. /\ <<Head(q)>> \o Tail(q) \in Seq(S)
          /\ Len(<<Head(q)>> \o Tail(q)) = Len(q)
          /\ \A i \in 1 .. Len(q) : (<<Head(q)>> \o Tail(q))[i] =
                IF i <= 1 THEN Head(q) ELSE Tail(q)[i - 1]
      BY <1>1, <1>2, ConcatProperties
    <2>2. ASSUME NEW i \in 1 .. Len(q)
          PROVE  (<<Head(q)>> \o Tail(q))[i] = q[i]
      BY <2>1, <1>1
    <2> QED
      BY <2>1, <2>2, SeqEqual
  <1>4. (p \o <<Head(q)>>) \o Tail(q) = p \o (<<Head(q)>> \o Tail(q))
    BY <1>1, <1>2, ConcatAssociative
  <1> QED
    BY <1>2, <1>3, <1>4

-------------------------------------------------------------------------------
(* The mutex discipline, types and the bound.                                *)

\* MainThread_Initialize leaves the queue empty and unlocked.
LEMMA InitSafe == Init => Safe
  BY ThreadsAssumption, ScriptsAssumption, CapacityAssumption
     DEF Init, Safe, TypeOK, MutexHeld, InCritical, RoomToPush, WorkerStates,
         CallerStates, StopperStates

\* LuaExecutionThread pops and sleeps only with queueMutex and never adds a script.
LEMMA WorkerSafe == Safe /\ (WorkerStep \/ SpuriousWakeup) => Safe'
  <1> SUFFICES ASSUME Safe, WorkerStep \/ SpuriousWakeup PROVE Safe'
    OBVIOUS
  <1> USE ThreadsAssumption, ScriptsAssumption, CapacityAssumption
      DEF Safe, TypeOK, MutexHeld, InCritical, RoomToPush, WorkerStates,
          queueVars, callerVars, controlVars, workerVars
  <1>1. CASE WorkerTop
    BY <1>1 DEF WorkerTop
  <1>2. CASE WorkerLock
    BY <1>2 DEF WorkerLock, WorkerAcquire
  <1>3. CASE WorkerEmpty
    BY <1>3 DEF WorkerEmpty
  <1>4. CASE WorkerPred
    BY <1>4 DEF WorkerPred
  <1>5. CASE WorkerSleep
    BY <1>5 DEF WorkerSleep
  <1>6. CASE SpuriousWakeup
    BY <1>6 DEF SpuriousWakeup
  <1>7. CASE WorkerRelock
    BY <1>7 DEF WorkerRelock, WorkerAcquire
  <1>8. CASE WorkerCheck
    BY <1>8 DEF WorkerCheck
  <1>9. CASE WorkerPop
    <2>1. CASE queue # <<>>
      <3>1. /\ Head(queue) \in Scripts /\ Tail(queue) \in Seq(Scripts)
            /\ Len(Tail(queue)) <= Len(queue) /\ Len(queue) \in Nat /\ Len(Tail(queue)) \in Nat
            /\ Append(taken, Head(queue)) \in Seq(Scripts)
        BY <2>1, HeadTailProperties, AppendProperties
      <3>2. /\ queue' = Tail(queue) /\ cur' = Head(queue) /\ taken' = Append(taken, Head(queue))
            /\ worker' = "run" /\ queueMutex = Lua /\ queueMutex' = NoThread
            /\ UNCHANGED <<accepted, ran, callerVars, controlVars>>
        BY <1>9, <2>1 DEF WorkerPop
      <3>3. late' \in Nat
        BY <1>9, <2>1 DEF WorkerPop
      <3>4. TypeOK'
        BY <3>1, <3>2, <3>3
      <3>5. MutexHeld'
        BY <1>9, <3>2 DEF WorkerPop
      <3>6. RoomToPush'
        BY <3>1, <3>2
      <3> QED
        BY <3>4, <3>5, <3>6
    <2>2. CASE queue = <<>>
      BY <1>9, <2>2 DEF WorkerPop
    <2> QED
      BY <2>1, <2>2
  <1>10. CASE WorkerRun
    <2>1. Append(ran, cur) \in Seq(Scripts)
      BY AppendProperties
    <2> QED
      BY <1>10, <2>1 DEF WorkerRun
  <1>11. CASE WorkerEndRun
    BY <1>11 DEF WorkerEndRun
  <1> QED
    BY <1>1, <1>2, <1>3, <1>4, <1>5, <1>6, <1>7, <1>8, <1>9, <1>10, <1>11 DEF WorkerStep

\* A RemoteRunScript call pushes under the mutex under which it read the size.
LEMMA CallerSafe ==
    ASSUME Safe, NEW c \in Callers, CallerStep(c) \/ \E s \in Scripts : Call(c, s)
    PROVE  Safe'
  <1> USE ThreadsAssumption, ScriptsAssumption, CapacityAssumption
      DEF Safe, TypeOK, MutexHeld, InCritical, RoomToPush, CallerStates, Goto,
          queueVars, callerVars, controlVars, workerVars
  <1>1. ASSUME NEW s \in Scripts, Call(c, s) PROVE Safe'
    BY <1>1 DEF Call
  <1>2. CASE LockScript(c)
    BY <1>2 DEF LockScript
  <1>3. CASE LockQueue(c)
    BY <1>3 DEF LockQueue
  <1>4. CASE CheckSize(c)
    <2>1. Len(queue) \in Nat
      BY LenProperties
    <2>2. CASE Len(queue) >= Capacity
      BY <1>4, <2>1, <2>2 DEF CheckSize
    <2>3. CASE ~(Len(queue) >= Capacity)
      BY <1>4, <2>1, <2>3 DEF CheckSize
    <2> QED
      BY <2>2, <2>3
  <1>5. CASE Push(c)
    <2>1. /\ Append(queue, arg[c]) \in Seq(Scripts)
          /\ Append(accepted, arg[c]) \in Seq(Scripts)
          /\ Len(Append(queue, arg[c])) = Len(queue) + 1
          /\ Len(queue) \in Nat
      BY AppendProperties, LenProperties
    <2>2. Len(queue) < Capacity /\ queueMutex = c
      BY <1>5 DEF Push
    <2>3. TypeOK'
      BY <1>5, <2>1, <2>2 DEF Push, WorkerStates, StopperStates
    <2>4. MutexHeld'
      BY <1>5, <2>2 DEF Push
    <2>5. RoomToPush'
      BY <1>5, <2>2 DEF Push
    <2> QED
      BY <2>3, <2>4, <2>5
  <1>6. CASE NotifyOne(c)
    BY <1>6 DEF NotifyOne, Notified, WorkerStates
  <1>7. CASE UnlockScript(c)
    BY <1>7 DEF UnlockScript
  <1> QED
    BY <1>1, <1>2, <1>3, <1>4, <1>5, <1>6, <1>7 DEF CallerStep

\* Shutdown and UninstallHook leave the queue and its mutex alone.
LEMMA StopperSafe == Safe /\ (StoreStop \/ StopperStep) => Safe'
  <1> SUFFICES ASSUME Safe, StoreStop \/ StopperStep PROVE Safe'
    OBVIOUS
  <1> USE ThreadsAssumption
      DEF Safe, TypeOK, MutexHeld, InCritical, RoomToPush, StopperStates, StopperGoto,
          queueVars, callerVars, workerVars
  <1>1. CASE StoreStop
    BY <1>1 DEF StoreStop
  <1>2. CASE NotifyAll
    BY <1>2 DEF NotifyAll, Notified, WorkerStates
  <1>3. CASE SleepOver
    BY <1>3 DEF SleepOver
  <1>4. CASE CloseState
    BY <1>4 DEF CloseState
  <1>5. CASE ClearInitialized
    BY <1>5 DEF ClearInitialized
  <1>6. CASE ClearRunning
    BY <1>6 DEF ClearRunning
  <1> QED
    BY <1>1, <1>2, <1>3, <1>4, <1>5, <1>6 DEF StopperStep

\* Nothing is lost while no thread of the queue moves.
LEMMA StutterSafe == Safe /\ UNCHANGED vars => Safe'
  BY DEF Safe, TypeOK, MutexHeld, InCritical, RoomToPush, vars, queueVars, workerVars,
         callerVars, controlVars

\* Every step keeps the capacity bound and the mutex discipline.
LEMMA SafeStep == Safe /\ [Next]_vars => Safe'
  BY WorkerSafe, CallerSafe, StopperSafe, StutterSafe DEF Next

\* They hold in every reachable state.
LEMMA SafeInvariant == Spec => []Safe
  BY InitSafe, SafeStep, PTL DEF Spec

\* Spec keeps its types and its queue within Capacity: the size check and the push
\* of QueueScriptForExecution are one critical section.
THEOREM TypeCorrect == Spec => []TypeOK
  BY SafeInvariant, PTL DEF Safe

\* The critical sections of LuaExecutionThread and QueueScriptForExecution exclude
\* each other.
THEOREM MutexCorrect == Spec => []MutexHeld
  BY SafeInvariant, PTL DEF Safe

-------------------------------------------------------------------------------
(* Order of the scripts, wakeups and the stop.                               *)

Order == FIFO /\ WaitsEmpty /\ NoLostWakeup /\ LateLeaves

\* Before the first call nothing was accepted and the worker does not sleep.
LEMMA InitOrder == Init => Order
  BY ConcatEmptySeq, ScriptsAssumption
     DEF Init, Order, FIFO, WaitsEmpty, NoLostWakeup, LateLeaves

\* Each step of LuaExecutionThread keeps the order, and it sleeps only on an empty queue.
LEMMA WorkerOrder == Safe /\ Order /\ (WorkerStep \/ SpuriousWakeup) => Order'
  <1> SUFFICES ASSUME Safe, Order, WorkerStep \/ SpuriousWakeup PROVE Order'
    OBVIOUS
  <1> USE DEF Order, FIFO, WaitsEmpty, NoLostWakeup, LateLeaves,
          queueVars, callerVars, controlVars, workerVars
  <1>1. CASE WorkerTop
    BY <1>1 DEF WorkerTop, Stopping
  <1>2. CASE WorkerLock
    BY <1>2 DEF WorkerLock, WorkerAcquire
  <1>3. CASE WorkerEmpty
    BY <1>3 DEF WorkerEmpty
  <1>4. CASE WorkerPred
    BY <1>4 DEF WorkerPred
  <1>5. CASE WorkerSleep
    BY <1>5 DEF WorkerSleep
  <1>6. CASE SpuriousWakeup
    BY <1>6 DEF SpuriousWakeup
  <1>7. CASE WorkerRelock
    BY <1>7 DEF WorkerRelock, WorkerAcquire
  <1>8. CASE WorkerCheck
    BY <1>8 DEF WorkerCheck
  <1>9. CASE WorkerPop
    <2>1. CASE queue # <<>>
      <3>1. taken' \o queue' = taken \o queue
        BY <1>9, <2>1, ConcatTail DEF WorkerPop, Safe, TypeOK
      <3>2. late' # 0 => ~threadRunning'
        BY <1>9, <2>1 DEF WorkerPop
      <3> QED
        BY <1>9, <2>1, <3>1, <3>2 DEF WorkerPop
    <2>2. CASE queue = <<>>
      BY <1>9, <2>2 DEF WorkerPop
    <2> QED
      BY <2>1, <2>2
  <1>10. CASE WorkerRun
    BY <1>10 DEF WorkerRun
  <1>11. CASE WorkerEndRun
    BY <1>11 DEF WorkerEndRun
  <1> QED
    BY <1>1, <1>2, <1>3, <1>4, <1>5, <1>6, <1>7, <1>8, <1>9, <1>10, <1>11 DEF WorkerStep

\* A push goes to the back and its caller still owes a notify_one.
LEMMA CallerOrder ==
    ASSUME Safe, Order, NEW c \in Callers, CallerStep(c) \/ \E s \in Scripts : Call(c, s)
    PROVE  Order'
  <1> USE DEF Order, FIFO, WaitsEmpty, NoLostWakeup, LateLeaves, Goto,
          queueVars, callerVars, controlVars, workerVars
  <1>0. caller \in [Callers -> CallerStates]
    BY DEF Safe, TypeOK
  <1>1. ASSUME NEW s \in Scripts, Call(c, s) PROVE Order'
    BY <1>0, <1>1 DEF Call
  <1>2. CASE LockScript(c)
    BY <1>0, <1>2 DEF LockScript
  <1>3. CASE LockQueue(c)
    BY <1>0, <1>3 DEF LockQueue
  <1>4. CASE CheckSize(c)
    BY <1>0, <1>4 DEF CheckSize
  <1>5. CASE Push(c)
    <2>1. worker # "towait"
      BY <1>5, ThreadsAssumption DEF Push, Safe, MutexHeld, InCritical
    <2>2. FIFO'
      <3>1. taken \in Seq(Scripts) /\ queue \in Seq(Scripts) /\ arg[c] \in Scripts
        BY DEF Safe, TypeOK
      <3>2. taken \o Append(queue, arg[c]) = Append(taken \o queue, arg[c])
        BY <3>1, ConcatAppend
      <3> QED
        BY <1>5, <3>2 DEF Push
    <2>3. caller'[c] = "notify"
      BY <1>0, <1>5 DEF Push
    <2> QED
      BY <1>5, <2>1, <2>2, <2>3 DEF Push
  <1>6. CASE NotifyOne(c)
    BY <1>0, <1>6 DEF NotifyOne, Notified
  <1>7. CASE UnlockScript(c)
    BY <1>0, <1>7 DEF UnlockScript
  <1> QED
    BY <1>1, <1>2, <1>3, <1>4, <1>5, <1>6, <1>7 DEF CallerStep

\* Shutdown touches no script and wakes at most the worker.
LEMMA StopperOrder == Order /\ (StoreStop \/ StopperStep) => Order'
  <1> USE DEF Order, FIFO, WaitsEmpty, NoLostWakeup, LateLeaves, queueVars, callerVars, workerVars
  <1>1. ASSUME Order, StoreStop PROVE Order'
    BY <1>1 DEF StoreStop
  <1>2. ASSUME Order, NotifyAll PROVE Order'
    BY <1>2 DEF NotifyAll, Notified
  <1>3. ASSUME Order, SleepOver \/ CloseState \/ ClearInitialized \/ ClearRunning PROVE Order'
    BY <1>3 DEF SleepOver, CloseState, ClearInitialized, ClearRunning
  <1> QED
    BY <1>1, <1>2, <1>3 DEF StopperStep

\* Every step keeps the order, and what it needs about sleeping and stopping.
LEMMA OrderStep == Safe /\ Order /\ [Next]_vars => Order'
  <1>1. Order /\ UNCHANGED vars => Order'
    BY DEF Order, FIFO, WaitsEmpty, NoLostWakeup, LateLeaves, vars, queueVars, workerVars,
           callerVars, controlVars
  <1> QED
    BY <1>1, WorkerOrder, CallerOrder, StopperOrder DEF Next

\* Both hold in every reachable state.
LEMMA OrderInvariant == Spec => []Order
  BY InitOrder, SafeInvariant, OrderStep, PTL DEF Spec

\* Scripts are handed to LuaExecutionThread in the order RemoteRunScript accepted
\* them, none lost and none twice.
THEOREM FIFOCorrect == Spec => []FIFO
  BY OrderInvariant, PTL DEF Order

\* The worker never sleeps over a waiting script without a notify_one to come.
THEOREM WakeupCorrect == Spec => []NoLostWakeup
  BY OrderInvariant, PTL DEF Order

-------------------------------------------------------------------------------
(* Execution: what LuaExecutionThread gives to the interpreter.              *)

\* The worker's scriptToExecute is empty until it pops; a round that finds the queue
\* empty executes nothing.
Fresh == worker \in WorkerStates \ {"top", "run", "executing", "exited"} => cur = EmptyScript

Executed == Fresh /\ ExecutedInOrder

\* Taking an empty script adds nothing that could be executed.
LEMMA TakeEmpty ==
    ASSUME NEW s \in Seq(Scripts), NEW r \in Seq(Scripts), NonEmptyOf(s, r)
    PROVE  NonEmptyOf(Append(s, EmptyScript), r)
  <1>1. /\ Len(Append(s, EmptyScript)) = Len(s) + 1 /\ Len(s) \in Nat /\ Len(r) \in Nat
        /\ \A k \in 1..Len(s) : Append(s, EmptyScript)[k] = s[k]
        /\ Append(s, EmptyScript)[Len(s) + 1] = EmptyScript
    BY ScriptsAssumption, AppendProperties, LenProperties
  <1>2. PICK place \in [1..Len(r) -> 1..Len(s)] :
          /\ \A i \in 1..Len(r) : NonEmpty(r[i]) /\ r[i] = s[place[i]]
          /\ \A i, j \in 1..Len(r) : i < j => place[i] < place[j]
          /\ \A k \in 1..Len(s) : NonEmpty(s[k]) => \E i \in 1..Len(r) : place[i] = k
    BY DEF NonEmptyOf
  <1>3. place \in [1..Len(r) -> 1..Len(Append(s, EmptyScript))]
    BY <1>1
  <1>4. ASSUME NEW k \in 1..Len(Append(s, EmptyScript)), NonEmpty(Append(s, EmptyScript)[k])
        PROVE  \E i \in 1..Len(r) : place[i] = k
    BY <1>1, <1>2, <1>4 DEF NonEmpty
  <1>5. ASSUME NEW i \in 1..Len(r)
        PROVE  NonEmpty(r[i]) /\ r[i] = Append(s, EmptyScript)[place[i]]
    BY <1>1, <1>2
  <1> QED
    BY <1>2, <1>3, <1>4, <1>5 DEF NonEmptyOf

\* Taking a script with a text adds it, and only it, at the end.
LEMMA TakeScript ==
    ASSUME NEW s \in Seq(Scripts), NEW r \in Seq(Scripts), NonEmptyOf(s, r),
           NEW e \in Scripts, e # EmptyScript
    PROVE  NonEmptyOf(Append(s, e), Append(r, e))
  <1> DEFINE n == Len(s)
             m == Len(r)
             t == Append(s, e)
             q == Append(r, e)
  <1>1. /\ Len(t) = n + 1 /\ Len(q) = m + 1 /\ n \in Nat /\ m \in Nat
        /\ \A k \in 1..n : t[k] = s[k]
        /\ \A i \in 1..m : q[i] = r[i]
        /\ t[n + 1] = e /\ q[m + 1] = e
    BY AppendProperties, LenProperties
  <1>2. PICK place \in [1..m -> 1..n] :
          /\ \A i \in 1..m : NonEmpty(r[i]) /\ r[i] = s[place[i]]
          /\ \A i, j \in 1..m : i < j => place[i] < place[j]
          /\ \A k \in 1..n : NonEmpty(s[k]) => \E i \in 1..m : place[i] = k
    BY DEF NonEmptyOf
  <1> HIDE DEF n, m, t, q
  <1> DEFINE there == [i \in 1..(m + 1) |-> IF i = m + 1 THEN n + 1 ELSE place[i]]
  <1>3. /\ there \in [1..(m + 1) -> 1..(n + 1)]
        /\ there[m + 1] = n + 1
        /\ \A i \in 1..m : there[i] = place[i] /\ place[i] \in 1..n
    BY <1>1, <1>2
  <1> HIDE DEF there
  <1>4. ASSUME NEW i \in 1..(m + 1) PROVE NonEmpty(q[i]) /\ q[i] = t[there[i]]
    <2>1. CASE i = m + 1
      BY <2>1, <1>1, <1>3 DEF NonEmpty
    <2>2. CASE i \in 1..m
      <3>1. q[i] = r[i] /\ NonEmpty(r[i]) /\ r[i] = s[place[i]]
        BY <2>2, <1>1, <1>2
      <3>2. there[i] = place[i] /\ place[i] \in 1..n
        BY <2>2, <1>3
      <3>3. t[place[i]] = s[place[i]]
        BY <1>1, <3>2
      <3> QED
        BY <3>1, <3>2, <3>3
    <2> QED
      BY <2>1, <2>2, <1>1
  <1>5. ASSUME NEW i \in 1..(m + 1), NEW j \in 1..(m + 1), i < j PROVE there[i] < there[j]
    <2>1. i \in 1..m
      BY <1>1, <1>5
    <2>2. CASE j = m + 1
      BY <2>1, <2>2, <1>1, <1>3
    <2>3. CASE j \in 1..m
      BY <2>1, <2>3, <1>2, <1>3, <1>5
    <2> QED
      BY <2>2, <2>3, <1>1
  <1>6. ASSUME NEW k \in 1..(n + 1), NonEmpty(t[k])
        PROVE  \E i \in 1..(m + 1) : there[i] = k
    <2>1. CASE k = n + 1
      BY <2>1, <1>1, <1>3
    <2>2. CASE k \in 1..n
      <3>1. PICK i \in 1..m : place[i] = k
        BY <2>2, <1>1, <1>2, <1>6
      <3> QED
        BY <3>1, <1>1, <1>3
    <2> QED
      BY <2>1, <2>2, <1>1
  <1>7. NonEmptyOf(t, q)
    <2>1. 1..Len(q) = 1..(m + 1) /\ 1..Len(t) = 1..(n + 1)
      BY <1>1
    <2>2. /\ \A i \in 1..Len(q) : NonEmpty(q[i]) /\ q[i] = t[there[i]]
          /\ \A i, j \in 1..Len(q) : i < j => there[i] < there[j]
          /\ \A k \in 1..Len(t) : NonEmpty(t[k]) => \E i \in 1..Len(q) : there[i] = k
      BY <2>1, <1>4, <1>5, <1>6
    <2>3. there \in [1..Len(q) -> 1..Len(t)]
      BY <2>1, <1>3
    <2> QED
      BY <2>2, <2>3, Zenon DEF NonEmptyOf
  <1> QED
    BY <1>7 DEF t, q

\* Nothing taken, nothing to run.
LEMMA NothingExecuted == NonEmptyOf(<<>>, <<>>)
  <1>1. 1..Len(<<>>) = {}
    OBVIOUS
  <1>2. [i \in {} |-> 0] \in [{} -> {}]
    OBVIOUS
  <1> QED
    BY <1>1, <1>2, Zenon DEF NonEmptyOf

\* Before the first round nothing was taken and nothing was run.
LEMMA InitExecuted == Init => Executed
  <1> SUFFICES ASSUME Init PROVE Executed
    OBVIOUS
  <1>1. /\ taken = <<>> /\ ran \o Unstarted = <<>>
        /\ Fresh
    BY ScriptsAssumption, ConcatEmptySeq DEF Init, Unstarted, Fresh
  <1> QED
    BY <1>1, NothingExecuted DEF Executed, ExecutedInOrder

\* Only popping a script and giving it to the interpreter change what was taken, run
\* and popped but not yet run.
LEMMA OthersExecuted ==
    Executed /\ UNCHANGED <<taken, ran, cur>>
      /\ (worker' = worker \/ (worker # "run" /\ worker' # "run"))
      /\ (worker' \in WorkerStates \ {"top", "run", "executing", "exited"} =>
            worker \in WorkerStates \ {"top", "run", "executing", "exited"})
      /\ (isInitialized' => isInitialized)
    => Executed'
  <1> SUFFICES ASSUME Executed, UNCHANGED <<taken, ran, cur>>,
                      worker' = worker \/ (worker # "run" /\ worker' # "run"),
                      worker' \in WorkerStates \ {"top", "run", "executing", "exited"} =>
                        worker \in WorkerStates \ {"top", "run", "executing", "exited"},
                      isInitialized' => isInitialized
               PROVE  Executed'
    OBVIOUS
  <1>1. Unstarted' = Unstarted
    BY DEF Unstarted
  <1>2. ExecutedInOrder'
    BY <1>1 DEF Executed, ExecutedInOrder
  <1>3. Fresh'
    BY DEF Executed, Fresh, WorkerStates
  <1> QED
    BY <1>2, <1>3 DEF Executed

\* LuaExecutionThread runs the script it has popped before it pops the next one.
LEMMA WorkerExecuted == Safe /\ Executed /\ (WorkerStep \/ SpuriousWakeup) => Executed'
  <1> SUFFICES ASSUME Safe, Executed, WorkerStep \/ SpuriousWakeup PROVE Executed'
    OBVIOUS
  <1>0. /\ taken \in Seq(Scripts) /\ ran \in Seq(Scripts) /\ queue \in Seq(Scripts)
        /\ cur \in Scripts
    BY DEF Safe, TypeOK
  <1>1. CASE WorkerTop
    BY <1>1 DEF WorkerTop, queueVars, controlVars, Executed, Fresh, ExecutedInOrder,
                NonEmptyOf, NonEmpty, Unstarted
  <1>2. CASE \/ WorkerLock \/ WorkerEmpty \/ WorkerPred \/ WorkerSleep \/ SpuriousWakeup
             \/ WorkerRelock \/ WorkerCheck \/ WorkerEndRun
    BY <1>2, OthersExecuted
       DEF WorkerLock, WorkerEmpty, WorkerPred, WorkerSleep, SpuriousWakeup, WorkerRelock,
           WorkerAcquire, WorkerCheck, WorkerEndRun, queueVars, controlVars, WorkerStates
  <1>3. CASE WorkerPop
    <2>1. /\ worker = "pop" /\ worker' = "run" /\ ran' = ran /\ isInitialized' = isInitialized
          /\ cur = EmptyScript /\ ran \o Unstarted = ran
      BY <1>0, <1>3, ConcatEmptySeq
         DEF WorkerPop, controlVars, Executed, Fresh, Unstarted, WorkerStates
    <2>2. Fresh'
      BY <2>1 DEF Fresh
    <2>3. ASSUME isInitialized' PROVE NonEmptyOf(taken, ran)
      BY <2>1, <2>3 DEF Executed, ExecutedInOrder
    <2>4. CASE queue = <<>>
      <3>1. UNCHANGED <<taken, cur>>
        BY <1>3, <2>4 DEF WorkerPop
      <3>2. (ran \o Unstarted)' = ran
        BY <1>0, <2>1, <3>1, ConcatEmptySeq DEF Unstarted, NonEmpty
      <3> QED
        BY <2>2, <2>3, <3>1, <3>2 DEF Executed, ExecutedInOrder
    <2>5. CASE queue # <<>>
      <3>1. /\ cur' = Head(queue) /\ taken' = Append(taken, Head(queue))
            /\ Head(queue) \in Scripts
        BY <1>0, <1>3, <2>5, HeadTailProperties DEF WorkerPop
      <3>2. CASE Head(queue) = EmptyScript
        <4>1. (ran \o Unstarted)' = ran
          BY <1>0, <2>1, <3>1, <3>2, ConcatEmptySeq DEF Unstarted, NonEmpty
        <4>2. ASSUME isInitialized' PROVE NonEmptyOf(taken', ran)
          BY <1>0, <2>3, <4>2, <3>1, <3>2, TakeEmpty
        <4> QED
          BY <2>2, <4>1, <4>2 DEF Executed, ExecutedInOrder
      <3>3. CASE Head(queue) # EmptyScript
        <4>1. (ran \o Unstarted)' = Append(ran, Head(queue))
          BY <1>0, <2>1, <3>1, <3>3, AppendIsConcat DEF Unstarted, NonEmpty
        <4>2. ASSUME isInitialized' PROVE NonEmptyOf(taken', Append(ran, Head(queue)))
          BY <1>0, <2>3, <4>2, <3>1, <3>3, TakeScript
        <4> QED
          BY <2>2, <4>1, <4>2 DEF Executed, ExecutedInOrder
      <3> QED
        BY <3>2, <3>3
    <2> QED
      BY <2>4, <2>5
  <1>4. CASE WorkerRun
    <2>1. /\ worker = "run" /\ worker' \in {"executing", "top"} /\ taken' = taken
          /\ isInitialized' = isInitialized
      BY <1>4 DEF WorkerRun, queueVars, controlVars
    <2>2. isInitialized => (ran \o Unstarted)' = ran \o Unstarted
      <3>1. CASE cur # EmptyScript /\ isInitialized
        <4>1. ran' = Append(ran, cur) /\ Append(ran, cur) \in Seq(Scripts)
          BY <1>0, <1>4, <3>1, AppendProperties DEF WorkerRun
        <4>2. (ran \o Unstarted)' = Append(ran, cur)
          BY <2>1, <4>1, ConcatEmptySeq DEF Unstarted
        <4>3. ran \o Unstarted = Append(ran, cur)
          BY <1>0, <2>1, <3>1, AppendIsConcat DEF Unstarted, NonEmpty
        <4> QED
          BY <4>2, <4>3
      <3>2. CASE cur = EmptyScript
        <4>1. ran' = ran /\ Unstarted = <<>> /\ Unstarted' = <<>>
          BY <1>4, <2>1, <3>2 DEF WorkerRun, Unstarted, NonEmpty
        <4> QED
          BY <4>1
      <3> QED
        BY <3>1, <3>2
    <2>3. Fresh'
      BY <2>1 DEF Fresh
    <2> QED
      BY <2>1, <2>2, <2>3 DEF Executed, ExecutedInOrder
  <1> QED
    BY <1>1, <1>2, <1>3, <1>4 DEF WorkerStep

\* Callers and Shutdown do not touch what the worker has taken; a notification moves
\* it only out of its sleep.
LEMMA RestExecuted ==
    ASSUME Safe, Executed,
           \/ \E c \in Callers : CallerStep(c) \/ \E s \in Scripts : Call(c, s)
           \/ StoreStop \/ StopperStep \/ UNCHANGED vars
    PROVE  Executed'
  <1> USE DEF queueVars, workerVars, callerVars, controlVars
  <1>1. ASSUME NEW c \in Callers, CallerStep(c) \/ \E s \in Scripts : Call(c, s)
        PROVE  Executed'
    BY <1>1, OthersExecuted
       DEF CallerStep, Call, LockScript, LockQueue, CheckSize, Push, NotifyOne, UnlockScript,
           Notified, WorkerStates
  <1>2. CASE StoreStop \/ StopperStep \/ UNCHANGED vars
    BY <1>2, OthersExecuted
       DEF StoreStop, StopperStep, NotifyAll, SleepOver, CloseState, ClearInitialized,
           ClearRunning, Notified, WorkerStates, vars
  <1> QED
    BY <1>1, <1>2

\* Every step keeps what was executed in order.
LEMMA ExecutedStep == Safe /\ Executed /\ [Next]_vars => Executed'
  BY WorkerExecuted, RestExecuted DEF Next

\* Until Shutdown clears isInitialized, the interpreter is given the non-empty scripts
\* popped by LuaExecutionThread, each exactly once and in the order they were popped,
\* whatever happens while one of them runs.
THEOREM ExecutionCorrect == Spec => []ExecutedInOrder
  BY InitExecuted, SafeInvariant, ExecutedStep, PTL DEF Spec, Executed

-------------------------------------------------------------------------------
(* Refinement of ScriptQueueSpec.                                            *)

\* The queue starts as the abstract FIFO starts.
LEMMA InitRefines == Init => Abstract!Init
  BY DEF Init, Abstract!Init

\* Push, pop and the store of threadRunning are the steps of the abstract FIFO; all
\* other steps stutter.
LEMMA StepRefines == Safe /\ Order /\ [Next]_vars => [Abstract!Next]_(Abstract!vars)
  <1> SUFFICES ASSUME Safe, Order, [Next]_vars PROVE [Abstract!Next]_(Abstract!vars)
    OBVIOUS
  <1> USE DEF Abstract!vars, queueVars, callerVars, controlVars, workerVars
  <1>1. CASE WorkerPop
    <2>1. CASE queue # <<>>
      <3>1. late # 0 => FALSE
        BY <1>1 DEF WorkerPop, Order, LateLeaves
      <3>2. Abstract!Take
        BY <1>1, <2>1, <3>1 DEF WorkerPop, Abstract!Take
      <3> QED
        BY <3>2 DEF Abstract!Next
    <2>2. CASE queue = <<>>
      BY <1>1, <2>2 DEF WorkerPop
    <2> QED
      BY <2>1, <2>2
  <1>2. CASE WorkerTop \/ WorkerLock \/ WorkerEmpty \/ WorkerPred \/ WorkerSleep \/ SpuriousWakeup
             \/ WorkerRelock \/ WorkerCheck \/ WorkerRun \/ WorkerEndRun
    BY <1>2 DEF WorkerTop, WorkerLock, WorkerEmpty, WorkerPred, WorkerSleep, SpuriousWakeup,
                WorkerRelock, WorkerAcquire, WorkerCheck, WorkerRun, WorkerEndRun
  <1>3. ASSUME NEW c \in Callers, Push(c) PROVE Abstract!Next
    <2>1. arg[c] \in Scripts /\ Len(queue) < Capacity
      BY <1>3 DEF Push, Safe, TypeOK, RoomToPush
    <2>2. Abstract!Submit(arg[c])
      BY <1>3, <2>1 DEF Push, Abstract!Submit
    <2> QED
      BY <2>1, <2>2 DEF Abstract!Next
  <1>4. ASSUME NEW c \in Callers,
               LockScript(c) \/ LockQueue(c) \/ CheckSize(c) \/ NotifyOne(c) \/ UnlockScript(c)
        PROVE UNCHANGED Abstract!vars
    BY <1>4 DEF LockScript, LockQueue, CheckSize, NotifyOne, UnlockScript
  <1>5. ASSUME NEW c \in Callers, NEW s \in Scripts, Call(c, s) PROVE UNCHANGED Abstract!vars
    BY <1>5 DEF Call
  <1>6. CASE StoreStop
    BY <1>6 DEF StoreStop, Abstract!Stop, Abstract!Next
  <1>7. CASE StopperStep
    BY <1>7 DEF StopperStep, NotifyAll, SleepOver, CloseState, ClearInitialized, ClearRunning
  <1>8. CASE UNCHANGED vars
    BY <1>8 DEF vars
  <1> QED
    BY <1>1, <1>2, <1>3, <1>4, <1>5, <1>6, <1>7, <1>8 DEF Next, WorkerStep, CallerStep

\* The threads implement the bounded queue of ScriptQueueSpec: the mutex, the wait
\* and the unsynchronised stop flag add nothing a caller could see, except that one
\* script may still be taken after the stop.
THEOREM QueueRefinement == Spec => ImplementsQueue
  BY InitRefines, StepRefines, SafeInvariant, OrderInvariant, PTL
     DEF Spec, ImplementsQueue, Abstract!Spec
===============================================================================
