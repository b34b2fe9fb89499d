---------------------------- MODULE InjectorProofs ----------------------------
(***************************************************************************)
(* Proofs about the loader program, for any finite set of its runs.        *)
(* Control says what a run holds and knows at each point of InjectDll;     *)
(* Holders relates the library's load count to the runs that still rely on *)
(* it; Switch says who can have set g_HookD3DSwitch.                       *)
(***************************************************************************)
EXTENDS Injector, FiniteSetTheorems, TLAPS

ExportNames == {"SetUIVisibility", "InitializeMod", "RemoteRunScript"}
Labels      == {"start", "alloc", "write", "wait", "module", "call", "found", "join", "done"}
Mains       == {"none", "started", "reads", "serves", "gone", "exited"}

TypeOK ==
    /\ pc \in [Runs -> Labels] /\ call \in [Runs -> 1..3]
    /\ hProcess \in [Runs -> BOOLEAN] /\ hThread \in [Runs -> BOOLEAN]
    /\ remoteMemory \in [Runs -> BOOLEAN] /\ pRemoteData \in [Runs -> BOOLEAN]
    /\ success \in [Runs -> BOOLEAN] /\ showUI \in [Runs -> BOOLEAN] /\ hFileMapping \in [Runs -> BOOLEAN]
    /\ loader \in [Runs -> {"none", "running", "loading", "ended"}] /\ dllHandle \in [Runs -> {0, 1}]
    /\ found \in [Runs -> BOOLEAN] /\ remote \in [Runs -> {"none", "running", "ended"}]
    /\ main \in [Runs -> Mains] /\ ui \in [Runs -> BOOLEAN]
    /\ ran \in [Runs -> SUBSET ExportNames] /\ failed \in [Runs -> SUBSET ExportNames]
    /\ timedOut \in SUBSET Runs
    /\ g_HookD3DSwitch \in BOOLEAN

-------------------------------------------------------------------------------

\* What InjectDll holds at each of its points.
Held(i) ==
    /\ hProcess[i] <=> pc[i] \notin {"start", "done"}
    /\ remoteMemory[i] <=> pc[i] \notin {"start", "alloc", "done"}
    /\ hThread[i] <=> pc[i] \in {"wait", "join"}
    /\ remote[i] # "none" <=> pc[i] = "join"
    /\ pRemoteData[i] <=> pc[i] = "join" /\ HasParam(i)

\* The LoadLibraryW thread seen from InjectDll.
Loading(i) ==
    /\ pc[i] \in {"start", "alloc", "write"} => loader[i] = "none"
    /\ pc[i] = "wait" => loader[i] # "none"
    /\ pc[i] \in {"module", "call", "found", "join"} => loader[i] = "ended" /\ dllHandle[i] # 0
    /\ pc[i] = "done" /\ loader[i] \in {"running", "loading"} => i \in timedOut
    /\ loader[i] # "ended" => dllHandle[i] = 0
    /\ hFileMapping[i] => pc[i] = "done" /\ loader[i] = "ended" /\ dllHandle[i] = 0

\* The calls that are over have run or failed; no later one has; success means run.
Calls(i) ==
    /\ pc[i] \in {"start", "alloc", "write", "wait", "module"}
          => call[i] = 1 /\ ~success[i] /\ ran[i] = {} /\ failed[i] = {}
    /\ pc[i] = "join" /\ call[i] = 1 => ~showUI[i]
    /\ "SetUIVisibility" \in ran[i] => ~showUI[i] /\ (call[i] > 1 \/ remote[i] = "ended")
    /\ "InitializeMod" \in ran[i] => call[i] > 1 /\ (call[i] > 2 \/ remote[i] = "ended")
    /\ call[i] > 1 => "SetUIVisibility" \in ran[i] \cup failed[i]
    /\ remote[i] = "ended" => Exports[call[i]] \in ran[i]
    /\ success[i] /\ call[i] > 1 => "SetUIVisibility" \in ran[i]
    /\ success[i] /\ call[i] > 2 => "InitializeMod" \in ran[i]
    /\ success[i] /\ pc[i] = "done" => call[i] = 3 /\ "RemoteRunScript" \in ran[i]
    /\ ran[i] # {} => dllHandle[i] # 0
    /\ main[i] # "none" => "InitializeMod" \in ran[i]

Control == \A i \in Runs : Held(i) /\ Loading(i) /\ Calls(i)

\* The runs whose reference to the library has not been given back.
Holder  == {i \in Runs : dllHandle[i] # 0 /\ main[i] # "exited"}
Holders == references \in Nat /\ references >= Cardinality(Holder)

\* Only SetUIVisibility(0) clears the switch, and it stays cleared while its caller
\* keeps the library loaded.
Switch ==
    /\ ~g_HookD3DSwitch => \E j \in Runs : "SetUIVisibility" \in ran[j]
    /\ \A i \in Holder : "SetUIVisibility" \in ran[i] => ~g_HookD3DSwitch

\* The game has ended in LoadLibraryW only for a run that had stopped waiting.
LatePath == \A i \in Runs : <<i, "LoadLibraryW">> \in fault => i \in timedOut

IndInv == TypeOK /\ Control /\ Holders /\ Switch /\ LatePath /\ ExportsMapped /\ UiAsAsked

-------------------------------------------------------------------------------

\* The three calls of InjectDll.
LEMMA ExportsAre ==
    /\ Exports[1] = "SetUIVisibility" /\ Exports[2] = "InitializeMod" /\ Exports[3] = "RemoteRunScript"
    /\ \A n \in 1..3 : Exports[n] \in ExportNames
  BY DEF Exports, ExportNames

\* A new run of the loader program and a game without the mod.
LEMMA InitType == Init => TypeOK
  BY DEF Init, TypeOK, Labels, Mains, ExportNames

\* Every step of the loader program and of the game keeps the types.
LEMMA NextType == TypeOK /\ [Next]_vars => TypeOK'
  <1> SUFFICES ASSUME TypeOK, [Next]_vars PROVE TypeOK'
    OBVIOUS
  <1> USE ExportsAre DEF TypeOK, Labels, Mains, Set, At, Goto
  <1>1. ASSUME NEW i \in Runs, OpenProcess(i) \/ VirtualAllocEx(i) PROVE TypeOK'
    <2>1. CASE OpenProcess(i)
      <3>1. pc' \in [Runs -> Labels] /\ hProcess' \in [Runs -> BOOLEAN]
        BY <2>1 DEF OpenProcess
      <3>2. UNCHANGED <<call, hThread, remoteMemory, pRemoteData, success, loader, dllHandle, found, remote,
                        showUI, hFileMapping, gameVars, mainVars, pastVars, fault>>
        BY <2>1 DEF OpenProcess
      <3> QED
        BY <3>1, <3>2 DEF mainVars, pastVars, gameVars
    <2>2. CASE VirtualAllocEx(i)
      <3>1. pc' \in [Runs -> Labels] /\ hProcess' \in [Runs -> BOOLEAN] /\ remoteMemory' \in [Runs -> BOOLEAN]
        BY <2>2 DEF VirtualAllocEx
      <3>2. UNCHANGED <<call, hThread, pRemoteData, success, loader, dllHandle, found, remote,
                        showUI, hFileMapping, gameVars, mainVars, pastVars, fault>>
        BY <2>2 DEF VirtualAllocEx
      <3> QED
        BY <3>1, <3>2 DEF mainVars, pastVars, gameVars
    <2> QED
      BY <1>1, <2>1, <2>2
  <1>2. ASSUME NEW i \in Runs, StartLoader(i) PROVE TypeOK'
    <2>1. /\ pc' \in [Runs -> Labels] /\ hThread' \in [Runs -> BOOLEAN]
          /\ loader' \in [Runs -> {"none", "running", "loading", "ended"}]
          /\ hProcess' \in [Runs -> BOOLEAN] /\ remoteMemory' \in [Runs -> BOOLEAN]
      <3>1. CASE Goto(i, "wait") /\ hThread' = Set(hThread, i, TRUE) /\ loader' = Set(loader, i, "running")
                   /\ UNCHANGED <<remoteMemory, hProcess>>
        BY <3>1
      <3>2. CASE ReturnFreed(i) /\ UNCHANGED <<hThread, loader>>
        BY <3>2 DEF ReturnFreed
      <3> QED
        BY <1>2, <3>1, <3>2 DEF StartLoader
    <2>2. UNCHANGED <<call, pRemoteData, success, dllHandle, found, remote, showUI, hFileMapping, gameVars, mainVars, pastVars, fault>>
      BY <1>2 DEF StartLoader
    <2> QED
      BY <2>1, <2>2 DEF mainVars, pastVars, gameVars
  <1>3. ASSUME NEW i \in Runs, ReadPath(i) \/ LoadLibrary(i) PROVE TypeOK'
    BY <1>3 DEF ReadPath, LoadLibrary, mainVars, pastVars, gameVars
  <1>4. ASSUME NEW i \in Runs, WaitTimeout(i) \/ LoaderEnded(i) PROVE TypeOK'
    <2>1. CASE WaitTimeout(i)
      <3>1. /\ pc' \in [Runs -> Labels] /\ hThread' \in [Runs -> BOOLEAN] /\ timedOut' \in SUBSET Runs
            /\ hProcess' \in [Runs -> BOOLEAN] /\ remoteMemory' \in [Runs -> BOOLEAN]
        BY <2>1 DEF WaitTimeout, ReturnFreed
      <3>2. UNCHANGED <<call, pRemoteData, success, loader, dllHandle, found, remote, showUI, hFileMapping, gameVars, mainVars,
                        ran, failed, fault>>
        BY <2>1 DEF WaitTimeout
      <3> QED
        BY <3>1, <3>2 DEF mainVars, gameVars
    <2>2. CASE LoaderEnded(i)
      <3>1. /\ pc' \in [Runs -> Labels] /\ hThread' \in [Runs -> BOOLEAN]
            /\ hProcess' \in [Runs -> BOOLEAN] /\ remoteMemory' \in [Runs -> BOOLEAN]
        BY <2>2 DEF LoaderEnded, ReturnFreed
      <3>2. hFileMapping' \in [Runs -> BOOLEAN]
        BY <2>2 DEF LoaderEnded, ExamineDll
      <3>3. UNCHANGED <<call, pRemoteData, success, loader, dllHandle, found, remote, showUI, gameVars, mainVars,
                        pastVars, fault>>
        BY <2>2 DEF LoaderEnded
      <3> QED
        BY <3>1, <3>2, <3>3 DEF mainVars, pastVars, gameVars
    <2> QED
      BY <1>4, <2>1, <2>2
  <1>5. ASSUME NEW i \in Runs, EnsureGetRemoteModuleHandle(i) PROVE TypeOK'
    BY <1>5 DEF EnsureGetRemoteModuleHandle, mainVars, pastVars, gameVars
  <1>6. ASSUME NEW i \in Runs, NEW ok \in BOOLEAN, CallReturns(i, ok)
        PROVE  /\ pc' \in [Runs -> Labels] /\ call' \in [Runs -> 1..3]
               /\ success' \in [Runs -> BOOLEAN] /\ failed' \in [Runs -> SUBSET ExportNames]
               /\ remoteMemory' \in [Runs -> BOOLEAN] /\ hProcess' \in [Runs -> BOOLEAN]
    <2>1. success' \in [Runs -> BOOLEAN]
      BY <1>6 DEF CallReturns
    <2>2. failed[i] \cup {Exports[call[i]]} \in SUBSET ExportNames
      OBVIOUS
    <2>3. failed' \in [Runs -> SUBSET ExportNames]
      BY <1>6, <2>2 DEF CallReturns
    <2>4. CASE call[i] < 3
      <3>1. call' = Set(call, i, call[i] + 1) /\ Goto(i, "call") /\ UNCHANGED <<remoteMemory, hProcess>>
        BY <1>6, <2>4 DEF CallReturns
      <3>2. call[i] + 1 \in 1..3
        BY <2>4
      <3> QED
        BY <2>1, <2>3, <3>1, <3>2
    <2>5. CASE ~(call[i] < 3)
      <3>1. UNCHANGED call /\ ReturnFreed(i)
        BY <1>6, <2>5 DEF CallReturns
      <3> QED
        BY <2>1, <2>3, <3>1 DEF ReturnFreed
    <2> QED
      BY <2>4, <2>5
  <1>7. ASSUME NEW i \in Runs, FindExport(i) PROVE TypeOK'
    <2>1. UNCHANGED <<hThread, pRemoteData, loader, dllHandle, found, remote, showUI, hFileMapping, gameVars, mainVars, ran,
                      timedOut, fault>>
      BY <1>7 DEF FindExport
    <2>2. /\ pc' \in [Runs -> Labels] /\ call' \in [Runs -> 1..3]
          /\ success' \in [Runs -> BOOLEAN] /\ failed' \in [Runs -> SUBSET ExportNames]
          /\ remoteMemory' \in [Runs -> BOOLEAN] /\ hProcess' \in [Runs -> BOOLEAN]
      <3>1. CASE Goto(i, "found") /\ UNCHANGED <<success, failed, call, remoteMemory, hProcess>>
        BY <3>1
      <3>2. CASE CallReturns(i, FALSE)
        BY <3>2, <1>6
      <3> QED
        BY <1>7, <3>1, <3>2 DEF FindExport
    <2> QED
      BY <2>1, <2>2 DEF mainVars, gameVars
  <1>8. ASSUME NEW i \in Runs, StartExport(i) PROVE TypeOK'
    <2>1. UNCHANGED <<loader, dllHandle, found, showUI, hFileMapping, gameVars, mainVars, ran, timedOut, fault>>
      BY <1>8 DEF StartExport
    <2>2. CASE /\ Goto(i, "join") /\ hThread' = Set(hThread, i, TRUE) /\ remote' = Set(remote, i, "running")
               /\ pRemoteData' = Set(pRemoteData, i, HasParam(i))
               /\ UNCHANGED <<success, failed, call, remoteMemory, hProcess>>
      <3>1. HasParam(i) \in BOOLEAN
        BY DEF HasParam
      <3>2. /\ pc' \in [Runs -> Labels] /\ hThread' \in [Runs -> BOOLEAN] /\ pRemoteData' \in [Runs -> BOOLEAN]
            /\ remote' \in [Runs -> {"none", "running", "ended"}]
        BY <2>2, <3>1
      <3> QED
        BY <2>1, <2>2, <3>2 DEF mainVars, gameVars
    <2>3. CASE CallReturns(i, FALSE) /\ UNCHANGED <<hThread, remote, pRemoteData>>
      <3>1. /\ pc' \in [Runs -> Labels] /\ call' \in [Runs -> 1..3]
            /\ success' \in [Runs -> BOOLEAN] /\ failed' \in [Runs -> SUBSET ExportNames]
            /\ remoteMemory' \in [Runs -> BOOLEAN] /\ hProcess' \in [Runs -> BOOLEAN]
        BY <2>3, <1>6
      <3> QED
        BY <2>1, <2>3, <3>1 DEF mainVars, gameVars
    <2> QED
      BY <1>8, <2>2, <2>3 DEF StartExport
  <1>9. ASSUME NEW i \in Runs, JoinExport(i) PROVE TypeOK'
    BY <1>9, <1>6 DEF JoinExport, mainVars, pastVars, gameVars
  <1>10. ASSUME NEW i \in Runs, RunExport(i) PROVE TypeOK'
    <2>1. ran[i] \cup {Exports[call[i]]} \in SUBSET ExportNames
      OBVIOUS
    <2>2. ran' \in [Runs -> SUBSET ExportNames] /\ remote' \in [Runs -> {"none", "running", "ended"}]
      BY <1>10, <2>1 DEF RunExport
    <2>3. main' \in [Runs -> Mains] /\ g_HookD3DSwitch' \in BOOLEAN
      BY <1>10 DEF RunExport, SetUIVisibility, InitializeMod, RemoteRunScript
    <2> QED
      BY <1>10, <2>2, <2>3 DEF RunExport
  <1>11. ASSUME NEW i \in Runs, MainReads(i) PROVE TypeOK'
    BY <1>11 DEF MainReads, runVars, mainVars, pastVars, gameVars
  <1>12. ASSUME NEW i \in Runs, MainInitialize(i) PROVE TypeOK'
    BY <1>12 DEF MainInitialize, runVars, mainVars, pastVars, gameVars
  <1>13. ASSUME NEW i \in Runs, MainExits(i) PROVE TypeOK'
    BY <1>13 DEF MainExits, runVars, mainVars, pastVars, gameVars
  <1>14. CASE UNCHANGED vars
    BY <1>14 DEF vars, runVars, mainVars, pastVars, gameVars
  <1> QED
    BY <1>1, <1>2, <1>3, <1>4, <1>5, <1>7, <1>8, <1>9, <1>10, <1>11, <1>12, <1>13, <1>14 DEF Next

-------------------------------------------------------------------------------

\* Nothing of run j has changed.
Same(j) ==
    /\ pc'[j] = pc[j] /\ call'[j] = call[j] /\ hProcess'[j] = hProcess[j] /\ hThread'[j] = hThread[j]
    /\ remoteMemory'[j] = remoteMemory[j] /\ pRemoteData'[j] = pRemoteData[j] /\ success'[j] = success[j]
    /\ hFileMapping'[j] = hFileMapping[j]
    /\ showUI'[j] = showUI[j] /\ loader'[j] = loader[j] /\ dllHandle'[j] = dllHandle[j]
    /\ remote'[j] = remote[j] /\ main'[j] = main[j] /\ ran'[j] = ran[j] /\ failed'[j] = failed[j]
    /\ (j \in timedOut => j \in timedOut')

\* What InjectDll holds and knows about its calls depends on nothing but its own run.
LEMMA SameControl ==
    ASSUME NEW j \in Runs, Same(j), Held(j), Loading(j), Calls(j)
    PROVE  (Held(j) /\ Loading(j) /\ Calls(j))'
  BY DEF Same, Held, Loading, Calls, HasParam

\* CallReturns, field by field.
CallDone(i, ok) ==
    /\ success'[i] <=> success[i] /\ ok
    /\ failed'[i] = IF ok THEN failed[i] ELSE failed[i] \cup {Exports[call[i]]}
    /\ call[i] < 3 => /\ call'[i] = call[i] + 1 /\ pc'[i] = "call"
                      /\ remoteMemory'[i] = remoteMemory[i] /\ hProcess'[i] = hProcess[i]
    /\ call[i] = 3 => call'[i] = 3 /\ pc'[i] = "done" /\ ~remoteMemory'[i] /\ ~hProcess'[i]
    /\ \A j \in Runs \ {i} :
          /\ success'[j] = success[j] /\ failed'[j] = failed[j] /\ call'[j] = call[j]
          /\ pc'[j] = pc[j] /\ remoteMemory'[j] = remoteMemory[j] /\ hProcess'[j] = hProcess[j]

\* The end of CallRemoteExportFunction in InjectDll does what CallDone lists.
LEMMA CallReturnsDoes ==
    ASSUME TypeOK, NEW i \in Runs, NEW ok \in BOOLEAN, CallReturns(i, ok)
    PROVE  CallDone(i, ok)
  <1> USE DEF TypeOK, Set, Goto
  <1>1. success' = Set(success, i, success[i] /\ ok)
    BY DEF CallReturns
  <1>2. failed' = IF ok THEN failed ELSE Set(failed, i, failed[i] \cup {Exports[call[i]]})
    BY DEF CallReturns
  <1>3. CASE call[i] < 3
    <2>1. call' = Set(call, i, call[i] + 1) /\ Goto(i, "call") /\ UNCHANGED <<remoteMemory, hProcess>>
      BY <1>3 DEF CallReturns
    <2> QED
      BY <1>1, <1>2, <1>3, <2>1 DEF CallDone
  <1>4. CASE ~(call[i] < 3)
    <2>1. UNCHANGED call /\ ReturnFreed(i)
      BY <1>4 DEF CallReturns
    <2>2. call[i] = 3
      BY <1>4
    <2> QED
      BY <1>1, <1>2, <2>1, <2>2 DEF ReturnFreed, CallDone
  <1> QED
    BY <1>3, <1>4

\* Every step keeps what is known of a run at its point of InjectDll.
LEMMA NextControl == TypeOK /\ Control /\ [Next]_vars => Control'
  <1> SUFFICES ASSUME TypeOK, Control, [Next]_vars PROVE Control'
    OBVIOUS
  <1> DEFINE Local(j) == Held(j) /\ Loading(j) /\ Calls(j)
  <1> USE ExportsAre
  <1>0. ASSUME NEW i \in Runs, Local(i)', \A j \in Runs \ {i} : Same(j) PROVE Control'
    BY <1>0, SameControl DEF Control
  <1>h. \A i \in Runs : Held(i) /\ Loading(i) /\ Calls(i)
    BY DEF Control
  <1>1. ASSUME NEW i \in Runs, OpenProcess(i) \/ VirtualAllocEx(i) \/ StartLoader(i) PROVE Control'
    <2> USE DEF TypeOK, Set, At, Goto, OpenProcess, VirtualAllocEx, StartLoader, ReturnFreed, mainVars, pastVars, gameVars
    <2>1. \A j \in Runs \ {i} : Same(j)
      BY <1>1 DEF Same
    <2>2. Held(i)'
      BY <1>1, <1>h DEF Held, HasParam
    <2>3. Loading(i)'
      BY <1>1, <1>h DEF Loading
    <2>4. Calls(i)'
      BY <1>1, <1>h DEF Calls, Held
    <2> QED
      BY <1>0, <2>1, <2>2, <2>3, <2>4
  <1>2. ASSUME NEW i \in Runs, ReadPath(i) \/ LoadLibrary(i) PROVE Control'
    <2> USE DEF TypeOK, Set, ReadPath, LoadLibrary, mainVars, pastVars, gameVars
    <2>1. \A j \in Runs \ {i} : Same(j)
      BY <1>2 DEF Same
    <2>2. Held(i)'
      BY <1>2, <1>h DEF Held, HasParam
    <2>3. Loading(i)'
      BY <1>2, <1>h DEF Loading
    <2>4. Calls(i)'
      BY <1>2, <1>h DEF Calls, Loading, Held
    <2> QED
      BY <1>0, <2>1, <2>2, <2>3, <2>4
  <1>3. ASSUME NEW i \in Runs, WaitTimeout(i) \/ LoaderEnded(i) \/ EnsureGetRemoteModuleHandle(i) PROVE Control'
    <2> USE DEF TypeOK, Set, At, Goto, WaitTimeout, LoaderEnded, ExamineDll, EnsureGetRemoteModuleHandle, ReturnFreed, mainVars, pastVars, gameVars
    <2>1. \A j \in Runs \ {i} : Same(j)
      BY <1>3 DEF Same
    <2>2. Held(i)'
      BY <1>3, <1>h DEF Held, HasParam
    <2>3. Loading(i)'
      BY <1>3, <1>h DEF Loading
    <2>4. Calls(i)'
      BY <1>3, <1>h DEF Calls, Held
    <2> QED
      BY <1>0, <2>1, <2>2, <2>3, <2>4
  <1>c. ASSUME NEW i \in Runs, NEW ok \in BOOLEAN, CallReturns(i, ok) PROVE CallDone(i, ok)
    BY <1>c, CallReturnsDoes
  <1>4. ASSUME NEW i \in Runs, FindExport(i) PROVE Control'
    <2> USE DEF TypeOK, Set, At, Goto, FindExport, mainVars, pastVars, gameVars
    <2>1. CASE Goto(i, "found") /\ UNCHANGED <<success, failed, call, remoteMemory, hProcess>>
      <3>1. \A j \in Runs \ {i} : Same(j)
        BY <1>4, <2>1 DEF Same
      <3>2. Held(i)' /\ Loading(i)'
        BY <1>4, <1>h, <2>1 DEF Held, HasParam, Loading
      <3>3. Calls(i)'
        BY <1>4, <1>h, <2>1 DEF Calls, Held
      <3> QED
        BY <1>0, <3>1, <3>2, <3>3
    <2>2. CASE CallReturns(i, FALSE)
      <3>0. CallDone(i, FALSE)
        BY <1>c, <2>2
      <3>1. \A j \in Runs \ {i} : Same(j)
        BY <1>4, <2>2, <3>0 DEF CallDone, Same
      <3>2. Held(i)' /\ Loading(i)'
        BY <1>4, <1>h, <2>2, <3>0 DEF CallDone, Held, HasParam, Loading
      <3>3. Calls(i)'
        BY <1>4, <1>h, <2>2, <3>0 DEF CallDone, Calls, Held
      <3> QED
        BY <1>0, <3>1, <3>2, <3>3
    <2> QED
      BY <1>4, <2>1, <2>2
  <1>5. ASSUME NEW i \in Runs, StartExport(i) PROVE Control'
    <2> USE DEF TypeOK, Set, At, Goto, StartExport, mainVars, pastVars, gameVars
    <2>1. CASE /\ Readable(i)
               /\ Goto(i, "join") /\ hThread' = Set(hThread, i, TRUE) /\ remote' = Set(remote, i, "running")
               /\ pRemoteData' = Set(pRemoteData, i, HasParam(i))
               /\ UNCHANGED <<success, failed, call, remoteMemory, hProcess>>
      <3>1. \A j \in Runs \ {i} : Same(j)
        BY <1>5, <2>1 DEF Same
      <3>2. Held(i)' /\ Loading(i)'
        BY <1>5, <1>h, <2>1 DEF Held, HasParam, Loading
      <3>3. Calls(i)'
        BY <1>5, <1>h, <2>1 DEF Calls, Held, Readable
      <3> QED
        BY <1>0, <3>1, <3>2, <3>3
    <2>2. CASE CallReturns(i, FALSE) /\ UNCHANGED <<hThread, remote, pRemoteData>>
      <3>0. CallDone(i, FALSE)
        BY <1>c, <2>2
      <3>1. \A j \in Runs \ {i} : Same(j)
        BY <1>5, <2>2, <3>0 DEF CallDone, Same
      <3>2. Held(i)' /\ Loading(i)'
        BY <1>5, <1>h, <2>2, <3>0 DEF CallDone, Held, HasParam, Loading
      <3>3. Calls(i)'
        BY <1>5, <1>h, <2>2, <3>0 DEF CallDone, Calls, Held
      <3> QED
        BY <1>0, <3>1, <3>2, <3>3
    <2> QED
      BY <1>5, <2>1, <2>2
  <1>6. ASSUME NEW i \in Runs, JoinExport(i) PROVE Control'
    <2> USE DEF TypeOK, Set, At, Goto, JoinExport, mainVars, pastVars, gameVars
    <2>0. CallDone(i, TRUE)
      BY <1>6, <1>c
    <2>1. \A j \in Runs \ {i} : Same(j)
      BY <1>6, <2>0 DEF CallDone, Same
    <2>2. Held(i)' /\ Loading(i)'
      BY <1>6, <1>h, <2>0 DEF CallDone, Held, HasParam, Loading
    <2>3. Calls(i)'
      BY <1>6, <1>h, <2>0 DEF CallDone, Calls, Held
    <2> QED
      BY <1>0, <2>1, <2>2, <2>3
  <1>7. ASSUME NEW i \in Runs, RunExport(i) PROVE Control'
    <2> USE DEF TypeOK, Set, RunExport, SetUIVisibility, InitializeMod, RemoteRunScript, mainVars, pastVars, gameVars
    <2>1. \A j \in Runs \ {i} : Same(j)
      BY <1>7 DEF Same
    <2>2. /\ pc'[i] = pc[i] /\ call'[i] = call[i] /\ hProcess'[i] = hProcess[i] /\ hThread'[i] = hThread[i]
          /\ remoteMemory'[i] = remoteMemory[i] /\ pRemoteData'[i] = pRemoteData[i] /\ success'[i] = success[i]
          /\ hFileMapping'[i] = hFileMapping[i]
          /\ showUI'[i] = showUI[i] /\ loader'[i] = loader[i] /\ dllHandle'[i] = dllHandle[i]
          /\ failed'[i] = failed[i] /\ timedOut' = timedOut
      BY <1>7
    <2>3. remote[i] = "running" /\ pc[i] = "join"
      BY <1>7, <1>h DEF Held
    <2>4. \/ remote'[i] = "running" /\ ran'[i] = ran[i] /\ main'[i] = main[i]
          \/ /\ remote'[i] = "ended" /\ ran'[i] = ran[i] \cup {Exports[call[i]]}
             /\ (main'[i] = main[i] \/ Exports[call[i]] = "InitializeMod")
      BY <1>7
    <2> HIDE DEF RunExport, SetUIVisibility, InitializeMod, RemoteRunScript
    <2>5. Held(i)'
      BY <1>h, <2>2, <2>3, <2>4 DEF Held, HasParam
    <2>6. Loading(i)'
      BY <1>h, <2>2 DEF Loading
    <2>7. Calls(i)'
      BY <1>h, <2>2, <2>3, <2>4 DEF Calls, Loading
    <2> QED
      BY <1>0, <2>1, <2>5, <2>6, <2>7
  <1>8. ASSUME NEW i \in Runs, MainReads(i) \/ MainInitialize(i) \/ MainExits(i) PROVE Control'
    <2> USE DEF TypeOK, Set, MainReads, MainInitialize, MainExits, runVars, mainVars, pastVars, gameVars
    <2>1. \A j \in Runs \ {i} : Same(j)
      BY <1>8 DEF Same
    <2>2. /\ pc'[i] = pc[i] /\ call'[i] = call[i] /\ hProcess'[i] = hProcess[i] /\ hThread'[i] = hThread[i]
          /\ remoteMemory'[i] = remoteMemory[i] /\ pRemoteData'[i] = pRemoteData[i] /\ success'[i] = success[i]
          /\ hFileMapping'[i] = hFileMapping[i]
          /\ showUI'[i] = showUI[i] /\ loader'[i] = loader[i] /\ dllHandle'[i] = dllHandle[i]
          /\ failed'[i] = failed[i] /\ timedOut' = timedOut /\ remote'[i] = remote[i] /\ ran'[i] = ran[i]
          /\ main[i] # "none"
      BY <1>8
    <2> HIDE DEF MainReads, MainInitialize, MainExits
    <2>3. Held(i)' /\ Loading(i)'
      BY <1>h, <2>2 DEF Held, HasParam, Loading
    <2>4. Calls(i)'
      BY <1>h, <2>2 DEF Calls
    <2> QED
      BY <1>0, <2>1, <2>3, <2>4
  <1>9. CASE UNCHANGED vars
    <2>1. \A j \in Runs : Same(j)
      BY <1>9 DEF vars, runVars, mainVars, pastVars, gameVars, Same
    <2> QED
      BY <2>1, SameControl DEF Control
  <1> QED
    BY <1>1, <1>2, <1>3, <1>4, <1>5, <1>6, <1>7, <1>8, <1>9 DEF Next

-------------------------------------------------------------------------------

\* Sets of runs are finite and can be counted.
LEMMA RunSets ==
    ASSUME NEW S, S \subseteq Runs
    PROVE  IsFiniteSet(S) /\ Cardinality(S) \in Nat
  BY RunsAssumption, FS_Subset, FS_CardinalityType

\* Except for LoadLibrary and MainExits no step touches the count, and none makes a
\* run that held no reference hold one.
LEMMA OtherHolders ==
    ASSUME TypeOK, Control, NEW i \in Runs,
           \/ OpenProcess(i) \/ VirtualAllocEx(i) \/ StartLoader(i) \/ ReadPath(i)
           \/ WaitTimeout(i) \/ LoaderEnded(i) \/ EnsureGetRemoteModuleHandle(i)
           \/ FindExport(i) \/ StartExport(i) \/ RunExport(i) \/ JoinExport(i)
           \/ MainReads(i) \/ MainInitialize(i) \/ UNCHANGED vars
    PROVE  Holder' \subseteq Holder /\ references' = references
  <1> USE DEF TypeOK, Holder
  <1>1. CASE OpenProcess(i) \/ VirtualAllocEx(i) \/ StartLoader(i) \/ ReadPath(i) \/ WaitTimeout(i)
    BY <1>1 DEF OpenProcess, VirtualAllocEx, StartLoader, ReadPath, WaitTimeout, mainVars, gameVars
  <1>2. CASE LoaderEnded(i) \/ EnsureGetRemoteModuleHandle(i) \/ FindExport(i) \/ StartExport(i) \/ JoinExport(i)
    BY <1>2 DEF LoaderEnded, EnsureGetRemoteModuleHandle, FindExport, StartExport, JoinExport, mainVars, gameVars
  <1>3. CASE RunExport(i)
    <2>1. UNCHANGED <<dllHandle, references>>
      BY <1>3 DEF RunExport
    <2>2. \A j \in Runs \ {i} : main'[j] = main[j]
      BY <1>3 DEF RunExport, SetUIVisibility, InitializeMod, RemoteRunScript, Set
    <2>3. main[i] = "exited" => "InitializeMod" \in ran[i] /\ call[i] > 2
      BY <1>3 DEF RunExport, Control, Calls
    <2>4. main[i] = "exited" => main'[i] = "exited"
      BY <1>3, <2>3, ExportsAre DEF RunExport, SetUIVisibility, InitializeMod, RemoteRunScript
    <2> QED
      BY <2>1, <2>2, <2>4
  <1>4. CASE MainReads(i) \/ MainInitialize(i)
    BY <1>4 DEF MainReads, MainInitialize, Set, runVars, gameVars
  <1>5. CASE UNCHANGED vars
    BY <1>5 DEF vars, runVars, gameVars, mainVars
  <1> QED
    BY <1>1, <1>2, <1>3, <1>4, <1>5

\* A load counts one reference and makes at most its own run a holder, which had not
\* called any export.
LEMMA LoadHolders ==
    ASSUME TypeOK, Control, NEW i \in Runs, LoadLibrary(i)
    PROVE  /\ \/ Holder' \subseteq Holder /\ references' = references
              \/ Holder' \subseteq Holder \cup {i} /\ references' = references + 1
           /\ i \notin Holder /\ ran[i] = {}
  <1>1. loader[i] = "loading" /\ UNCHANGED main
    BY DEF LoadLibrary, mainVars
  <1>2. dllHandle[i] = 0 /\ ran[i] = {}
    BY <1>1 DEF Control, Loading, Calls
  <1>3. CASE UNCHANGED <<dllHandle, references>>
    BY <1>1, <1>2, <1>3 DEF Holder
  <1>4. CASE references' = references + 1 /\ \E low \in {0, 1} : dllHandle' = Set(dllHandle, i, low)
    BY <1>1, <1>2, <1>4 DEF Holder, Set, TypeOK
  <1> QED
    BY <1>3, <1>4 DEF LoadLibrary

\* The main thread gives back the reference of the run that started it.
LEMMA ExitHolders ==
    ASSUME TypeOK, Control, NEW i \in Runs, MainExits(i)
    PROVE  i \in Holder /\ Holder' = Holder \ {i} /\ references' = references - 1
  <1>1. main[i] = "serves" /\ main' = [main EXCEPT ![i] = "exited"] /\ UNCHANGED dllHandle /\ references' = references - 1
    BY DEF MainExits, Set, runVars
  <1>2. ran[i] # {} /\ dllHandle[i] # 0
    BY <1>1 DEF Control, Calls
  <1> QED
    BY <1>1, <1>2 DEF Holder, TypeOK

\* Every step leaves at least one reference per run that relies on one.
LEMMA NextHolders == TypeOK /\ Control /\ Holders /\ [Next]_vars => Holders'
  <1> SUFFICES ASSUME TypeOK, Control, Holders, [Next]_vars PROVE Holders'
    OBVIOUS
  <1> DEFINE H == Holder  Hn == Holder'
  <1>1. H \subseteq Runs /\ Hn \subseteq Runs
    BY DEF Holder
  <1>2. IsFiniteSet(H) /\ Cardinality(H) \in Nat /\ IsFiniteSet(Hn) /\ Cardinality(Hn) \in Nat
    BY <1>1, RunSets
  <1>3. ASSUME Hn \subseteq H PROVE Cardinality(Hn) <= Cardinality(H)
    BY <1>2, <1>3, FS_Subset
  <1>4. ASSUME NEW i \in Runs, LoadLibrary(i) PROVE Holders'
    <2>1. CASE Hn \subseteq H /\ references' = references
      BY <1>2, <1>3, <2>1 DEF Holders
    <2>2. CASE Hn \subseteq H \cup {i} /\ references' = references + 1
      <3>1. IsFiniteSet(H \cup {i}) /\ Cardinality(H \cup {i}) = Cardinality(H) + 1
        BY <1>2, <1>4, LoadHolders, FS_AddElement
      <3>2. Cardinality(Hn) <= Cardinality(H) + 1
        BY <2>2, <3>1, FS_Subset
      <3> QED
        BY <1>2, <2>2, <3>2 DEF Holders
    <2> QED
      BY <1>4, <2>1, <2>2, LoadHolders
  <1>5. ASSUME NEW i \in Runs, MainExits(i) PROVE Holders'
    <2>1. i \in H /\ Hn = H \ {i} /\ references' = references - 1
      BY <1>5, ExitHolders
    <2>2. Cardinality(Hn) = Cardinality(H) - 1
      BY <1>2, <2>1, FS_RemoveElement
    <2> QED
      BY <1>2, <2>1, <2>2 DEF Holders
  <1>6. ASSUME Hn \subseteq H, references' = references PROVE Holders'
    BY <1>2, <1>3, <1>6 DEF Holders
  <1>7. CASE UNCHANGED vars
    BY <1>6, <1>7 DEF vars, runVars, gameVars, mainVars, Holder
  <1> QED
    BY <1>4, <1>5, <1>6, <1>7, OtherHolders DEF Next

\* Every step keeps the account of who cleared the switch: the library is unmapped, and
\* the switch fresh again, only when no other run holds a reference.
LEMMA NextSwitch == TypeOK /\ Control /\ Holders /\ Switch /\ [Next]_vars => Switch'
  <1> SUFFICES ASSUME TypeOK, Control, Holders, Switch, [Next]_vars PROVE Switch'
    OBVIOUS
  <1>1. ASSUME UNCHANGED <<ran, g_HookD3DSwitch>>, Holder' \subseteq Holder PROVE Switch'
    BY <1>1 DEF Switch
  <1>2. ASSUME NEW i \in Runs, LoadLibrary(i) PROVE Switch'
    <2>1. UNCHANGED <<ran, g_HookD3DSwitch>>
      BY <1>2 DEF LoadLibrary, pastVars
    <2>2. Holder' \subseteq Holder \cup {i} /\ ran[i] = {}
      BY <1>2, LoadHolders
    <2> QED
      BY <2>1, <2>2 DEF Switch
  <1>3. ASSUME NEW i \in Runs, MainExits(i) PROVE Switch'
    <2>1. i \in Holder /\ Holder' = Holder \ {i} /\ UNCHANGED ran
      BY <1>3, ExitHolders DEF MainExits, pastVars
    <2>2. CASE references = 1
      <3>1. g_HookD3DSwitch'
        BY <1>3, <2>2 DEF MainExits
      <3>2. Holder \subseteq Runs
        BY DEF Holder
      <3>3. IsFiniteSet(Holder \ {i}) /\ Cardinality(Holder \ {i}) = Cardinality(Holder) - 1 /\ Cardinality(Holder) \in Nat
        BY <2>1, <3>2, RunSets, FS_RemoveElement
      <3>4. Cardinality(Holder \ {i}) = 0
        <4>1. Holder \ {i} \subseteq Runs
          BY <3>2
        <4>2. Cardinality(Holder \ {i}) \in Nat
          BY <4>1, RunSets
        <4> QED
          BY <2>2, <3>3, <4>2 DEF Holders
      <3>5. Holder \ {i} = {}
        BY <3>3, <3>4, FS_EmptySet
      <3> QED
        BY <2>1, <3>1, <3>5 DEF Switch
    <2>3. CASE references # 1
      <3>1. UNCHANGED g_HookD3DSwitch
        BY <1>3, <2>3 DEF MainExits
      <3> QED
        BY <1>1, <2>1, <3>1
    <2> QED
      BY <2>2, <2>3
  <1>4. ASSUME NEW i \in Runs, RunExport(i) PROVE Switch'
    <2>1. Holder' \subseteq Holder
      BY <1>4, OtherHolders
    <2>2. CASE UNCHANGED <<ran, g_HookD3DSwitch>>
      BY <1>1, <2>1, <2>2
    <2>3. CASE ran' = Set(ran, i, ran[i] \cup {Exports[call[i]]})
      <3>1. CASE Exports[call[i]] = "SetUIVisibility"
        <4>1. ~g_HookD3DSwitch'  \/ UNCHANGED <<ran, g_HookD3DSwitch>>
          BY <1>4, <3>1 DEF RunExport, SetUIVisibility
        <4> QED
          BY <2>2, <2>3, <3>1, <4>1 DEF Switch, Set, TypeOK
      <3>2. CASE Exports[call[i]] # "SetUIVisibility"
        <4>1. UNCHANGED g_HookD3DSwitch
          BY <1>4, <3>2 DEF RunExport, InitializeMod, RemoteRunScript
        <4>2. \A j \in Runs : "SetUIVisibility" \in ran'[j] <=> "SetUIVisibility" \in ran[j]
          BY <2>3, <3>2 DEF Set, TypeOK
        <4>3. Holder \subseteq Runs
          BY DEF Holder
        <4> QED
          BY <2>1, <4>1, <4>2, <4>3 DEF Switch
      <3> QED
        BY <3>1, <3>2
    <2> QED
      BY <1>4, <2>2, <2>3 DEF RunExport
  <1>5. ASSUME NEW i \in Runs, OpenProcess(i) \/ VirtualAllocEx(i) \/ StartLoader(i) \/ ReadPath(i) \/ WaitTimeout(i)
        PROVE  UNCHANGED <<ran, g_HookD3DSwitch>>
    BY <1>5 DEF OpenProcess, VirtualAllocEx, StartLoader, ReadPath, WaitTimeout, pastVars, gameVars
  <1>6. ASSUME NEW i \in Runs, LoaderEnded(i) \/ EnsureGetRemoteModuleHandle(i) \/ FindExport(i) \/ StartExport(i) \/ JoinExport(i)
        PROVE  UNCHANGED <<ran, g_HookD3DSwitch>>
    BY <1>6 DEF LoaderEnded, EnsureGetRemoteModuleHandle, FindExport, StartExport, JoinExport, pastVars, gameVars
  <1>7. ASSUME NEW i \in Runs, MainReads(i) \/ MainInitialize(i)
        PROVE  UNCHANGED <<ran, g_HookD3DSwitch>>
    BY <1>7 DEF MainReads, MainInitialize, pastVars, gameVars
  <1>8. CASE UNCHANGED vars
    BY <1>1, <1>8 DEF vars, runVars, gameVars, mainVars, pastVars, Holder
  <1> QED
    BY <1>1, <1>2, <1>3, <1>4, <1>5, <1>6, <1>7, <1>8, OtherHolders DEF Next

-------------------------------------------------------------------------------

\* The game only ends in the two actions that record why, and nothing happens after.
LEMMA FaultSteps ==
    ASSUME [Next]_vars
    PROVE  \/ UNCHANGED vars
           \/ fault = {} /\ fault' = {}
           \/ \E i \in Runs : ReadPath(i) /\ ~remoteMemory[i] /\ fault' = {<<i, "LoadLibraryW">>}
           \/ \E i \in Runs : RunExport(i) /\ ~Mapped /\ fault' = {<<i, Exports[call[i]]>>}
  <1>1. ASSUME NEW i \in Runs, OpenProcess(i) \/ VirtualAllocEx(i) \/ StartLoader(i) \/ LoadLibrary(i) \/ WaitTimeout(i)
        PROVE  fault = {} /\ fault' = {}
    BY <1>1 DEF OpenProcess, VirtualAllocEx, StartLoader, LoadLibrary, WaitTimeout, At
  <1>2. ASSUME NEW i \in Runs, LoaderEnded(i) \/ EnsureGetRemoteModuleHandle(i) \/ FindExport(i) \/ StartExport(i) \/ JoinExport(i)
        PROVE  fault = {} /\ fault' = {}
    BY <1>2 DEF LoaderEnded, EnsureGetRemoteModuleHandle, FindExport, StartExport, JoinExport, At
  <1>3. ASSUME NEW i \in Runs, MainReads(i) \/ MainInitialize(i) \/ MainExits(i)
        PROVE  fault = {} /\ fault' = {}
    BY <1>3 DEF MainReads, MainInitialize, MainExits
  <1>4. ASSUME NEW i \in Runs, ReadPath(i)
        PROVE  (fault = {} /\ fault' = {}) \/ (~remoteMemory[i] /\ fault' = {<<i, "LoadLibraryW">>})
    BY <1>4 DEF ReadPath
  <1>5. ASSUME NEW i \in Runs, RunExport(i)
        PROVE  (fault = {} /\ fault' = {}) \/ (~Mapped /\ fault' = {<<i, Exports[call[i]]>>})
    BY <1>5 DEF RunExport
  <1> QED
    BY <1>1, <1>2, <1>3, <1>4, <1>5 DEF Next

\* Every step keeps LatePath: a run that has not timed out still holds the path its
\* LoadLibraryW thread reads.
LEMMA NextPath == TypeOK /\ Control /\ LatePath /\ [Next]_vars => LatePath'
  <1> SUFFICES ASSUME TypeOK, Control, LatePath, [Next]_vars PROVE LatePath'
    OBVIOUS
  <1>1. CASE UNCHANGED vars
    BY <1>1 DEF LatePath, vars, pastVars
  <1>2. CASE fault' = {}
    BY <1>2 DEF LatePath
  <1>3. ASSUME NEW i \in Runs, ReadPath(i), ~remoteMemory[i], fault' = {<<i, "LoadLibraryW">>} PROVE LatePath'
    <2>1. loader[i] = "running" /\ UNCHANGED timedOut
      BY <1>3 DEF ReadPath, pastVars
    <2>2. pc[i] = "done"
      BY <1>3, <2>1 DEF Control, Held, Loading
    <2>3. i \in timedOut
      BY <2>1, <2>2 DEF Control, Loading
    <2> QED
      BY <1>3, <2>1, <2>3 DEF LatePath
  <1>4. ASSUME NEW i \in Runs, fault' = {<<i, Exports[call[i]]>>} PROVE LatePath'
    BY <1>4, ExportsAre DEF LatePath, TypeOK, ExportNames
  <1> QED
    BY <1>1, <1>2, <1>3, <1>4, FaultSteps

\* Every step keeps ExportsMapped: a remote thread that finds the library unmapped
\* belongs to a run whose reference is gone.
LEMMA NextMapped == TypeOK /\ Control /\ Holders /\ ExportsMapped /\ [Next]_vars => ExportsMapped'
  <1> SUFFICES ASSUME TypeOK, Control, Holders, ExportsMapped, [Next]_vars PROVE ExportsMapped'
    OBVIOUS
  <1>1. CASE UNCHANGED vars
    BY <1>1 DEF ExportsMapped, vars, mainVars
  <1>2. CASE fault' = {}
    BY <1>2 DEF ExportsMapped
  <1>3. ASSUME NEW i \in Runs, fault' = {<<i, "LoadLibraryW">>} PROVE ExportsMapped'
    BY <1>3 DEF ExportsMapped
  <1>4. ASSUME NEW i \in Runs, RunExport(i), ~Mapped, fault' = {<<i, Exports[call[i]]>>} PROVE ExportsMapped'
    <2>1. remote[i] = "running" /\ main'[i] = main[i]
      BY <1>4 DEF RunExport
    <2>2. Holder \subseteq Runs /\ Cardinality(Holder) \in Nat /\ IsFiniteSet(Holder)
      BY RunSets DEF Holder
    <2>3. Cardinality(Holder) = 0
      BY <1>4, <2>2 DEF Holders, Mapped
    <2>4. i \notin Holder
      BY <2>2, <2>3, FS_EmptySet
    <2>5. dllHandle[i] # 0
      BY <2>1 DEF Control, Held, Loading
    <2>6. main[i] = "exited"
      BY <2>4, <2>5 DEF Holder
    <2>7. call[i] = 3
      BY <2>1, <2>6 DEF Control, Calls, TypeOK
    <2> QED
      BY <1>4, <2>1, <2>6, <2>7, ExportsAre DEF ExportsMapped
  <1> QED
    BY <1>1, <1>2, <1>3, <1>4, FaultSteps

\* What a call has run or failed to run stays recorded, and the answer of the user stays.
LEMMA HistoryGrows ==
    ASSUME TypeOK, [Next]_vars
    PROVE  showUI' = showUI /\ \A j \in Runs : ran[j] \subseteq ran'[j] /\ failed[j] \subseteq failed'[j]
  <1> USE DEF TypeOK
  <1>1. ASSUME NEW i \in Runs, OpenProcess(i) \/ VirtualAllocEx(i) \/ StartLoader(i) \/ LoadLibrary(i) \/ WaitTimeout(i) \/ ReadPath(i)
        PROVE  UNCHANGED <<showUI, ran, failed>>
    BY <1>1 DEF OpenProcess, VirtualAllocEx, StartLoader, LoadLibrary, WaitTimeout, ReadPath, pastVars
  <1>2. ASSUME NEW i \in Runs, LoaderEnded(i) \/ EnsureGetRemoteModuleHandle(i)
        PROVE  UNCHANGED <<showUI, ran, failed>>
    BY <1>2 DEF LoaderEnded, EnsureGetRemoteModuleHandle, pastVars
  <1>3. ASSUME NEW i \in Runs, MainReads(i) \/ MainInitialize(i) \/ MainExits(i)
        PROVE  UNCHANGED <<showUI, ran, failed>>
    BY <1>3 DEF MainReads, MainInitialize, MainExits, pastVars
  <1>4. ASSUME NEW i \in Runs, NEW ok \in BOOLEAN, CallReturns(i, ok)
        PROVE  \A j \in Runs : failed[j] \subseteq failed'[j]
    BY <1>4 DEF CallReturns, Set
  <1>5. ASSUME NEW i \in Runs, FindExport(i) \/ StartExport(i) \/ JoinExport(i)
        PROVE  UNCHANGED <<showUI, ran>> /\ \A j \in Runs : failed[j] \subseteq failed'[j]
    <2>1. UNCHANGED <<showUI, ran>> /\ (UNCHANGED failed \/ \E ok \in BOOLEAN : CallReturns(i, ok))
      BY <1>5 DEF FindExport, StartExport, JoinExport
    <2> QED
      BY <1>4, <2>1
  <1>6. ASSUME NEW i \in Runs, RunExport(i)
        PROVE  UNCHANGED <<showUI, failed>> /\ \A j \in Runs : ran[j] \subseteq ran'[j]
    BY <1>6 DEF RunExport, Set
  <1>7. CASE UNCHANGED vars
    BY <1>7 DEF vars, pastVars
  <1> QED
    BY <1>1, <1>2, <1>3, <1>5, <1>6, <1>7 DEF Next

\* The main thread of a run reads the switch once, in MainReads.
LEMMA UiRead ==
    ASSUME TypeOK, [Next]_vars, NEW i \in Runs, main'[i] \notin {"none", "started"}
    PROVE  MainReads(i) \/ (main[i] \notin {"none", "started"} /\ ui'[i] = ui[i])
  <1> USE DEF TypeOK, Set
  <1>1. ASSUME NEW j \in Runs, OpenProcess(j) \/ VirtualAllocEx(j) \/ StartLoader(j) \/ LoadLibrary(j) \/ WaitTimeout(j) \/ ReadPath(j)
        PROVE  UNCHANGED <<main, ui>>
    BY <1>1 DEF OpenProcess, VirtualAllocEx, StartLoader, LoadLibrary, WaitTimeout, ReadPath, mainVars
  <1>2. ASSUME NEW j \in Runs, LoaderEnded(j) \/ EnsureGetRemoteModuleHandle(j) \/ FindExport(j) \/ StartExport(j) \/ JoinExport(j)
        PROVE  UNCHANGED <<main, ui>>
    BY <1>2 DEF LoaderEnded, EnsureGetRemoteModuleHandle, FindExport, StartExport, JoinExport, mainVars
  <1>3. ASSUME NEW j \in Runs, RunExport(j)
        PROVE  UNCHANGED ui /\ (main'[i] = main[i] \/ main'[i] = "started")
    BY <1>3 DEF RunExport, SetUIVisibility, InitializeMod, RemoteRunScript
  <1>4. ASSUME NEW j \in Runs, MainReads(j)
        PROVE  j = i \/ (main'[i] = main[i] /\ ui'[i] = ui[i])
    BY <1>4 DEF MainReads
  <1>5. ASSUME NEW j \in Runs, MainInitialize(j) \/ MainExits(j)
        PROVE  ui'[i] = ui[i] /\ (main'[i] = main[i] \/ main[i] \in {"reads", "serves"})
    BY <1>5 DEF MainInitialize, MainExits
  <1>6. CASE UNCHANGED vars
    BY <1>6 DEF vars, mainVars
  <1> QED
    BY <1>1, <1>2, <1>3, <1>4, <1>5, <1>6 DEF Next

\* Every step keeps UiAsAsked: a run that does not want the UI and has called
\* SetUIVisibility still holds the library, so the switch is as it left it.
LEMMA NextUi == TypeOK /\ Control /\ Switch /\ UiAsAsked /\ [Next]_vars => UiAsAsked'
  <1> SUFFICES ASSUME TypeOK, Control, Switch, UiAsAsked, [Next]_vars,
                      NEW i \in Runs, main'[i] \notin {"none", "started"}, ui'[i] # showUI'[i]
               PROVE  IF showUI'[i] THEN \E j \in Runs \ {i} : "SetUIVisibility" \in ran'[j]
                                    ELSE "SetUIVisibility" \in failed'[i]
    BY DEF UiAsAsked
  <1>1. showUI' = showUI /\ \A j \in Runs : ran[j] \subseteq ran'[j] /\ failed[j] \subseteq failed'[j]
    BY HistoryGrows
  <1>2. CASE main[i] \notin {"none", "started"} /\ ui'[i] = ui[i]
    BY <1>1, <1>2 DEF UiAsAsked
  <1>3. CASE MainReads(i)
    <2>1. main[i] = "started" /\ ui'[i] = g_HookD3DSwitch
      BY <1>3 DEF MainReads, Set, TypeOK
    <2>2. CASE showUI[i]
      <3>1. ~g_HookD3DSwitch
        BY <1>1, <2>1, <2>2 DEF TypeOK
      <3>2. PICK j \in Runs : "SetUIVisibility" \in ran[j]
        BY <3>1 DEF Switch
      <3>3. j # i
        BY <2>2, <3>2 DEF Control, Calls
      <3> QED
        BY <1>1, <2>2, <3>2, <3>3
    <2>3. CASE ~showUI[i]
      <3>1. g_HookD3DSwitch
        BY <1>1, <2>1, <2>3 DEF TypeOK
      <3>2. "InitializeMod" \in ran[i] /\ call[i] > 1 /\ dllHandle[i] # 0
        BY <2>1 DEF Control, Calls
      <3>3. i \in Holder
        BY <2>1, <3>2 DEF Holder
      <3>4. "SetUIVisibility" \notin ran[i]
        BY <3>1, <3>3 DEF Switch
      <3>5. "SetUIVisibility" \in failed[i]
        BY <3>2, <3>4 DEF Control, Calls
      <3> QED
        BY <1>1, <2>3, <3>5
    <2> QED
      BY <2>2, <2>3
  <1> QED
    BY <1>2, <1>3, UiRead

-------------------------------------------------------------------------------

\* The inductive invariant holds of a game without the mod and is kept by every step.
THEOREM Invariant == Spec => []IndInv
  <1>1. Init => IndInv
    <2> SUFFICES ASSUME Init PROVE IndInv
      OBVIOUS
    <2>1. TypeOK
      BY InitType
    <2>2. Control
      BY DEF Init, Control, Held, Loading, Calls
    <2>3. Holder = {}
      BY DEF Init, Holder
    <2>4. Holders
      BY <2>3, FS_EmptySet DEF Init, Holders
    <2>5. Switch
      BY <2>3 DEF Init, Switch
    <2>6. LatePath /\ ExportsMapped /\ UiAsAsked
      BY DEF Init, LatePath, ExportsMapped, UiAsAsked
    <2> QED
      BY <2>1, <2>2, <2>4, <2>5, <2>6 DEF IndInv
  <1>2. IndInv /\ [Next]_vars => IndInv'
    BY NextType, NextControl, NextHolders, NextSwitch, NextPath, NextMapped, NextUi DEF IndInv
  <1> QED
    BY <1>1, <1>2, PTL DEF Spec

\* Whichever call of InjectDll failed, it returns with the process and its threads closed
\* and all memory in the game freed, leaves a file mapping open only after a failed load,
\* and returns success only after all three exports have run.
THEOREM ReturnsClean == Spec => []InjectDllReturns
  <1>1. IndInv => InjectDllReturns
    <2> SUFFICES ASSUME IndInv, NEW i \in Runs
                 PROVE  /\ pc[i] = "done" =>
                              /\ ~hProcess[i] /\ ~hThread[i] /\ ~remoteMemory[i] /\ ~pRemoteData[i]
                              /\ success[i] => ran[i] = ExportNames /\ ~showUI[i]
                        /\ hFileMapping[i] => pc[i] = "done" /\ dllHandle[i] = 0 /\ ran[i] = {}
      BY DEF InjectDllReturns, ExportNames
    <2>1. ASSUME pc[i] = "done" PROVE ~hProcess[i] /\ ~hThread[i] /\ ~remoteMemory[i] /\ ~pRemoteData[i]
      BY <2>1 DEF IndInv, Control, Held
    <2>2. ASSUME pc[i] = "done", success[i] PROVE ran[i] = ExportNames /\ ~showUI[i]
      <3>1. call[i] = 3 /\ "RemoteRunScript" \in ran[i]
        BY <2>2 DEF IndInv, Control, Calls
      <3>2. "SetUIVisibility" \in ran[i] /\ "InitializeMod" \in ran[i]
        BY <2>2, <3>1 DEF IndInv, Control, Calls
      <3>3. ran[i] \subseteq ExportNames
        BY DEF IndInv, TypeOK
      <3>4. ~showUI[i]
        BY <3>2 DEF IndInv, Control, Calls
      <3> QED
        BY <3>1, <3>2, <3>3, <3>4 DEF ExportNames
    <2>3. ASSUME hFileMapping[i] PROVE pc[i] = "done" /\ dllHandle[i] = 0 /\ ran[i] = {}
      <3>1. pc[i] = "done" /\ dllHandle[i] = 0
        BY <2>3 DEF IndInv, Control, Loading
      <3> QED
        BY <3>1 DEF IndInv, Control, Calls
    <2> QED
      BY <2>1, <2>2, <2>3
  <1> QED
    BY <1>1, Invariant, PTL

\* The path is freed under the LoadLibraryW thread only by a run that stopped waiting; a
\* parameter is never freed under an export.
THEOREM PathFreedLate == Spec => []PathFault
  <1>1. IndInv => PathFault
    <2> SUFFICES ASSUME IndInv PROVE PathFault
      OBVIOUS
    <2>1. ASSUME NEW i \in Runs, loader[i] = "running", ~remoteMemory[i] PROVE i \in timedOut
      <3>1. pc[i] = "done"
        BY <2>1 DEF IndInv, Control, Held, Loading
      <3> QED
        BY <2>1, <3>1 DEF IndInv, Control, Loading
    <2>2. ASSUME NEW i \in Runs, remote[i] = "running", HasParam(i) PROVE pRemoteData[i]
      BY <2>2 DEF IndInv, Control, Held
    <2> QED
      BY <2>1, <2>2 DEF IndInv, LatePath, PathFault
  <1> QED
    BY <1>1, Invariant, PTL

\* A remote thread enters an unmapped library only in RemoteRunScript, and only after the
\* main thread its own run started has left.
THEOREM ExportsStayMapped == Spec => []ExportsMapped
  BY Invariant, PTL DEF IndInv

\* The mod shows its UI as asked, up to the two cases UiAsAsked names.
THEOREM UiIsAsAsked == Spec => []UiAsAsked
  BY Invariant, PTL DEF IndInv
===============================================================================
