------------------------------- MODULE Injector -------------------------------
(***************************************************************************)
(* The loader program (DllInjector.cpp) and the exports of the DLL it      *)
(* calls (Source.cpp).  Each run of the program loads the DLL into the     *)
(* game with a remote LoadLibraryW thread, then calls three exports, each  *)
(* on a remote thread of its own; InitializeMod starts the DLL's main      *)
(* thread, which gives the library back when the mod is unhooked.  Several *)
(* runs may overlap.  Every system call may fail.                          *)
(***************************************************************************)
EXTENDS Naturals, FiniteSets

CONSTANT Runs   \* executions of the loader program

ASSUME RunsAssumption == IsFiniteSet(Runs)

VARIABLES
    \* per run of InjectDll
    pc, call,               \* where it is; the export being called, an index of Exports
    hProcess, hThread,      \* handles it holds
    remoteMemory, pRemoteData,   \* memory it holds in the game: the path, a parameter
    success,
    showUI,                 \* what the user answered
    hFileMapping,           \* the file mapping opened to examine a DLL that did not load
    loader, dllHandle,      \* the LoadLibraryW thread; the low 32 bits of its result, 1 for any not zero
    found,                  \* EnsureGetRemoteModuleHandle returned the real handle
    remote,                 \* the thread running an export: "none", "running", "ended"
    main, ui,               \* MainThread_Initialize as started by this run; what it read of the switch
    ran, failed, timedOut,  \* history: exports run to their end, exports not run, time-out
    \* in the game
    references,             \* LoadLibrary minus FreeLibrary
    g_HookD3DSwitch,
    fault                   \* history: {} or what ended the game

runVars  == <<pc, call, hProcess, hThread, remoteMemory, pRemoteData, success, loader, dllHandle, found, remote>>
gameVars == <<references, g_HookD3DSwitch>>
mainVars == <<main, ui>>
pastVars == <<ran, failed, timedOut>>
vars     == <<runVars, showUI, hFileMapping, gameVars, mainVars, pastVars, fault>>

\* Mutant: the mod is initialised before the switch is set.
ExportsSwapped == <<"InitializeMod", "SetUIVisibility", "RemoteRunScript">>

\* The calls of InjectDll in their order.
Exports == <<"SetUIVisibility", "InitializeMod", "RemoteRunScript">>

Init ==
    /\ pc = [i \in Runs |-> "start"] /\ call = [i \in Runs |-> 1]
    /\ hProcess = [i \in Runs |-> FALSE] /\ hThread = [i \in Runs |-> FALSE]
    /\ remoteMemory = [i \in Runs |-> FALSE] /\ pRemoteData = [i \in Runs |-> FALSE]
    /\ success = [i \in Runs |-> FALSE]
    /\ showUI \in [Runs -> BOOLEAN] /\ hFileMapping = [i \in Runs |-> FALSE]
    /\ loader = [i \in Runs |-> "none"] /\ dllHandle = [i \in Runs |-> 0]
    /\ found = [i \in Runs |-> FALSE] /\ remote = [i \in Runs |-> "none"]
    /\ main = [i \in Runs |-> "none"] /\ ui = [i \in Runs |-> TRUE]
    /\ ran = [i \in Runs |-> {}] /\ failed = [i \in Runs |-> {}] /\ timedOut = {}
    /\ references = 0 /\ g_HookD3DSwitch = TRUE
    /\ fault = {}

Set(f, i, v)  == [f EXCEPT ![i] = v]
At(i, label)  == fault = {} /\ pc[i] = label
Goto(i, label) == pc' = Set(pc, i, label)
Mapped        == references > 0

------------------------------------------------------------------------------
(* InjectDll up to the remote LoadLibraryW.                                  *)

OpenProcess(i) ==
    /\ At(i, "start")
    /\ \/ Goto(i, "alloc") /\ hProcess' = Set(hProcess, i, TRUE)
       \/ Goto(i, "done") /\ UNCHANGED hProcess
    /\ UNCHANGED <<call, hThread, remoteMemory, pRemoteData, success, loader, dllHandle, found, remote,
                   showUI, hFileMapping, gameVars, mainVars, pastVars, fault>>

VirtualAllocEx(i) ==
    /\ At(i, "alloc")
    /\ \/ Goto(i, "write") /\ remoteMemory' = Set(remoteMemory, i, TRUE) /\ UNCHANGED hProcess
       \/ Goto(i, "done") /\ hProcess' = Set(hProcess, i, FALSE) /\ UNCHANGED remoteMemory
    /\ UNCHANGED <<call, hThread, pRemoteData, success, loader, dllHandle, found, remote,
                   showUI, hFileMapping, gameVars, mainVars, pastVars, fault>>

\* VirtualFreeEx of the path, CloseHandle of the process, return.
ReturnFreed(i) ==
    /\ Goto(i, "done")
    /\ remoteMemory' = Set(remoteMemory, i, FALSE) /\ hProcess' = Set(hProcess, i, FALSE)

\* Mutant: the path is freed as soon as the thread is created.
StartLoaderFrees(i) ==
    /\ At(i, "write")
    /\ \/ /\ Goto(i, "wait") /\ hThread' = Set(hThread, i, TRUE) /\ loader' = Set(loader, i, "running")
          /\ remoteMemory' = Set(remoteMemory, i, FALSE) /\ UNCHANGED hProcess
       \/ ReturnFreed(i) /\ UNCHANGED <<hThread, loader>>
    /\ UNCHANGED <<call, pRemoteData, success, dllHandle, found, remote,
                   showUI, hFileMapping, gameVars, mainVars, pastVars, fault>>

\* WriteProcessMemory, GetProcAddress and CreateRemoteThread; each may fail.
StartLoader(i) ==
    /\ At(i, "write")
    /\ \/ /\ Goto(i, "wait") /\ hThread' = Set(hThread, i, TRUE) /\ loader' = Set(loader, i, "running")
          /\ UNCHANGED <<remoteMemory, hProcess>>
       \/ ReturnFreed(i) /\ UNCHANGED <<hThread, loader>>
    /\ UNCHANGED <<call, pRemoteData, success, dllHandle, found, remote,
                   showUI, hFileMapping, gameVars, mainVars, pastVars, fault>>

\* The remote thread in the game reads the path ...
ReadPath(i) ==
    /\ fault = {} /\ loader[i] = "running"
    /\ IF remoteMemory[i] THEN loader' = Set(loader, i, "loading") /\ UNCHANGED fault
                          ELSE fault' = {<<i, "LoadLibraryW">>} /\ UNCHANGED loader
    /\ UNCHANGED <<pc, call, hProcess, hThread, remoteMemory, pRemoteData, success, dllHandle, found, remote,
                   showUI, hFileMapping, gameVars, mainVars, pastVars>>

\* Mutant: a library that is there already is not loaded again.
LoadLibraryOnce(i) ==
    /\ fault = {} /\ loader[i] = "loading"
    /\ loader' = Set(loader, i, "ended") /\ dllHandle' = Set(dllHandle, i, 1)
    /\ references' = IF Mapped THEN references ELSE 1
    /\ UNCHANGED <<pc, call, hProcess, hThread, remoteMemory, pRemoteData, success, found, remote,
                   showUI, hFileMapping, g_HookD3DSwitch, mainVars, pastVars, fault>>

\* ... and loads the library or fails; the low half of a 64-bit handle may be zero.
LoadLibrary(i) ==
    /\ fault = {} /\ loader[i] = "loading"
    /\ loader' = Set(loader, i, "ended")
    /\ \/ references' = references + 1 /\ \E low \in {0, 1} : dllHandle' = Set(dllHandle, i, low)
       \/ UNCHANGED <<dllHandle, references>>
    /\ UNCHANGED <<pc, call, hProcess, hThread, remoteMemory, pRemoteData, success, found, remote,
                   showUI, hFileMapping, g_HookD3DSwitch, mainVars, pastVars, fault>>

\* Mutant: nothing is freed after the time-out.
WaitTimeoutKeeps(i) ==
    /\ At(i, "wait") /\ loader[i] \in {"running", "loading"}
    /\ Goto(i, "done") /\ hThread' = Set(hThread, i, FALSE)
    /\ timedOut' = timedOut \cup {i}
    /\ UNCHANGED <<remoteMemory, hProcess, call, pRemoteData, success, loader, dllHandle, found, remote,
                   showUI, hFileMapping, gameVars, mainVars, ran, failed, fault>>

\* WaitForSingleObject gives up after ten seconds.
WaitTimeout(i) ==
    /\ At(i, "wait") /\ loader[i] \in {"running", "loading"}
    /\ ReturnFreed(i) /\ hThread' = Set(hThread, i, FALSE)
    /\ timedOut' = timedOut \cup {i}
    /\ UNCHANGED <<call, pRemoteData, success, loader, dllHandle, found, remote,
                   showUI, hFileMapping, gameVars, mainVars, ran, failed, fault>>

\* A DLL that did not load is examined on disk: the file is opened, mapped and closed
\* again, as far as each call works; nothing closes the mapping.
ExamineDll(i) == \E mapped \in BOOLEAN : hFileMapping' = Set(hFileMapping, i, mapped)

\* The thread has ended: a zero exit code counts as a failed load, and there may be none
\* to read.
LoaderEnded(i) ==
    /\ At(i, "wait") /\ loader[i] = "ended"
    /\ hThread' = Set(hThread, i, FALSE)
    /\ \/ dllHandle[i] # 0 /\ Goto(i, "module") /\ UNCHANGED <<remoteMemory, hProcess, hFileMapping>>
       \/ dllHandle[i] = 0 /\ ReturnFreed(i) /\ ExamineDll(i)
       \/ ReturnFreed(i) /\ UNCHANGED hFileMapping
    /\ UNCHANGED <<call, pRemoteData, success, loader, dllHandle, found, remote,
                   showUI, gameVars, mainVars, pastVars, fault>>

\* EnsureGetRemoteModuleHandle: the handle by name or by enumeration, or the 32 bits of dllHandle.
EnsureGetRemoteModuleHandle(i) ==
    /\ At(i, "module")
    /\ \E real \in BOOLEAN : found' = Set(found, i, real)
    /\ success' = Set(success, i, TRUE)
    /\ Goto(i, "call")
    /\ UNCHANGED <<call, hProcess, hThread, remoteMemory, pRemoteData, loader, dllHandle, remote,
                   showUI, hFileMapping, gameVars, mainVars, pastVars, fault>>

------------------------------------------------------------------------------
(* CallRemoteExportFunction, three times, and the end of InjectDll.          *)

\* Mutant: the last call alone decides.
CallReturnsLast(i, ok) ==
    /\ success' = Set(success, i, ok)
    /\ failed' = IF ok THEN failed ELSE Set(failed, i, failed[i] \cup {Exports[call[i]]})
    /\ IF call[i] < 3
       THEN call' = Set(call, i, call[i] + 1) /\ Goto(i, "call") /\ UNCHANGED <<remoteMemory, hProcess>>
       ELSE UNCHANGED call /\ ReturnFreed(i)

\* A call returns ok; after the last one InjectDll cleans up and returns success.
CallReturns(i, ok) ==
    /\ success' = Set(success, i, success[i] /\ ok)
    /\ failed' = IF ok THEN failed ELSE Set(failed, i, failed[i] \cup {Exports[call[i]]})
    /\ IF call[i] < 3
       THEN call' = Set(call, i, call[i] + 1) /\ Goto(i, "call") /\ UNCHANGED <<remoteMemory, hProcess>>
       ELSE UNCHANGED call /\ ReturnFreed(i)

\* The export table of the remote module is searched; it can be read only under the
\* real handle and while the library is mapped.
FindExport(i) ==
    /\ At(i, "call")
    /\ \/ /\ found[i] /\ Mapped
          /\ Goto(i, "found") /\ UNCHANGED <<success, failed, call, remoteMemory, hProcess>>
       \/ CallReturns(i, FALSE)
    /\ UNCHANGED <<hThread, pRemoteData, loader, dllHandle, found, remote,
                   showUI, hFileMapping, gameVars, mainVars, ran, timedOut, fault>>

\* The BOOL showUI is passed as the address of the parameter: FALSE is no parameter,
\* TRUE an address that cannot be read.
Readable(i) == Exports[call[i]] = "SetUIVisibility" => ~showUI[i]
HasParam(i) == Exports[call[i]] # "SetUIVisibility" \/ showUI[i]

\* Parameter memory, parameter and thread; when one fails the memory is freed again.
StartExport(i) ==
    /\ At(i, "found")
    /\ \/ /\ Readable(i)
          /\ Goto(i, "join") /\ hThread' = Set(hThread, i, TRUE) /\ remote' = Set(remote, i, "running")
          /\ pRemoteData' = Set(pRemoteData, i, HasParam(i))
          /\ UNCHANGED <<success, failed, call, remoteMemory, hProcess>>
       \/ CallReturns(i, FALSE) /\ UNCHANGED <<hThread, remote, pRemoteData>>
    /\ UNCHANGED <<loader, dllHandle, found,
                   showUI, hFileMapping, gameVars, mainVars, ran, timedOut, fault>>

\* WaitForSingleObject(INFINITE), then the clean-up; the exit code is only printed.
JoinExport(i) ==
    /\ At(i, "join") /\ remote[i] = "ended"
    /\ hThread' = Set(hThread, i, FALSE) /\ remote' = Set(remote, i, "none")
    /\ pRemoteData' = Set(pRemoteData, i, FALSE)
    /\ CallReturns(i, TRUE)
    /\ UNCHANGED <<loader, dllHandle, found,
                   showUI, hFileMapping, gameVars, mainVars, ran, timedOut, fault>>

------------------------------------------------------------------------------
(* The exports, on the remote thread, and the main thread of the DLL.        *)

\* SetUIVisibility is only ever called with 0.
SetUIVisibility(i) == g_HookD3DSwitch' = FALSE /\ UNCHANGED main

\* InitializeMod: CreateThread may fail, the BOOL that says so is not looked at.
InitializeMod(i) == (main' = Set(main, i, "started") \/ UNCHANGED main) /\ UNCHANGED g_HookD3DSwitch

\* RemoteRunScript returns at once or queues its script (module ScriptQueue); neither
\* changes anything here.
RemoteRunScript(i) == UNCHANGED <<main, g_HookD3DSwitch>>

\* A remote thread enters the export at the address found before.
RunExport(i) ==
    /\ fault = {} /\ remote[i] = "running"
    /\ \/ /\ Mapped
          /\ \/ Exports[call[i]] = "SetUIVisibility" /\ SetUIVisibility(i)
             \/ Exports[call[i]] = "InitializeMod"   /\ InitializeMod(i)
             \/ Exports[call[i]] = "RemoteRunScript" /\ RemoteRunScript(i)
          /\ remote' = Set(remote, i, "ended")
          /\ ran' = Set(ran, i, ran[i] \cup {Exports[call[i]]})
          /\ UNCHANGED fault
       \/ ~Mapped /\ fault' = {<<i, Exports[call[i]]>>} /\ UNCHANGED <<main, g_HookD3DSwitch, remote, ran>>
    /\ UNCHANGED <<pc, call, hProcess, hThread, remoteMemory, pRemoteData, success, loader, dllHandle, found,
                   showUI, hFileMapping, references, ui, failed, timedOut>>

\* MainThread_Initialize reads the switch ...
MainReads(i) ==
    /\ fault = {} /\ main[i] = "started"
    /\ main' = Set(main, i, "reads") /\ ui' = Set(ui, i, g_HookD3DSwitch)
    /\ UNCHANGED <<runVars,
                   showUI, hFileMapping, gameVars, pastVars, fault>>

\* ... initialises the VM, or returns without giving the library back ...
MainInitialize(i) ==
    /\ fault = {} /\ main[i] = "reads"
    /\ \E next \in {"serves", "gone"} : main' = Set(main, i, next)
    /\ UNCHANGED <<runVars,
                   showUI, hFileMapping, gameVars, ui, pastVars, fault>>

\* ... and after UNHOOK calls FreeLibraryAndExitThread; the last reference unmaps the
\* library, and the next load starts from fresh globals.
MainExits(i) ==
    /\ fault = {} /\ main[i] = "serves"
    /\ main' = Set(main, i, "exited")
    /\ references' = references - 1
    /\ g_HookD3DSwitch' = IF references = 1 THEN TRUE ELSE g_HookD3DSwitch
    /\ UNCHANGED <<runVars, showUI, hFileMapping, ui, pastVars, fault>>

Next ==
    \E i \in Runs :
        \/ OpenProcess(i) \/ VirtualAllocEx(i) \/ StartLoader(i) \/ ReadPath(i) \/ LoadLibrary(i)
        \/ WaitTimeout(i) \/ LoaderEnded(i) \/ EnsureGetRemoteModuleHandle(i)
        \/ FindExport(i) \/ StartExport(i) \/ RunExport(i) \/ JoinExport(i)
        \/ MainReads(i) \/ MainInitialize(i) \/ MainExits(i)

Spec == Init /\ [][Next]_vars

------------------------------------------------------------------------------

\* Whichever of the calls of InjectDll failed, every return has closed the handles of the
\* process and of its threads and freed the memory in the game; what may stay open is the
\* file mapping, once a load has failed and no export has been called; and it returns true
\* only after all three exports have run to their end, which never is the case when the
\* user wants the UI: that call cannot be made.
InjectDllReturns ==
    \A i \in Runs :
        /\ pc[i] = "done" =>
              /\ ~hProcess[i] /\ ~hThread[i] /\ ~remoteMemory[i] /\ ~pRemoteData[i]
              /\ success[i] => ran[i] = {"SetUIVisibility", "InitializeMod", "RemoteRunScript"} /\ ~showUI[i]
        /\ hFileMapping[i] => pc[i] = "done" /\ dllHandle[i] = 0 /\ ran[i] = {}

\* The LoadLibraryW thread finds its path freed only if the loader program stopped
\* waiting for it; the parameter of an export is never freed under its thread.
PathFault ==
    /\ \A i \in Runs : (loader[i] = "running" /\ ~remoteMemory[i]) \/ <<i, "LoadLibraryW">> \in fault => i \in timedOut
    /\ \A i \in Runs : remote[i] = "running" /\ HasParam(i) => pRemoteData[i]

\* However the runs of the loader and the mod's unhooking interleave, a remote thread
\* enters an unmapped library only in RemoteRunScript, after the main thread this very
\* run had started has ended: until then the run's own reference keeps the library.
ExportsMapped ==
    \A i \in Runs, e \in {"SetUIVisibility", "InitializeMod", "RemoteRunScript"} :
        <<i, e>> \in fault => e = "RemoteRunScript" /\ main[i] = "exited"

\* The mod shows its UI as the user who started it asked, except: a user who does not
\* want it gets it if SetUIVisibility could not be called; a user who wants it does not
\* get it if another run has hidden it, as no call ever sets the switch again.
UiAsAsked ==
    \A i \in Runs : main[i] \notin {"none", "started"} /\ ui[i] # showUI[i] =>
        IF showUI[i] THEN \E j \in Runs \ {i} : "SetUIVisibility" \in ran[j]
                     ELSE "SetUIVisibility" \in failed[i]
==============================================================================
