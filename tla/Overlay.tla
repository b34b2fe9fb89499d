------------------------------- MODULE Overlay -------------------------------
(***************************************************************************)
(* The overlay inside the game's Direct3D calls (Engine.cpp, D3D11Window): *)
(* the main thread installs the two hooks one after the other, the render  *)
(* thread runs Present and ResizeBuffers, sets ImGui up in its first frame *)
(* and lets the user work with the script editor in every frame, and the   *)
(* background thread removes the hooks after UNHOOK.  views counts the     *)
(* references to the back buffer that the mod holds: ResizeBuffers fails   *)
(* while there is one.                                                     *)
(***************************************************************************)
EXTENDS CodeEditor

VARIABLES
    presentHook, resizeHook,   \* is the hook enabled
    hooking,              \* HookD3D: "start", "present", "done"
    unhooking,            \* UnhookD3D: "no", "asked", "window", "present", "done"
    render,               \* the render thread: "game", "frame", "resizing"
    bInitImGui,
    m_RenderTargetView,   \* is the pointer set
    views,
    wndProc, m_OldWndProc,     \* whose window procedure: "game", "mod"
    blocked,              \* history: the game's ResizeBuffers failed because of the mod
    fault

hookVars    == <<presentHook, resizeHook, hooking, unhooking>>
windowVars  == <<bInitImGui, m_RenderTargetView, views, wndProc, m_OldWndProc>>
overlayVars == <<editorVars, hookVars, render, windowVars, blocked, fault>>

OverlayInit ==
    /\ EditorInit
    /\ presentHook = FALSE /\ resizeHook = FALSE
    /\ hooking = "start" /\ unhooking = "no" /\ render = "game"
    /\ bInitImGui = FALSE /\ m_RenderTargetView = FALSE /\ views = 0
    /\ wndProc = "game" /\ m_OldWndProc = "none"
    /\ blocked = {} /\ fault = "none"

Running == fault = "none"

\* Calls of Direct3D and MinHook; nobody looks at their results.
Outcomes == IF "failure" \in trouble THEN BOOLEAN ELSE {TRUE}

Fault(why) == fault' = why /\ UNCHANGED <<editorVars, hookVars, render, windowVars, blocked>>

------------------------------------------------------------------------------
(* HookD3D on the main thread, UnhookD3D on the background thread.           *)

HookPresent ==
    /\ Running /\ hooking = "start"
    /\ hooking' = "present" /\ presentHook' \in Outcomes
    /\ UNCHANGED <<editorVars, resizeHook, unhooking, render, windowVars, blocked, fault>>

HookResize ==
    /\ Running /\ hooking = "present"
    /\ hooking' = "done" /\ resizeHook' \in Outcomes
    /\ UNCHANGED <<editorVars, presentHook, unhooking, render, windowVars, blocked, fault>>

\* UNHOOK DLL is pressed in a frame; the kill switch reaches the background thread.
AskUnhook ==
    /\ Running /\ render = "frame" /\ ~showNewFileModal
    /\ hooking = "done" /\ unhooking = "no"
    /\ unhooking' = "asked"
    /\ UNCHANGED <<editorVars, presentHook, resizeHook, hooking, render, windowVars, blocked, fault>>

UnhookWindow ==
    /\ Running /\ unhooking = "asked"
    /\ unhooking' = "window" /\ wndProc' = m_OldWndProc
    /\ UNCHANGED <<editorVars, presentHook, resizeHook, hooking, render, bInitImGui, m_RenderTargetView, views,
                   m_OldWndProc, blocked, fault>>

UnhookPresent ==
    /\ Running /\ unhooking = "window"
    /\ unhooking' = "present" /\ presentHook' = FALSE
    /\ UNCHANGED <<editorVars, resizeHook, hooking, render, windowVars, blocked, fault>>

\* The last hook goes; the view is not released.
UnhookResize ==
    /\ Running /\ unhooking = "present"
    /\ unhooking' = "done" /\ resizeHook' = FALSE
    /\ UNCHANGED <<editorVars, presentHook, hooking, render, windowVars, blocked, fault>>

------------------------------------------------------------------------------
(* The render thread.                                                        *)

\* Creating a view of the back buffer: the pointer and a reference, or neither.
CreateView(ok) == m_RenderTargetView' = ok /\ views' = views + (IF ok THEN 1 ELSE 0)

\* Mutant: the old window procedure is read after the new one is set.
InitImGuiLate ==
    /\ Running /\ render = "game" /\ presentHook /\ ~bInitImGui
    /\ render' = "frame" /\ bInitImGui' = TRUE
    /\ \E ok \in Outcomes : CreateView(ok)
    /\ wndProc' = "mod" /\ m_OldWndProc' = wndProc'
    /\ Initialize
    /\ UNCHANGED <<hookVars, blocked, fault>>

\* The first frame: InitImGui creates the view, takes over the window procedure and
\* lists the scripts.
InitImGui ==
    /\ Running /\ render = "game" /\ presentHook /\ ~bInitImGui
    /\ render' = "frame" /\ bInitImGui' = TRUE
    /\ \E ok \in Outcomes : CreateView(ok)
    /\ m_OldWndProc' = wndProc /\ wndProc' = "mod"
    /\ Initialize
    /\ UNCHANGED <<hookVars, blocked, fault>>

\* InitImGui found no device: Overlay goes on without an ImGui context.
InitImGuiFails ==
    /\ Running /\ render = "game" /\ presentHook /\ ~bInitImGui /\ "failure" \in trouble
    /\ Fault("context")

\* SwapChain_Present_hook and Overlay in a later frame.
Present ==
    /\ Running /\ render = "game" /\ presentHook /\ bInitImGui
    /\ render' = "frame"
    /\ UNCHANGED <<editorVars, hookVars, windowVars, blocked, fault>>

\* Menu::CodeEditor draws the selection before it handles a button.
UseEditor ==
    /\ Running /\ render = "frame" /\ SelectionValid
    /\ Use
    /\ UNCHANGED <<hookVars, render, windowVars, blocked, fault>>

DrawFault == Running /\ render = "frame" /\ ~SelectionValid /\ Fault("selection")

EndFrame ==
    /\ Running /\ render = "frame"
    /\ render' = "game"
    /\ UNCHANGED <<editorVars, hookVars, windowVars, blocked, fault>>

\* The game resizes its buffers without the hook.
Resize ==
    /\ Running /\ render = "game" /\ ~resizeHook
    /\ views > 0 /\ hooking \notin blocked
    /\ blocked' = blocked \cup {hooking}
    /\ UNCHANGED <<editorVars, hookVars, render, windowVars, fault>>

\* Mutant: the view is kept over the game's ResizeBuffers.
ResizeBuffersKeeps ==
    /\ Running /\ render = "game" /\ resizeHook /\ m_RenderTargetView
    /\ render' = "resizing"
    /\ m_RenderTargetView' = FALSE
    /\ blocked' = IF views > 0 THEN blocked \cup {"hooked"} ELSE blocked
    /\ UNCHANGED <<editorVars, hookVars, bInitImGui, views, wndProc, m_OldWndProc, fault>>

\* SwapChain_ResizeBuffers_hook: the view is released, then the game's function runs ...
ResizeBuffers ==
    /\ Running /\ render = "game" /\ resizeHook /\ m_RenderTargetView
    /\ render' = "resizing"
    /\ m_RenderTargetView' = FALSE /\ views' = views - 1
    /\ blocked' = IF views' > 0 THEN blocked \cup {"hooked"} ELSE blocked
    /\ UNCHANGED <<editorVars, hookVars, bInitImGui, wndProc, m_OldWndProc, fault>>

\* ... and the view is made again.
ResizeBuffersEnd ==
    /\ Running /\ render = "resizing"
    /\ render' = "game"
    /\ \E ok \in Outcomes : CreateView(ok)
    /\ UNCHANGED <<editorVars, hookVars, bInitImGui, wndProc, m_OldWndProc, blocked, fault>>

\* m_RenderTargetView->Release() on a null pointer.
ResizeFault == Running /\ render = "game" /\ resizeHook /\ ~m_RenderTargetView /\ Fault("target")

\* Another program changes the Scripts directory.
Others == Running /\ (\E n \in FileNames : OthersWrite(n)) /\ UNCHANGED <<hookVars, render, windowVars, blocked, fault>>

OverlayNext ==
    \/ HookPresent \/ HookResize \/ AskUnhook \/ UnhookWindow \/ UnhookPresent \/ UnhookResize
    \/ InitImGui \/ InitImGuiFails \/ Present \/ UseEditor \/ DrawFault \/ EndFrame
    \/ Resize \/ ResizeBuffers \/ ResizeBuffersEnd \/ ResizeFault \/ Others

OverlaySpec == OverlayInit /\ [][OverlayNext]_overlayVars

------------------------------------------------------------------------------

\* Resizing works while both hooks are active: the view is always released in time, and
\* there is one to release, whatever frames and resizes came before.  The mod makes the
\* game's ResizeBuffers fail only between the two CreateHook calls (the first frame has
\* taken a view), after UnhookD3D, which forgets the view, or without a hook; the hook meets a null
\* view only before the first frame or after Direct3D refused to create one.
ResizeSafe ==
    /\ "hooked" \notin blocked
    /\ blocked # {} => bInitImGui
    /\ fault = "target" => ~bInitImGui \/ "failure" \in trouble

\* After UnhookD3D the game's window has its own procedure again.
WindowRestored == unhooking \in {"window", "present", "done"} => wndProc = "game"
==============================================================================
