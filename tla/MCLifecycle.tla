----------------------------- MODULE MCLifecycle -----------------------------
(* One remote caller, one script and a queue of one.                         *)
EXTENDS Lifecycle

CONSTANTS c1, script
MCCallers == {c1}
MCScripts == {script, EmptyScript}
==============================================================================
