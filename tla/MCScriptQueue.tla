---------------------------- MODULE MCScriptQueue ----------------------------
(* Two callers, a real script and the empty one, a queue of two.             *)
EXTENDS ScriptQueue

CONSTANTS c1, c2, script
MCCallers == {c1, c2}
MCScripts == {script, EmptyScript}
==============================================================================
