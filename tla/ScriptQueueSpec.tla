--------------------------- MODULE ScriptQueueSpec ---------------------------
(***************************************************************************)
(* What the script queue of LuaVM promises its callers, without threads,   *)
(* locks or wakeups: a bounded first-in first-out queue whose consumer may *)
(* take at most one more script after it has been told to stop.            *)
(***************************************************************************)
EXTENDS Naturals, Sequences

CONSTANTS Scripts,    \* what callers may submit
          Capacity    \* how many scripts may wait

VARIABLES pending,    \* accepted and not yet taken, oldest first
          taken,      \* every script handed to the Lua thread, in order
          stopped,    \* the consumer has been told to stop
          late        \* how many scripts were taken after that

vars == <<pending, taken, stopped, late>>

Init ==
    /\ pending = <<>>
    /\ taken = <<>>
    /\ stopped = FALSE
    /\ late = 0

\* A script is accepted: there was room for it.  A refusal changes nothing.
Submit(s) ==
    /\ Len(pending) < Capacity
    /\ pending' = Append(pending, s)
    /\ UNCHANGED <<taken, stopped, late>>

\* The oldest script is handed over.
Take ==
    /\ pending # <<>>
    /\ stopped => late = 0
    /\ pending' = Tail(pending)
    /\ taken' = Append(taken, Head(pending))
    /\ late' = IF stopped THEN late + 1 ELSE late
    /\ UNCHANGED stopped

Stop ==
    /\ stopped' = TRUE
    /\ UNCHANGED <<pending, taken, late>>

Next == (\E s \in Scripts : Submit(s)) \/ Take \/ Stop

Spec == Init /\ [][Next]_vars
==============================================================================
