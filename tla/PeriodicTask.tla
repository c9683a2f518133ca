---------------------------- MODULE PeriodicTask ----------------------------
(***************************************************************************)
(* A periodic task on an absolute grid: what the runtime promises of the   *)
(* model thread, whatever the length of a step.  The grid is fixed when    *)
(* the task begins.  Each time the task has become idle it serves the      *)
(* first grid point that is still ahead, and not before that point.        *)
(***************************************************************************)
EXTENDS Integers

CONSTANTS Period, MaxTime

VARIABLES now,      \* the clock
          phase,    \* "new", "running" (the grid is fixed) or "ended"
          origin,   \* its origin
          served,   \* the grid point last served
          serving,  \* whether it is still being served
          idle      \* when the task last became idle

taskVars == <<now, phase, origin, served, serving, idle>>

Init ==
    /\ now = 0 /\ phase = "new" /\ origin = 0
    /\ served = 0 /\ serving = FALSE /\ idle = 0

Advance ==
    /\ now < MaxTime
    /\ now' = now + 1
    /\ UNCHANGED <<phase, origin, served, serving, idle>>

Begin ==
    /\ phase = "new"
    /\ phase' = "running"
    /\ origin' = now
    /\ UNCHANGED <<now, served, serving, idle>>

Serve ==
    /\ phase = "running" /\ ~serving
    /\ \E k \in 1..MaxTime :
          LET point == origin + k * Period IN
          /\ idle < point /\ point <= idle + Period
          /\ point <= now
          /\ served' = point
    /\ serving' = TRUE
    /\ UNCHANGED <<now, phase, origin, idle>>

\* The task becomes idle, after a step or for the first time.
BecomeIdle ==
    /\ phase = "running" /\ (serving \/ served = 0)
    /\ serving' = FALSE
    /\ idle' = now
    /\ UNCHANGED <<now, phase, origin, served>>

\* The task ends; it serves nothing more.
End ==
    /\ phase = "running"
    /\ phase' = "ended"
    /\ serving' = FALSE
    /\ UNCHANGED <<now, origin, served, idle>>

Next == Advance \/ Begin \/ Serve \/ BecomeIdle \/ End

Spec == Init /\ [][Next]_taskVars
=============================================================================
