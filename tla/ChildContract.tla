---------------------------- MODULE ChildContract ----------------------------
(***************************************************************************)
(* What a user of child_process::child_process is promised, on POSIX and   *)
(* on Windows: an object has one child or its launch has failed; a wait    *)
(* without a deadline is over, and the destructor goes on to close the     *)
(* handles, only when that child has exited.  Handles, pids and clocks are *)
(* not said here.                                                          *)
(***************************************************************************)
CONSTANT Objects

VARIABLES
    object,     \* launching, failed, live, waiting, waiting_until, ending,
                \* closing, gone
    child,      \* none, running, exited
    disturbed   \* the objects whose waits something else may end: a stop of
                \* the child, a signal, or a handle closed by another

vars == <<object, child, disturbed>>

Init ==
    /\ object = [o \in Objects |-> "launching"]
    /\ child = [o \in Objects |-> "none"]
    /\ disturbed \subseteq Objects

Goes(o, from, to) ==
    /\ object[o] = from
    /\ object' = [object EXCEPT ![o] = to]
    /\ UNCHANGED <<child, disturbed>>

Spawn(o) ==
    /\ object[o] = "launching" /\ child[o] = "none"
    /\ child' = [child EXCEPT ![o] = "running"]
    /\ UNCHANGED <<object, disturbed>>

Exit(o) ==
    /\ child[o] = "running"
    /\ child' = [child EXCEPT ![o] = "exited"]
    /\ UNCHANGED <<object, disturbed>>

Launched(o)     == child[o] # "none" /\ Goes(o, "launching", "live")
LaunchFails(o)  == child[o] = "none" /\ Goes(o, "launching", "failed")

Wait(o)         == Goes(o, "live", "waiting")
WaitUntil(o)    == Goes(o, "live", "waiting_until")
Destroy(o)      == Goes(o, "live", "ending")

\* What may end a wait.
Over(o)         == child[o] = "exited" \/ o \in disturbed

Waited(o)       == Over(o) /\ Goes(o, "waiting", "live")
WaitedUntil(o)  == Goes(o, "waiting_until", "live")
BeginsToClose(o) == Over(o) /\ Goes(o, "ending", "closing")
Destroyed(o)    == Goes(o, "closing", "gone")

\* From here on the waits of more objects may be ended so.
Disturb ==
    /\ disturbed \subseteq disturbed' /\ disturbed' \subseteq Objects
    /\ UNCHANGED <<object, child>>

Next ==
    \/ Disturb
    \/ \E o \in Objects :
         \/ Spawn(o) \/ Exit(o) \/ Launched(o) \/ LaunchFails(o)
         \/ Wait(o) \/ WaitUntil(o) \/ Waited(o) \/ WaitedUntil(o)
         \/ Destroy(o) \/ BeginsToClose(o) \/ Destroyed(o)

Spec == Init /\ [][Next]_vars
=============================================================================
