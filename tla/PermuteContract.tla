--------------------------- MODULE PermuteContract ---------------------------
(***************************************************************************)
(* What a caller of parameter_permuter::operator() is promised: each row   *)
(* is run once, at most Width of them at a time, and is left with one      *)
(* outcome; the call returns when all rows have theirs, or the process     *)
(* ends before.  How hooks, kernels and exceptions make an outcome is not  *)
(* said here.                                                              *)
(***************************************************************************)
EXTENDS Naturals, FiniteSets

CONSTANTS NRows, Values, Errors, Codes, Verdicts, Unset, Width

VARIABLES
    status,   \* of each row: todo, running, settled
    out,      \* the outcome of each row
    phase     \* of the call: running, returned, dead

vars == <<status, out, phase>>
Rows == 0 .. NRows - 1

Init ==
    /\ status = [r \in Rows |-> "todo"]
    /\ out    = [r \in Rows |-> Unset]
    /\ phase  = "running"

Busy == {r \in Rows : status[r] = "running"}

Start(r) ==
    /\ phase = "running" /\ status[r] = "todo"
    /\ Cardinality(Busy) < Width
    /\ status' = [status EXCEPT ![r] = "running"]
    /\ UNCHANGED <<out, phase>>

Settle(r) ==
    /\ phase = "running" /\ status[r] = "running"
    /\ status' = [status EXCEPT ![r] = "settled"]
    /\ \E v \in Values \cup Errors \cup Codes \cup Verdicts :
         out' = [out EXCEPT ![r] = v]
    /\ UNCHANGED phase

Return ==
    /\ phase = "running"
    /\ \A r \in Rows : status[r] = "settled"
    /\ phase' = "returned"
    /\ UNCHANGED <<status, out>>

Die == phase = "running" /\ phase' = "dead" /\ UNCHANGED <<status, out>>

Next == (\E r \in Rows : Start(r) \/ Settle(r)) \/ Return \/ Die

Spec == Init /\ [][Next]_vars
=============================================================================
