---------------------------- MODULE MCChildWindows ----------------------------
(***************************************************************************)
(* Two objects for the model-checking runs of ChildWindows: one has a pipe *)
(* for its child's stderr, the other's child has our stderr.               *)
(***************************************************************************)
EXTENDS ChildWindows

CONSTANTS o1, o2

OneParentErr == [o \in Objects |-> o = o2]
=============================================================================
