---------------------------- MODULE MCChildProcess ----------------------------
(***************************************************************************)
(* Two objects for the model-checking runs of ChildProcess: the child of   *)
(* one reads its input to the end, that of the other has our stderr.       *)
(***************************************************************************)
EXTENDS ChildProcess

CONSTANTS o1, o2

OneParentErr == [o \in {o1, o2} |-> o = o2]
=============================================================================
