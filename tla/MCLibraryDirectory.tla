-------------------------- MODULE MCLibraryDirectory --------------------------
(***************************************************************************)
(* A starting path three levels deep for the model-checking run of         *)
(* LibraryDirectory, as in /home/x of a root with no name to speak of.     *)
(***************************************************************************)
EXTENDS LibraryDirectory, Sequences

CONSTANTS boosted, homed, missing

Names == [l \in 0 .. 2 |-> <<7, 5, 1>>[l + 1]]

Empty == [plain |-> "nothing", boost |-> "nothing"]

\* One product has a directory without tests that hides another, and is found
\* a level above; one is not there at all.
Tree == [p \in {boosted, homed, missing} |-> [l \in 0 .. 2 |->
           IF p = boosted /\ l = 0 THEN [plain |-> "bare", boost |-> "tests"]
           ELSE IF p = boosted THEN [plain |-> "nothing", boost |-> "tests"]
           ELSE Empty]]
=============================================================================
