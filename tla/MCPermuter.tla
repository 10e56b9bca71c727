------------------------------ MODULE MCPermuter ------------------------------
(***************************************************************************)
(* The list of hooks for the model-checking run of Permuter.               *)
(***************************************************************************)
EXTENDS Permuter

\* The list the documentation shows: a workspace around a comparison, here
\* with a custom hook in front.
UsualHooks == <<"custom", "setup_throwing", "compare">>
=============================================================================
