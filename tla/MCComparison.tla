----------------------------- MODULE MCComparison -----------------------------
(***************************************************************************)
(* Paths for the model-checking runs of Comparison: a directory may hold a *)
(* directory, and what is beside it is visited after what is in it.        *)
(***************************************************************************)
EXTENDS Comparison

ThreePaths == {<<"a">>, <<"d">>, <<"d", "x">>}
=============================================================================
