------------------------------ MODULE MCTestCase ------------------------------
(***************************************************************************)
(* The hooks the documentation shows, a workspace around a comparison,     *)
(* with a custom hook in front, and a kernel that may fail with an errno   *)
(* value of either category, for the model-checking run of TestCase.       *)
(***************************************************************************)
EXTENDS TestCase

CONSTANTS sysBusy, genBusy, genAccess

UsualHooks == <<"custom", "setup_throwing", "compare">>

CategoryOf == [e \in {sysBusy, genBusy, genAccess} |->
                 IF e = sysBusy THEN "system" ELSE "generic"]
NumberOf == [e \in {sysBusy, genBusy, genAccess} |->
               IF e = genAccess THEN "access" ELSE "busy"]
=============================================================================
