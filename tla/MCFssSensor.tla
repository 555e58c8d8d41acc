------------------------------ MODULE MCFssSensor ------------------------------
(***************************************************************************)
(* Two positions of the sun that differ in every value.  What zeroed       *)
(* memory reads, called valid, is neither of them.                         *)
(***************************************************************************)
EXTENDS FssSensor

MCValues     == {"zero", "sun"}
MCZeroAngles == <<"zero", "zero">>
MCAngles     == MCValues \X MCValues

MCPositions == {[valid |-> TRUE,  alpha |-> "sun",  beta |-> "sun"],
                [valid |-> FALSE, alpha |-> "zero", beta |-> "zero"]}

MCProviders   == {"42", "shmem"}
MCSimCommands == {"ENABLE", "DISABLE", "STOP"}
===============================================================================
