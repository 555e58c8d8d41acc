-------------------------------- MODULE MCFssSim --------------------------------
(***************************************************************************)
(* The simulated sensor alone, with the sun in two places and out of view. *)
(***************************************************************************)
EXTENDS FssSim

MCZeroAngles == "zero"
MCAngles     == {MCZeroAngles, "sun", "sun2"}

MCTruths == {[angles |-> "sun",  ErrorCode |-> 0],
             [angles |-> "sun2", ErrorCode |-> 0],
             [angles |-> "zero", ErrorCode |-> 1]}

MCSimCommands == {"ENABLE", "DISABLE", "STOP"}
===============================================================================
