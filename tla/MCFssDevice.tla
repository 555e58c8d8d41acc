------------------------------ MODULE MCFssDevice ------------------------------
(***************************************************************************)
(* The device library alone: two pairs of angles, every call may fail.     *)
(***************************************************************************)
EXTENDS FssDevice

MCZeroAngles == "zero"
MCAngles     == {MCZeroAngles, "sun", "moon"}
===============================================================================
