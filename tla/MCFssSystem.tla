------------------------------ MODULE MCFssSystem ------------------------------
(***************************************************************************)
(* The application, the driver and the sensor together.  The messages are  *)
(* those that reach the device; the sun moves between two positions (the   *)
(* second one out of view), neither of which is what zeroed memory reads.  *)
(***************************************************************************)
EXTENDS FssSystem

Message(mid, code) == [MsgId |-> mid, code |-> code, wellSized |-> TRUE]

MCMessages == {Message("CMD_MID", ENABLE_CC),
               Message("CMD_MID", DISABLE_CC),
               Message("REQ_HK_MID", REQ_DATA_TLM)}

MCZeroAngles == "zero"
MCAngles     == {MCZeroAngles, "sun"}

MCTruths == {[angles |-> "sun",  ErrorCode |-> 0],
             [angles |-> "zero", ErrorCode |-> 1]}

MCNone == {}

\* A select that fails leaves the sensor as a transfer that fails before it
\* reaches it, and so does every transfer to a simulator that is gone.
MCSpiFaults     == {"spi_transaction", "spi_unselect_chip"}
MCEnableDisable == {"ENABLE", "DISABLE"}
===============================================================================
