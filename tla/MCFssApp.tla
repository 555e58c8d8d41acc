------------------------------- MODULE MCFssApp -------------------------------
(***************************************************************************)
(* The application on a small instance: one message of every kind that a   *)
(* handler tells apart, and every external call able to fail.              *)
(***************************************************************************)
EXTENDS FssApp

Message(mid, code, wellSized) ==
    [MsgId |-> mid, code |-> code, wellSized |-> wellSized]

UnknownCode == 4

MCMessages ==
    {Message("CMD_MID", code, TRUE) : code \in CommandCodes \cup {UnknownCode}}
        \cup {Message("CMD_MID", ENABLE_CC, FALSE)}
        \cup {Message("REQ_HK_MID", code, TRUE) :
                code \in RequestCodes \cup {UnknownCode}}

MCAllFaults   == Services
MCZeroAngles  == "zero"
MCAngles      == {MCZeroAngles, "sun"}
===============================================================================
