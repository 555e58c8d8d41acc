------------------------------- MODULE FssDevice -------------------------------
(***************************************************************************)
(* The device library (fsw/shared/generic_fss_device.c), which the cFS     *)
(* application, the F' component and the checkout program call to read the *)
(* sensor.  GENERIC_FSS_RequestData is two exchanges on the SPI bus: the   *)
(* request is sent (GENERIC_FSS_CommandDevice), then the answer is clocked *)
(* in (GENERIC_FSS_ReadData).  Each exchange selects the chip, transfers   *)
(* and unselects the chip, and stops at the first of the three that fails. *)
(*                                                                         *)
(* The caller owns the SPI device and may open and close it between calls; *)
(* the F' component calls the library with the device closed as well.      *)
(* Here the sensor may answer anything; FssSystem connects the simulator.  *)
(***************************************************************************)
EXTENDS FssWire, Integers

CONSTANT SpiFaults      \* the hardware library calls that may fail

ASSUME SpiFaultsAssumption == SpiFaults \subseteq SpiCalls

VARIABLES
    step,       \* where the call is; "Idle" when there is none
    status,     \* what it is about to return
    chip,       \* the chip select line
    mosi,       \* write_data of the last transfer of the call
    miso,       \* read_data of RequestData
    data,       \* the caller's GENERIC_FSS_Device_Data_tlm_t
    spi         \* the caller's SPI device

callVars == <<step, status, chip, mosi, miso>>
vars     == <<callVars, data, spi>>

Steps == {"Idle", "CmdSelect", "CmdTransfer", "CmdUnselect",
          "ReadSelect", "ReadTransfer", "ReadUnselect", "Return"}

\* write_data is never initialised before the answer is clocked in: the slave
\* is sent whatever the stack holds.
UninitialisedBuffer == {Idle(DataSize), Zeros, Other(DataSize)}

Init ==
    /\ step   = "Idle"
    /\ status = "OS_SUCCESS"
    /\ chip   = "unselected"
    /\ mosi   = Empty
    /\ miso   = Empty
    /\ data   = ZeroReading
    /\ spi    = "closed"
-------------------------------------------------------------------------------
\* GENERIC_FSS_RequestData is called.
Call ==
    /\ step = "Idle"
    /\ step' = "CmdSelect"
    /\ UNCHANGED <<status, chip, mosi, miso, data, spi>>

\* Mutant: a request that fails is tried again from the start.
Fails_Retries(service) ==
    /\ service \in SpiFaults \/ spi = "closed"
    /\ step' = "CmdSelect"
    /\ UNCHANGED status

\* A call of the hardware library works, or fails and ends the request; on a
\* closed device it always fails.
Works(next) == spi = "open" /\ step' = next /\ UNCHANGED status

Fails(service) ==
    /\ service \in SpiFaults \/ spi = "closed"
    /\ step'   = "Return"
    /\ status' = "OS_ERROR"

Select(here, next) ==
    /\ step = here
    /\ \/ Works(next) /\ chip' = "selected"
       \/ Fails("spi_select_chip") /\ UNCHANGED chip
    /\ UNCHANGED <<mosi, miso, data, spi>>

\* Mutant: the result of spi_unselect_chip is not looked at.
Unselect_Unchecked(here, next) ==
    /\ step = here
    /\ \/ Works(next) /\ chip' = "unselected"
       \/ "spi_unselect_chip" \in SpiFaults /\ Works(next) /\ UNCHANGED chip
    /\ UNCHANGED <<mosi, miso, data, spi>>

Unselect(here, next) ==
    /\ step = here
    /\ \/ Works(next) /\ chip' = "unselected"
       \/ Fails("spi_unselect_chip") /\ UNCHANGED chip
    /\ UNCHANGED <<mosi, miso, data, spi>>

CmdSelect    == Select("CmdSelect", "CmdTransfer")
CmdUnselect  == Unselect("CmdUnselect", "ReadSelect")
ReadSelect   == Select("ReadSelect", "ReadTransfer")
ReadUnselect == Unselect("ReadUnselect", "Return")

\* The request goes out; what comes back meanwhile is not kept.
CmdTransfer ==
    /\ step = "CmdTransfer"
    /\ Works("CmdUnselect")
    /\ mosi' = Request
    /\ UNCHANGED <<chip, miso, data, spi>>

\* The answer comes in while the uninitialised buffer goes out.
ReadTransfer(answer) ==
    /\ step = "ReadTransfer"
    /\ Works("ReadUnselect")
    /\ mosi' \in UninitialisedBuffer
    /\ miso' = answer
    /\ UNCHANGED <<chip, data, spi>>

\* A failed transfer leaves the chip selected: nothing unselects it.
TransferFails ==
    /\ step \in {"CmdTransfer", "ReadTransfer"}
    /\ Fails("spi_transaction")
    /\ UNCHANGED <<chip, mosi, miso, data, spi>>

\* Mutants: the checks on header, code, length and checksum are forgotten; the
\* buffer is copied as it is.
NewData_Unverified ==
    IF status = "OS_SUCCESS" THEN miso.reading ELSE data
NewData_WholeBuffer ==
    IF status = "OS_SUCCESS" /\ Verified(miso) THEN miso ELSE data

\* What the call leaves in the caller's data: the reading of a verified frame.
\* Any other answer changes nothing, and the call still reports success.
NewData ==
    IF status = "OS_SUCCESS" /\ Verified(miso) THEN miso.reading ELSE data

Return ==
    /\ step = "Return"
    /\ data'   = NewData
    /\ step'   = "Idle"
    /\ status' = "OS_SUCCESS"
    /\ mosi'   = Empty
    /\ miso'   = Empty
    /\ UNCHANGED <<chip, spi>>

\* What the driver does by itself, given the sensor's answer.
RequestData(answer) ==
    \/ CmdSelect \/ CmdTransfer \/ CmdUnselect
    \/ ReadSelect \/ ReadTransfer(answer) \/ ReadUnselect
    \/ TransferFails
    \/ Return
-------------------------------------------------------------------------------
\* The caller, between two calls.
OpenDevice ==
    /\ step = "Idle"
    /\ spi = "closed"
    /\ spi' = "open"
    /\ UNCHANGED <<callVars, data>>

CloseDevice ==
    /\ step = "Idle"
    /\ spi = "open"
    /\ spi' = "closed"
    /\ UNCHANGED <<callVars, data>>

\* What a transfer of DataSize bytes can bring: any frame, or no frame.
Answers ==
    {Frame(r) : r \in Readings} \cup {Idle(DataSize), Zeros, Other(DataSize)}

Library == \E answer \in Answers : RequestData(answer)

Next == Call \/ OpenDevice \/ CloseDevice \/ Library

\* The calling thread is scheduled; the caller need not call.
Spec == Init /\ [][Next]_vars /\ WF_vars(Library)
-------------------------------------------------------------------------------
TypeOK ==
    /\ step \in Steps
    /\ status \in {"OS_SUCCESS", "OS_ERROR"}
    /\ chip \in {"selected", "unselected"}
    /\ mosi \in Bytes
    /\ miso \in Bytes
    /\ data \in Readings
    /\ spi \in {"open", "closed"}

(***************************************************************************)
(* A request that reports success went through both exchanges, has the     *)
(* answer, and has left the bus as a first request found it.  (One that    *)
(* reports an error may leave the chip selected, for the next to find.)    *)
(***************************************************************************)
SuccessCompletes ==
    step = "Return" /\ status = "OS_SUCCESS" =>
        /\ chip = "unselected"
        /\ miso.size = DataSize
        /\ spi = "open"

(***************************************************************************)
(* The caller's data change only when a request that reports success found *)
(* a verified frame, and then to what the frame carries: an answer that is *)
(* not a frame, or a bus that fails half way, never shows in the data.     *)
(***************************************************************************)
DataFromVerifiedFrame ==
    [][ data' # data =>
          /\ step = "Return" /\ status = "OS_SUCCESS"
          /\ \E r \in Readings : miso = Frame(r) /\ data' = r ]_vars

\* However the bus fails, a request ends.
RequestEnds == (step # "Idle") ~> (step = "Idle")
===============================================================================
