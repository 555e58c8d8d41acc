------------------------------- MODULE FssSystem -------------------------------
(***************************************************************************)
(* The flight software with its sensor: the cFS application (FssApp), the  *)
(* device library it calls (FssDevice) and the simulated sensor at the     *)
(* other end of the SPI bus (FssSim).  The library runs in the thread of   *)
(* the application, inside GENERIC_FSS_ReportDeviceTelemetry; the sensor   *)
(* and the environment of each act at any point of the call.               *)
(*                                                                         *)
(* FssApp describes the call as one step that keeps the driver's promise:  *)
(* AppSpec says that this system, sensor and bus faults included, is one   *)
(* of the behaviours FssApp allows.                                        *)
(***************************************************************************)
EXTENDS FssHk, FssWire, Sequences

CONSTANTS PipeDepth, Messages, Faults, SpiFaults, Truths, SimCommands

VARIABLES
    pc, RunStatus, esRequest, subscribed, pipe, msg, hk, sent,  \* the application
    spi, devicePkt,                                 \* the application and the library
    step, status, chip, mosi, miso,                             \* the library
    simEnabled, queued, spiOut, simState, truth, computed,      \* the sensor
    callTruths,     \* history: the truths there have been since the call began
    kept            \* history: its request met a disabled sensor that kept a frame

App    == INSTANCE FssApp
Driver == INSTANCE FssDevice WITH data <- devicePkt
Sim    == INSTANCE FssSim

\* Nothing but a failed transfer tells the driver that the sensor is gone.
ASSUME TruthsAssumption      == Truths \subseteq Readings
ASSUME SimCommandsAssumption == SimCommands \subseteq Sim!AllCommands
ASSUME StopAssumption == "STOP" \in SimCommands => "spi_transaction" \in SpiFaults

appOnly  == <<pc, RunStatus, esRequest, subscribed, pipe, msg, hk, sent>>
appVars  == <<appOnly, spi, devicePkt>>
callVars == <<step, status, chip, mosi, miso>>
simVars  == <<simEnabled, queued, spiOut, simState, truth, computed>>
history  == <<callTruths, kept>>
vars     == <<appVars, callVars, simVars, history>>

Init ==
    /\ App!Init
    /\ step = "Idle" /\ status = "OS_SUCCESS" /\ chip = "unselected"
    /\ mosi = Empty /\ miso = Empty
    /\ Sim!Init
    /\ callTruths = {}
    /\ kept = FALSE
-------------------------------------------------------------------------------
\* What the application does without the driver.

DataRequested ==
    /\ pc = "Process"
    /\ msg.MsgId = "REQ_HK_MID"
    /\ msg.code = REQ_DATA_TLM

DisabledDataRequest ==
    /\ hk.DeviceEnabled # DEVICE_ENABLED
    /\ App!ReportDeviceTelemetry

Application ==
    /\ \/ App!AppInit
       \/ App!RunLoop
       \/ App!ReceiveBuffer
       \/ App!ProcessGroundCommand
       \/ App!ReportHousekeeping
       \/ App!BadRequestCode
       \/ DisabledDataRequest
       \/ App!Exit
    /\ UNCHANGED <<callVars, simVars, history>>

\* Mutant: the driver is called whether the device is enabled or not.
BeginRequest_Unchecked ==
    /\ DataRequested
    /\ Driver!Call
    /\ callTruths' = {truth}
    /\ UNCHANGED <<appOnly, simVars, kept>>

\* The application calls the driver.
BeginRequest ==
    /\ DataRequested
    /\ hk.DeviceEnabled = DEVICE_ENABLED
    /\ Driver!Call
    /\ callTruths' = {truth}
    /\ UNCHANGED <<appOnly, simVars, kept>>
-------------------------------------------------------------------------------
\* The driver, up to the point where it returns.

DriverAlone ==
    /\ \/ Driver!CmdSelect
       \/ Driver!CmdUnselect
       \/ Driver!ReadSelect
       \/ Driver!ReadUnselect
    /\ UNCHANGED <<appOnly, simVars, history>>

SendRequest ==
    /\ Sim!SpiWrite(Request)
    /\ Driver!CmdTransfer
    /\ kept' = (computed' = Zeros /\ queued' # Zeros)
    /\ UNCHANGED <<appOnly, callTruths>>

ReadAnswer ==
    /\ \E out \in Driver!UninitialisedBuffer : Sim!SpiWrite(out) /\ mosi' = out
    /\ Driver!ReadTransfer(spiOut')
    /\ UNCHANGED <<appOnly, history>>

\* A transfer that fails may have reached the sensor or not.
LoseTransfer ==
    /\ Driver!TransferFails
    /\ \/ UNCHANGED simVars
       \/ step = "CmdTransfer"  /\ Sim!SpiWrite(Request)
       \/ step = "ReadTransfer" /\ Sim!SpiWrite(Other(DataSize))
    /\ UNCHANGED <<appOnly, history>>
-------------------------------------------------------------------------------
\* The driver returns and GENERIC_FSS_ReportDeviceTelemetry goes on from there.

\* Mutant: the data are published whatever the status of the request.
Report_Anyway ==
    /\ hk' = IF status = "OS_SUCCESS"
             THEN [hk EXCEPT !.DeviceCount = Incremented(@)]
             ELSE [hk EXCEPT !.DeviceErrorCount = Incremented(@)]
    /\ sent' = "data"

Report ==
    IF status = "OS_SUCCESS"
    THEN /\ hk' = [hk EXCEPT !.DeviceCount = Incremented(@)]
         /\ sent' = "data"
    ELSE /\ hk' = [hk EXCEPT !.DeviceErrorCount = Incremented(@)]
         /\ sent' = "none"

EndRequest ==
    /\ Driver!Return
    /\ Report
    /\ pc' = "RunLoop"
    /\ callTruths' = {}
    /\ kept' = FALSE
    /\ UNCHANGED <<RunStatus, esRequest, subscribed, pipe, msg, simVars>>
-------------------------------------------------------------------------------
\* The environment of the application, and of the sensor.

AppEnvironment ==
    /\ App!Environment
    /\ UNCHANGED <<callVars, simVars, history>>

SimEnvironment ==
    /\ Sim!Background
    /\ callTruths' = IF step = "Idle" THEN {} ELSE callTruths \cup {truth'}
    /\ UNCHANGED <<appVars, callVars, kept>>

DeviceRequest ==
    BeginRequest \/ DriverAlone \/ SendRequest \/ ReadAnswer
        \/ LoseTransfer \/ EndRequest

AppThread == Application \/ DeviceRequest

Next == AppThread \/ AppEnvironment \/ SimEnvironment

\* Only the thread of the application is sure to be scheduled.
Spec == Init /\ [][Next]_vars /\ WF_vars(AppThread)
-------------------------------------------------------------------------------
(***************************************************************************)
(* The application with its driver and sensor behaves as FssApp says: the  *)
(* request looks atomic, changes the device packet only on success, and    *)
(* ends, so that the messages behind it are handled and an exit honoured.  *)
(***************************************************************************)
AppSpec == App!Spec

(***************************************************************************)
(* While the driver is at work the interface is open and said to be so:    *)
(* no command, exit or failure closes the device under a request.          *)
(***************************************************************************)
OpenThroughoutRequest ==
    step # "Idle" => /\ DataRequested
                     /\ spi = "open"
                     /\ hk.DeviceEnabled = DEVICE_ENABLED

(***************************************************************************)
(* A request that succeeds leaves nothing behind on the bus: the sensor    *)
(* has no answer queued that the next request could take for its own.      *)
(***************************************************************************)
SuccessDrainsSensor ==
    step = "Return" /\ status = "OS_SUCCESS" => queued = Empty /\ chip = "unselected"

(***************************************************************************)
(* A reading that the driver accepts was true at some moment of the very   *)
(* request it answers, even after requests that failed half way and left   *)
(* their answer in the sensor, and whatever commands the sensor gets.  The *)
(* one exception is a request that meets a disabled sensor which still     *)
(* holds the frame of a failed one (the finding of FssSim).                *)
(***************************************************************************)
AcceptedIsCurrent ==
    step = "Return" /\ status = "OS_SUCCESS" /\ Driver!Verified(miso) /\ ~kept =>
        miso.reading \in callTruths

(***************************************************************************)
(* generic_fss_ast_test.py, "Hardware failure": "Disable sim and confirm   *)
(* device error counts increase".  A disabled sensor answers zeros, which  *)
(* are no frame; the request that gets them should count a device error.   *)
(***************************************************************************)
DisabledSensorCounted ==
    [][ step = "Return" /\ step' = "Idle" /\ miso = Zeros =>
            Ticks(hk.DeviceErrorCount, hk'.DeviceErrorCount) ]_vars
===============================================================================
