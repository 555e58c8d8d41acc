-------------------------------- MODULE FssApp --------------------------------
(***************************************************************************)
(* The cFS application (fsw/cfs/src/generic_fss_app.c).  It has one        *)
(* thread: initialise, then loop on Executive Services' permission, pend   *)
(* on the command pipe and handle one message, then disable the device and *)
(* exit.  The Software Bus fills the pipe and Executive Services may ask   *)
(* for an exit at any point of that thread.                                *)
(*                                                                         *)
(* Here GENERIC_FSS_RequestData is one step and keeps its promise only: it *)
(* fails and leaves the device packet alone, or succeeds.  FssSystem puts  *)
(* the driver and the sensor in its place and is shown to implement this.  *)
(***************************************************************************)
EXTENDS FssHk, FssWire, Sequences

CONSTANTS PipeDepth,    \* GENERIC_FSS_PIPE_DEPTH
          Messages,     \* the messages other applications and the ground may send
          Faults        \* the external calls that may fail

MsgIds == {"CMD_MID", "REQ_HK_MID"}

CommandCodes == {NOOP_CC, RESET_COUNTERS_CC, ENABLE_CC, DISABLE_CC}
RequestCodes == {REQ_HK_TLM, REQ_DATA_TLM}

\* wellSized: the packet has the length of GENERIC_FSS_NoArgs_cmd_t.
MessageSpace == [MsgId : MsgIds, code : Nat, wellSized : BOOLEAN]

Services == {"CFE_EVS_Register", "CFE_SB_CreatePipe", "CFE_SB_Subscribe",
             "CFE_EVS_SendEvent", "CFE_SB_ReceiveBuffer",
             "spi_init_dev", "spi_close_device"}

ASSUME PipeDepthAssumption == PipeDepth \in Nat \ {0}
ASSUME MessagesAssumption  == Messages \subseteq MessageSpace
ASSUME FaultsAssumption    == Faults \subseteq Services

VARIABLES
    pc,             \* where the thread is
    RunStatus,      \* AppData.RunStatus
    esRequest,      \* what Executive Services wants of the app
    subscribed,     \* the message ids the pipe is subscribed to
    pipe,           \* the command pipe
    msg,            \* AppData.MsgPtr: the message being handled
    hk,             \* AppData.HkTelemetryPkt
    spi,            \* the SPI device AppData.Generic_fssSpi names
    devicePkt,      \* AppData.DevicePkt
    sent            \* what the last handler transmitted

loopVars   == <<RunStatus, esRequest, subscribed, pipe, msg>>
deviceVars == <<spi, devicePkt>>
vars       == <<pc, loopVars, hk, deviceVars, sent>>

Locations == {"Register", "CreatePipe", "SubscribeCmd", "SubscribeReqHk",
              "FinishInit", "RunLoop", "Pend", "Process", "Exit", "Done"}

NoMessage == [MsgId |-> "CMD_MID", code |-> NOOP_CC, wellSized |-> FALSE]

Init ==
    /\ pc         = "Register"
    /\ RunStatus  = "APP_RUN"
    /\ esRequest  = "APP_RUN"
    /\ subscribed = {}
    /\ pipe       = << >>
    /\ msg        = NoMessage
    /\ hk         = ZeroHk
    /\ spi        = "closed"
    /\ devicePkt  = ZeroReading
    /\ sent       = "none"
-------------------------------------------------------------------------------
\* GENERIC_FSS_AppInit.  Each call that fails ends it and sets RunStatus.

InitCall(here, next, service) ==
    /\ pc = here
    /\ \/ /\ pc' = next
          /\ UNCHANGED RunStatus
       \/ /\ service \in Faults
          /\ pc' = "RunLoop"
          /\ RunStatus' = "APP_ERROR"
    /\ UNCHANGED <<esRequest, pipe, msg, deviceVars, sent>>

\* A failed subscription subscribes to nothing.
Subscribe(here, next, mid) ==
    /\ InitCall(here, next, "CFE_SB_Subscribe")
    /\ subscribed' = IF pc' = next THEN subscribed \cup {mid} ELSE subscribed
    /\ UNCHANGED hk

Register       == /\ InitCall("Register", "CreatePipe", "CFE_EVS_Register")
                  /\ UNCHANGED <<subscribed, hk>>
CreatePipe     == /\ InitCall("CreatePipe", "SubscribeCmd", "CFE_SB_CreatePipe")
                  /\ UNCHANGED <<subscribed, hk>>
SubscribeCmd   == Subscribe("SubscribeCmd", "SubscribeReqHk", "CMD_MID")
SubscribeReqHk == Subscribe("SubscribeReqHk", "FinishInit", "REQ_HK_MID")

\* The counters are reset before the start-up event, whose failure ends the app.
FinishInit ==
    /\ InitCall("FinishInit", "RunLoop", "CFE_EVS_SendEvent")
    /\ hk' = [ResetCounters(hk) EXCEPT !.DeviceEnabled = DEVICE_DISABLED]
    /\ UNCHANGED subscribed
-------------------------------------------------------------------------------
\* The main loop of FSS_AppMain.

\* Mutant: a request of Executive Services does not reach the run status.
RunLoop_IgnoresRequest ==
    /\ pc = "RunLoop"
    /\ pc' = IF RunStatus = "APP_RUN" THEN "Pend" ELSE "Exit"
    /\ UNCHANGED <<RunStatus, esRequest, subscribed, pipe, msg, hk, deviceVars, sent>>

\* CFE_ES_RunLoop is true while neither side wants the app to end; a request
\* of Executive Services becomes the app's run status.
RunLoop ==
    /\ pc = "RunLoop"
    /\ IF RunStatus = "APP_RUN" /\ esRequest = "APP_RUN"
       THEN pc' = "Pend" /\ UNCHANGED RunStatus
       ELSE /\ pc' = "Exit"
            /\ RunStatus' = IF RunStatus = "APP_RUN" THEN esRequest ELSE RunStatus
    /\ UNCHANGED <<esRequest, subscribed, pipe, msg, hk, deviceVars, sent>>

\* CFE_SB_ReceiveBuffer, pending forever: it returns with a message or fails.
ReceiveBuffer ==
    /\ pc = "Pend"
    /\ \/ /\ pipe # << >>
          /\ msg'  = Head(pipe)
          /\ pipe' = Tail(pipe)
          /\ pc'   = "Process"
          /\ UNCHANGED RunStatus
       \/ /\ "CFE_SB_ReceiveBuffer" \in Faults
          /\ RunStatus' = "APP_ERROR"
          /\ pc' = "RunLoop"
          /\ UNCHANGED <<pipe, msg>>
    /\ UNCHANGED <<esRequest, subscribed, hk, deviceVars, sent>>
-------------------------------------------------------------------------------
\* The handlers.  Each runs to its end and gives control back to the loop.

Handle(mid, codes) ==
    /\ pc = "Process"
    /\ msg.MsgId = mid
    /\ msg.code \in codes
    /\ pc' = "RunLoop"
    /\ UNCHANGED loopVars

\* A ground command whose length GENERIC_FSS_VerifyCmdLength accepts.
GroundCommand(code) == Handle("CMD_MID", {code}) /\ msg.wellSized

Transmits(packet) == sent' = packet

\* Mutants: a failed open is taken for a success; a refused command is counted
\* against the device.
SpiInitFails_Enables ==
    hk' = [hk EXCEPT !.CommandCount     = Incremented(@),
                     !.DeviceErrorCount = Incremented(@),
                     !.DeviceEnabled    = DEVICE_ENABLED]
RejectCommand_CountsDevice ==
    hk' = [hk EXCEPT !.CommandErrorCount = Incremented(@),
                     !.DeviceErrorCount  = Incremented(@)]

RejectCommand == hk' = [hk EXCEPT !.CommandErrorCount = Incremented(@)]

SpiInitSucceeds ==
    hk' = [hk EXCEPT !.CommandCount  = Incremented(@),
                     !.DeviceCount   = Incremented(@),
                     !.DeviceEnabled = DEVICE_ENABLED]

SpiInitFails ==
    hk' = [hk EXCEPT !.CommandCount     = Incremented(@),
                     !.DeviceErrorCount = Incremented(@)]

SpiCloseSucceeds ==
    hk' = [hk EXCEPT !.CommandCount  = Incremented(@),
                     !.DeviceCount   = Incremented(@),
                     !.DeviceEnabled = DEVICE_DISABLED]

SpiCloseFails ==
    hk' = [hk EXCEPT !.CommandCount     = Incremented(@),
                     !.DeviceErrorCount = Incremented(@)]

\* GENERIC_FSS_Enable.  A failed spi_init_dev leaves the device closed.
Enable ==
    /\ \/ /\ hk.DeviceEnabled = DEVICE_DISABLED
          /\ \/ spi' = "open" /\ SpiInitSucceeds
             \/ "spi_init_dev" \in Faults /\ SpiInitFails /\ UNCHANGED spi
       \/ /\ hk.DeviceEnabled # DEVICE_DISABLED
          /\ RejectCommand
          /\ UNCHANGED spi
    /\ UNCHANGED devicePkt

\* GENERIC_FSS_Disable.  A failed spi_close_device leaves the device open.
Disable ==
    /\ \/ /\ hk.DeviceEnabled = DEVICE_ENABLED
          /\ \/ spi' = "closed" /\ SpiCloseSucceeds
             \/ "spi_close_device" \in Faults /\ SpiCloseFails /\ UNCHANGED spi
       \/ /\ hk.DeviceEnabled # DEVICE_ENABLED
          /\ RejectCommand
          /\ UNCHANGED spi
    /\ UNCHANGED devicePkt

NoopCommand ==
    /\ GroundCommand(NOOP_CC)
    /\ hk' = [hk EXCEPT !.CommandCount = Incremented(@)]
    /\ UNCHANGED deviceVars
    /\ Transmits("none")

\* The command counter is incremented and then reset with the others.
ResetCommand ==
    /\ GroundCommand(RESET_COUNTERS_CC)
    /\ hk' = ResetCounters([hk EXCEPT !.CommandCount = Incremented(@)])
    /\ UNCHANGED deviceVars
    /\ Transmits("none")

EnableCommand ==
    /\ GroundCommand(ENABLE_CC)
    /\ Enable
    /\ Transmits("none")

DisableCommand ==
    /\ GroundCommand(DISABLE_CC)
    /\ Disable
    /\ Transmits("none")

BadLength ==
    /\ Handle("CMD_MID", CommandCodes)
    /\ ~msg.wellSized
    /\ RejectCommand
    /\ UNCHANGED deviceVars
    /\ Transmits("none")

\* An unknown code is counted before its length is looked at.
BadCommandCode ==
    /\ Handle("CMD_MID", Nat \ CommandCodes)
    /\ RejectCommand
    /\ UNCHANGED deviceVars
    /\ Transmits("none")

\* Telemetry requests are served whatever their length.
BadRequestCode ==
    /\ Handle("REQ_HK_MID", Nat \ RequestCodes)
    /\ RejectCommand
    /\ UNCHANGED deviceVars
    /\ Transmits("none")

\* Mutant: housekeeping is reported by an enabled component only.
ReportHousekeeping_WhenEnabled ==
    /\ Handle("REQ_HK_MID", {REQ_HK_TLM})
    /\ UNCHANGED <<hk, deviceVars>>
    /\ Transmits(IF hk.DeviceEnabled = DEVICE_ENABLED THEN "hk" ELSE "none")

ReportHousekeeping ==
    /\ Handle("REQ_HK_MID", {REQ_HK_TLM})
    /\ UNCHANGED <<hk, deviceVars>>
    /\ Transmits("hk")

\* Mutant: the device is asked without looking at DeviceEnabled.
ReportDeviceTelemetry_Unchecked ==
    /\ Handle("REQ_HK_MID", {REQ_DATA_TLM})
    /\ devicePkt' \in Readings
    /\ hk' = [hk EXCEPT !.DeviceCount = Incremented(@)]
    /\ Transmits("data")
    /\ UNCHANGED spi

\* Published only when the device is enabled and the driver reports success,
\* which it may do without having touched the packet.
ReportDeviceTelemetry ==
    /\ Handle("REQ_HK_MID", {REQ_DATA_TLM})
    /\ \/ /\ hk.DeviceEnabled = DEVICE_ENABLED
          /\ devicePkt' \in Readings
          /\ hk' = [hk EXCEPT !.DeviceCount = Incremented(@)]
          /\ Transmits("data")
       \/ /\ hk.DeviceEnabled = DEVICE_ENABLED
          /\ hk' = [hk EXCEPT !.DeviceErrorCount = Incremented(@)]
          /\ UNCHANGED devicePkt
          /\ Transmits("none")
       \/ /\ hk.DeviceEnabled # DEVICE_ENABLED
          /\ UNCHANGED <<hk, devicePkt>>
          /\ Transmits("none")
    /\ UNCHANGED spi

\* Mutant: the app exits without disabling the device.
Exit_WithoutDisable ==
    /\ pc = "Exit"
    /\ pc' = "Done"
    /\ UNCHANGED <<loopVars, hk, deviceVars, sent>>

\* After the loop the device is disabled as by a command, counters included.
Exit ==
    /\ pc = "Exit"
    /\ Disable
    /\ pc' = "Done"
    /\ UNCHANGED <<loopVars, sent>>
-------------------------------------------------------------------------------
\* The environment.

\* The Software Bus delivers what is subscribed to; a full pipe drops it.
Send(m) ==
    /\ pc # "Done"
    /\ m.MsgId \in subscribed
    /\ Len(pipe) < PipeDepth
    /\ pipe' = Append(pipe, m)
    /\ UNCHANGED <<pc, RunStatus, esRequest, subscribed, msg, hk, deviceVars, sent>>

RequestExit ==
    /\ pc # "Done"
    /\ esRequest = "APP_RUN"
    /\ esRequest' = "APP_EXIT"
    /\ UNCHANGED <<pc, RunStatus, subscribed, pipe, msg, hk, deviceVars, sent>>

Environment == (\E m \in Messages : Send(m)) \/ RequestExit

AppInit == Register \/ CreatePipe \/ SubscribeCmd \/ SubscribeReqHk \/ FinishInit

ProcessGroundCommand ==
    NoopCommand \/ ResetCommand \/ EnableCommand \/ DisableCommand
        \/ BadLength \/ BadCommandCode

ProcessTelemetryRequest ==
    ReportHousekeeping \/ ReportDeviceTelemetry \/ BadRequestCode

AppThread ==
    \/ AppInit
    \/ RunLoop
    \/ ReceiveBuffer
    \/ ProcessGroundCommand
    \/ ProcessTelemetryRequest
    \/ Exit

Next == AppThread \/ Environment

\* The operating system keeps scheduling the thread; nobody is obliged to
\* send a message or to ask for an exit.
Spec == Init /\ [][Next]_vars /\ WF_vars(AppThread)
-------------------------------------------------------------------------------
TypeOK ==
    /\ pc \in Locations
    /\ RunStatus \in {"APP_RUN", "APP_EXIT", "APP_ERROR"}
    /\ esRequest \in {"APP_RUN", "APP_EXIT"}
    /\ subscribed \subseteq MsgIds
    /\ pipe \in Seq(Messages)
    /\ msg \in Messages \cup {NoMessage}
    /\ hk \in HkPackets
    /\ spi \in {"open", "closed"}
    /\ devicePkt \in Readings
    /\ sent \in {"none", "hk", "data"}

(***************************************************************************)
(* Whatever fails, the ground is told the truth about the interface:       *)
(* DeviceEnabled says ENABLED exactly while the SPI device is open.        *)
(***************************************************************************)
HousekeepingTellsInterface ==
    (hk.DeviceEnabled = DEVICE_ENABLED) <=> (spi = "open")

\* The step that ends a handler, and the steps that zero the counters.
Serves == pc = "Process" /\ pc' = "RunLoop"

IsReset == /\ msg.MsgId = "CMD_MID"
           /\ msg.code = RESET_COUNTERS_CC
           /\ msg.wellSized

IsRequest == msg.MsgId = "REQ_HK_MID" /\ msg.code \in RequestCodes

Exits  == pc = "Exit" /\ pc' = "Done"
Zeroes == (pc = "FinishInit" /\ pc' # pc) \/ (Serves /\ IsReset)

(***************************************************************************)
(* "Disable component, which cleans up the interface, upon exit": however  *)
(* the app ends, in error, on request, or because it could not initialise, *)
(* and whatever failed before, it leaves the SPI device closed, unless     *)
(* closing it fails, which it counts.  After that it does nothing more.    *)
(***************************************************************************)
ReleasesInterface ==
    /\ pc # "Done" /\ pc' = "Done" =>
         \/ spi' = "closed"
         \/ /\ "spi_close_device" \in Faults
            /\ Ticks(hk.DeviceErrorCount, hk'.DeviceErrorCount)
    /\ pc = "Done" => UNCHANGED <<pc, spi, hk>>

ExitReleasesInterface == [][ReleasesInterface]_vars

(***************************************************************************)
(* Every message taken from the pipe moves exactly one of the two command  *)
(* counters, by one, except the telemetry requests (none) and the reset    *)
(* (both to zero).  Nothing moves them but the handlers, the end of        *)
(* initialisation and the disable at exit.                                 *)
(***************************************************************************)
CountedOnce ==
    \/ /\ Ticks(hk.CommandCount, hk'.CommandCount)
       /\ hk'.CommandErrorCount = hk.CommandErrorCount
    \/ /\ Ticks(hk.CommandErrorCount, hk'.CommandErrorCount)
       /\ hk'.CommandCount = hk.CommandCount

NotCounted == /\ hk'.CommandCount = hk.CommandCount
              /\ hk'.CommandErrorCount = hk.CommandErrorCount

MessageCounted ==
    IF Zeroes THEN hk'.CommandCount = 0 /\ hk'.CommandErrorCount = 0
    ELSE IF Exits \/ (Serves /\ ~IsRequest) THEN CountedOnce
    ELSE NotCounted

EveryMessageCountedOnce == [][MessageCounted]_vars

(***************************************************************************)
(* A message counted as an error has had no other effect: it neither       *)
(* opened nor closed the device, nor moved another counter, nor touched    *)
(* the device packet, nor made the app transmit.                           *)
(***************************************************************************)
ErrorInert ==
    hk'.CommandErrorCount # hk.CommandErrorCount /\ ~Zeroes =>
        /\ hk' = [hk EXCEPT !.CommandErrorCount = hk'.CommandErrorCount]
        /\ UNCHANGED deviceVars
        /\ sent' # sent => sent' = "none"

RejectedIsInert == [][ErrorInert]_vars

(***************************************************************************)
(* The device counters record what was done to the device: between resets  *)
(* DeviceCount moves exactly when the interface opened, closed, or gave    *)
(* data that were published, which needs an open interface; an error moves *)
(* DeviceErrorCount instead and changes neither interface nor packet.      *)
(***************************************************************************)
Published == Serves /\ sent' = "data"

ActivityCounted ==
    /\ Published => spi = "open" /\ spi' = "open"
    /\ devicePkt' # devicePkt => Published
    /\ ~Zeroes =>
         /\ hk'.DeviceCount # hk.DeviceCount <=> (spi' # spi \/ Published)
         /\ hk'.DeviceErrorCount # hk.DeviceErrorCount =>
                hk'.DeviceCount = hk.DeviceCount /\ ~Published

DeviceActivityCounted == [][ActivityCounted]_vars

(***************************************************************************)
(* An exit asked of the app is honoured unless the app is pending on an    *)
(* empty pipe (PEND_FOREVER): in every other state the app runs to its end,*)
(* whatever keeps arriving.                                                *)
(***************************************************************************)
ExitHonoured ==
    (esRequest = "APP_EXIT" /\ ~(pc = "Pend" /\ pipe = << >>)) ~> (pc = "Done")

(***************************************************************************)
(* A housekeeping request that reached the pipe is answered, however the   *)
(* messages around it fare, unless the app ends first.                     *)
(***************************************************************************)
HkRequested ==
    \E i \in DOMAIN pipe : pipe[i].MsgId = "REQ_HK_MID" /\ pipe[i].code = REQ_HK_TLM

HousekeepingAnswered ==
    (HkRequested /\ sent # "hk") ~> (sent = "hk" \/ pc = "Done")
===============================================================================
