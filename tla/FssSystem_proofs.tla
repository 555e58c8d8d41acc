---------------------------- MODULE FssSystem_proofs ----------------------------
(***************************************************************************)
(* Theorems about the application with its driver and its sensor, for      *)
(* every set of messages, faults and truths: the device is open under a    *)
(* request, a request that succeeds leaves nothing in the sensor, and what *)
(* the driver accepts was true during the request.                         *)
(***************************************************************************)
EXTENDS FssSystem, TLAPS

(***************************************************************************)
(* The interface.  The request begins because DeviceEnabled says ENABLED;  *)
(* that the device is then open is the invariant of FssApp again, and that *)
(* nothing closes it before the request ends is because the one thread is  *)
(* in the handler of the request.                                          *)
(***************************************************************************)
Initialising ==
    pc \in {"Register", "CreatePipe", "SubscribeCmd", "SubscribeReqHk", "FinishInit"}

Told ==
    /\ "DeviceEnabled" \in DOMAIN hk
    /\ hk.DeviceEnabled = DEVICE_ENABLED <=> spi = "open"
    /\ Initialising => spi = "closed"

InterfaceInv == Told /\ OpenThroughoutRequest

\* Both numbers of DeviceEnabled, by their names in the modules.
LEMMA SameCodes ==
    /\ DEVICE_ENABLED = 1 /\ App!DEVICE_ENABLED = 1 /\ App!DEVICE_DISABLED = 0
    /\ REQ_DATA_TLM = 1 /\ App!REQ_DATA_TLM = 1 /\ App!REQ_HK_TLM = 0
BY DEF DEVICE_ENABLED, App!DEVICE_ENABLED, App!DEVICE_DISABLED,
       REQ_DATA_TLM, App!REQ_DATA_TLM, App!REQ_HK_TLM

\* A packet of counters and the rest: counting leaves DeviceEnabled alone.
LEMMA CountingKeeps ==
    ASSUME "DeviceEnabled" \in DOMAIN hk
    PROVE  /\ App!RejectCommand \/ App!SpiInitFails \/ App!SpiCloseFails =>
                /\ "DeviceEnabled" \in DOMAIN hk'
                /\ hk'.DeviceEnabled = hk.DeviceEnabled
           /\ App!SpiInitSucceeds =>
                "DeviceEnabled" \in DOMAIN hk' /\ hk'.DeviceEnabled = 1
           /\ App!SpiCloseSucceeds =>
                "DeviceEnabled" \in DOMAIN hk' /\ hk'.DeviceEnabled = 0
BY SameCodes DEF App!RejectCommand, App!SpiInitFails, App!SpiCloseFails,
                 App!SpiInitSucceeds, App!SpiCloseSucceeds

\* Enable and Disable keep DeviceEnabled in step with the device.
LEMMA SwitchesTell ==
    ASSUME Told, App!Enable \/ App!Disable, ~Initialising'
    PROVE  Told'
BY CountingKeeps, SameCodes DEF Told, App!Enable, App!Disable

\* The steps that the application makes without its driver.
LEMMA ApplicationTells ==
    ASSUME Told, Application
    PROVE  Told'
<1> USE SameCodes DEF App!deviceVars, App!loopVars
<1>1. CASE App!Register \/ App!CreatePipe
  BY <1>1 DEF App!Register, App!CreatePipe, App!InitCall, Told, Initialising
<1>2. CASE App!SubscribeCmd \/ App!SubscribeReqHk
  BY <1>2 DEF App!SubscribeCmd, App!SubscribeReqHk, App!Subscribe, App!InitCall, Told,
              Initialising
<1>3. CASE App!FinishInit
  <2>1. spi' = "closed" /\ ~Initialising'
    BY <1>3 DEF App!FinishInit, App!InitCall, Told, Initialising
  <2>2. "DeviceEnabled" \in DOMAIN hk' /\ hk'.DeviceEnabled = 0
    BY <1>3 DEF App!FinishInit, App!ResetCounters, App!ZeroHk
  <2> QED
    BY <2>1, <2>2 DEF Told
<1>4. CASE App!RunLoop \/ App!ReceiveBuffer
  BY <1>4 DEF App!RunLoop, App!ReceiveBuffer, Told, Initialising
<1>5. CASE App!EnableCommand \/ App!DisableCommand \/ App!Exit
  <2>1. ~Initialising'
    BY <1>5 DEF App!EnableCommand, App!DisableCommand, App!GroundCommand, App!Handle, App!Exit,
                Initialising
  <2> QED
    BY <1>5, <2>1, SwitchesTell DEF App!EnableCommand, App!DisableCommand, App!Exit
<1>6. CASE App!BadLength \/ App!BadCommandCode \/ App!BadRequestCode
  BY <1>6, CountingKeeps DEF App!BadLength, App!BadCommandCode, App!BadRequestCode, App!Handle,
                             Told, Initialising
<1>7. CASE App!NoopCommand \/ App!ResetCommand
  <2>1. "DeviceEnabled" \in DOMAIN hk' /\ hk'.DeviceEnabled = hk.DeviceEnabled
    BY <1>7 DEF App!NoopCommand, App!ResetCommand, App!ResetCounters, App!ZeroHk, Told
  <2> QED
    BY <1>7, <2>1 DEF App!NoopCommand, App!ResetCommand, App!GroundCommand, App!Handle, Told,
                      Initialising
<1>8. CASE App!ReportHousekeeping \/ DisabledDataRequest
  BY <1>8 DEF App!ReportHousekeeping, DisabledDataRequest, App!ReportDeviceTelemetry,
              App!Handle, Told, Initialising
<1> QED
  BY <1>1, <1>2, <1>3, <1>4, <1>5, <1>6, <1>7, <1>8
     DEF Application, App!AppInit, App!ProcessGroundCommand

\* While the driver is at work the application makes no other step.
LEMMA ThreadIsBusy ==
    ASSUME DataRequested, hk.DeviceEnabled = DEVICE_ENABLED
    PROVE  ~Application
BY SameCodes
   DEF DataRequested, Application, App!AppInit, App!Register, App!CreatePipe, App!SubscribeCmd,
       App!SubscribeReqHk, App!FinishInit, App!Subscribe, App!InitCall, App!RunLoop,
       App!ReceiveBuffer, App!ProcessGroundCommand, App!NoopCommand, App!ResetCommand,
       App!EnableCommand, App!DisableCommand, App!BadLength, App!BadCommandCode,
       App!GroundCommand, App!Handle, App!ReportHousekeeping, App!BadRequestCode,
       App!RequestCodes, DisabledDataRequest, App!Exit

\* The driver's steps, but for the first and the last, change only the call.
LEMMA DriverKeepsApp ==
    ASSUME DriverAlone \/ SendRequest \/ ReadAnswer \/ LoseTransfer
    PROVE  /\ UNCHANGED <<pc, msg, hk, spi>>
           /\ step # "Idle"
BY DEF DriverAlone, SendRequest, ReadAnswer, LoseTransfer, appOnly, Driver!CmdSelect,
       Driver!ReadSelect, Driver!Select, Driver!CmdUnselect, Driver!ReadUnselect,
       Driver!Unselect, Driver!CmdTransfer, Driver!ReadTransfer, Driver!TransferFails

LEMMA InterfaceInit == Init => InterfaceInv
BY SameCodes DEF Init, App!Init, App!ZeroHk, InterfaceInv, Told, OpenThroughoutRequest

LEMMA InterfaceStep == InterfaceInv /\ [Next]_vars => InterfaceInv'
<1> SUFFICES ASSUME InterfaceInv, [Next]_vars PROVE InterfaceInv'
  OBVIOUS
<1> USE DEF InterfaceInv
<1>1. CASE Application
  <2>1. step = "Idle"
    BY <1>1, ThreadIsBusy DEF OpenThroughoutRequest
  <2> QED
    BY <1>1, <2>1, ApplicationTells DEF Application, callVars, OpenThroughoutRequest
<1>2. CASE BeginRequest
  BY <1>2, SameCodes DEF BeginRequest, Driver!Call, appOnly, DataRequested, Told, Initialising,
                         OpenThroughoutRequest
<1>3. CASE DriverAlone \/ SendRequest \/ ReadAnswer \/ LoseTransfer
  BY <1>3, DriverKeepsApp DEF Told, Initialising, OpenThroughoutRequest, DataRequested
<1>4. CASE EndRequest
  <2>1. "DeviceEnabled" \in DOMAIN hk' /\ hk'.DeviceEnabled = hk.DeviceEnabled
    BY <1>4 DEF EndRequest, Report, Told
  <2> QED
    BY <1>4, <2>1 DEF EndRequest, Driver!Return, Told, Initialising, OpenThroughoutRequest
<1>5. CASE AppEnvironment
  BY <1>5 DEF AppEnvironment, App!Environment, App!Send, App!RequestExit, App!deviceVars,
              callVars, Told, Initialising, OpenThroughoutRequest, DataRequested
<1>6. CASE SimEnvironment \/ UNCHANGED vars
  BY <1>6 DEF SimEnvironment, vars, appVars, appOnly, callVars, Told, Initialising,
              OpenThroughoutRequest, DataRequested
<1> QED
  BY <1>1, <1>2, <1>3, <1>4, <1>5, <1>6 DEF Next, AppThread, DeviceRequest

\* No command, exit or failure closes the device under a request.
THEOREM OpenUnderRequest == Spec => []OpenThroughoutRequest
<1>1. InterfaceInv => OpenThroughoutRequest
  BY DEF InterfaceInv
<1> QED
  BY <1>1, InterfaceInit, InterfaceStep, PTL DEF Spec
-------------------------------------------------------------------------------
(***************************************************************************)
(* The answer on its way.  What the request has left in the sensor's queue *)
(* is a frame of a truth of this call, unless it is one the sensor kept;   *)
(* what the driver has read is the same; and once it is read the queue is  *)
(* empty.  A request that is back without an error has read its answer.    *)
(***************************************************************************)
Answered == step = "ReadUnselect" \/ (step = "Return" /\ status = "OS_SUCCESS")

AnswerInv ==
    /\ step # "Idle" => truth \in callTruths
    /\ step \in {"CmdUnselect", "ReadSelect", "ReadTransfer"} =>
          (queued.kind = "frame" /\ ~kept => queued.reading \in callTruths)
    /\ Answered => /\ queued = Empty
                   /\ miso.kind = "frame" /\ ~kept => miso.reading \in callTruths
    /\ step = "Return" /\ status = "OS_SUCCESS" => chip = "unselected"

\* The buffers of the driver and of the sensor, by their kind.
LEMMA BufferFacts ==
    /\ Sim!Empty = Empty /\ Sim!Zeros = Zeros /\ Zeros.kind = "zeros"
    /\ Sim!Frame(truth).kind = "frame" /\ Sim!Frame(truth).reading = truth
    /\ Sim!Request = Request
    /\ \A out \in Driver!UninitialisedBuffer : out # Request
    /\ \A bytes : Sim!Resized(bytes, DataSize).kind = "frame" =>
                      Sim!Resized(bytes, DataSize) = bytes
    /\ \A out \in Driver!UninitialisedBuffer : out.size = DataSize
BY DEF Sim!Empty, Empty, Sim!Idle, Idle, Sim!Zeros, Zeros, Sim!Buffer, Buffer, Sim!DataSize,
       DataSize, Sim!ZeroReading, ZeroReading, Sim!Frame, Sim!Request, Request, Sim!CmdSize,
       CmdSize, Driver!UninitialisedBuffer, Driver!Idle, Driver!Zeros, Driver!Other,
       Driver!Buffer, Driver!DataSize, Sim!Resized, Sim!Other

LEMMA AnswerInit == Init => AnswerInv
BY DEF Init, AnswerInv, Answered

LEMMA AnswerStep == AnswerInv /\ [Next]_vars => AnswerInv'
<1> SUFFICES ASSUME AnswerInv, [Next]_vars PROVE AnswerInv'
  OBVIOUS
<1> USE DEF AnswerInv, Answered
<1>1. CASE Application \/ AppEnvironment \/ UNCHANGED vars
  BY <1>1 DEF Application, AppEnvironment, vars, callVars, simVars, history
<1>2. CASE BeginRequest
  BY <1>2 DEF BeginRequest, Driver!Call, simVars
<1>3. CASE DriverAlone
  BY <1>3 DEF DriverAlone, Driver!CmdSelect, Driver!ReadSelect, Driver!Select,
              Driver!CmdUnselect, Driver!ReadUnselect, Driver!Unselect, Driver!Works,
              Driver!Fails, simVars, history
<1>4. CASE SendRequest
  <2>1. step' = "CmdUnselect" /\ step # "Idle" /\ UNCHANGED <<truth, callTruths>>
    BY <1>4 DEF SendRequest, Driver!CmdTransfer, Driver!Works, Sim!SpiWrite
  <2>2. /\ queued' = Sim!GenericFssData
        /\ computed' = IF simEnabled = Sim!GENERIC_FSS_SIM_SUCCESS
                       THEN Sim!Frame(truth) ELSE Zeros
        /\ kept' = (computed' = Zeros /\ queued' # Zeros)
    BY <1>4, BufferFacts DEF SendRequest, Sim!SpiWrite, Sim!NextQueued
  <2>3. CASE simEnabled = Sim!GENERIC_FSS_SIM_SUCCESS
    BY <2>1, <2>2, <2>3, BufferFacts DEF Sim!GenericFssData
  <2>4. CASE simEnabled # Sim!GENERIC_FSS_SIM_SUCCESS
    BY <2>1, <2>2, <2>4, BufferFacts
  <2> QED
    BY <2>3, <2>4
<1>5. CASE ReadAnswer
  <2>1. PICK out \in Driver!UninitialisedBuffer : Sim!SpiWrite(out)
    BY <1>5 DEF ReadAnswer
  <2>2. /\ queued' = Empty /\ UNCHANGED truth
        /\ spiOut' = Sim!Resized(queued, DataSize)
    BY <2>1, BufferFacts DEF Sim!SpiWrite, Sim!NextQueued
  <2>3. /\ step = "ReadTransfer" /\ step' = "ReadUnselect" /\ miso' = spiOut'
        /\ UNCHANGED <<callTruths, kept>>
    BY <1>5 DEF ReadAnswer, Driver!ReadTransfer, Driver!Works, history
  <2>4. miso'.kind = "frame" => miso' = queued
    BY <2>2, <2>3, BufferFacts
  <2> QED
    BY <2>2, <2>3, <2>4
<1>6. CASE LoseTransfer
  <2>1. /\ step # "Idle" /\ step' = "Return" /\ status' = "OS_ERROR"
        /\ UNCHANGED <<truth, callTruths>>
    BY <1>6 DEF LoseTransfer, Driver!TransferFails, Driver!Fails, simVars, history, Sim!SpiWrite
  <2> QED
    BY <2>1
<1>7. CASE EndRequest
  BY <1>7 DEF EndRequest, Driver!Return
<1>8. CASE SimEnvironment
  <2>1. UNCHANGED <<queued, step, status, miso, kept, chip>>
    BY <1>8 DEF SimEnvironment, callVars, Sim!Background, Sim!Command, Sim!Sense, Sim!Destroy
  <2> QED
    BY <1>8, <2>1 DEF SimEnvironment
<1> QED
  BY <1>1, <1>2, <1>3, <1>4, <1>5, <1>6, <1>7, <1>8 DEF Next, AppThread, DeviceRequest

LEMMA AnswerInvariant == Spec => []AnswerInv
BY AnswerInit, AnswerStep, PTL DEF Spec

\* A request that succeeds leaves no answer queued in the sensor for the next.
THEOREM SuccessDrains == Spec => []SuccessDrainsSensor
<1>1. AnswerInv => SuccessDrainsSensor
  BY DEF AnswerInv, Answered, SuccessDrainsSensor
<1> QED
  BY <1>1, AnswerInvariant, PTL

\* A reading the driver accepts was true during the request, but for a frame
\* that a disabled sensor kept.
THEOREM AcceptedReadings == Spec => []AcceptedIsCurrent
<1>1. AnswerInv => AcceptedIsCurrent
  BY DEF AnswerInv, Answered, AcceptedIsCurrent, Driver!Verified
<1> QED
  BY <1>1, AnswerInvariant, PTL
-------------------------------------------------------------------------------
(***************************************************************************)
(* The refinement.  What the application sees of a request is its end: the *)
(* driver's last step is ReportDeviceTelemetry of FssApp, and all before   *)
(* it stutter.  For that the packet the driver leaves has to be a reading, *)
(* and so every frame on its way from the sensor has to carry one.         *)
(***************************************************************************)
FrameInv ==
    /\ devicePkt \in Readings
    /\ truth \in Readings
    /\ queued.kind = "frame" => queued.reading \in Readings
    /\ miso.kind = "frame" => miso.reading \in Readings

LEMMA SameReadings == App!Readings = Readings /\ App!ZeroReading = ZeroReading
BY DEF App!Readings, Readings, App!ZeroReading, ZeroReading

LEMMA FrameInit == Init => FrameInv
<1>1. ZeroReading \in Readings
  BY AnglesAssumption DEF ZeroReading, Readings
<1>2. Empty.kind = "idle"
  BY DEF Empty, Idle, Buffer
<1> QED
  BY <1>1, <1>2, SameReadings, BufferFacts, TruthsAssumption
     DEF Init, App!Init, Sim!Init, FrameInv

\* Only the driver's last step touches the device packet.
LEMMA PacketKept ==
    ASSUME Application \/ AppEnvironment
    PROVE  UNCHANGED devicePkt
BY DEF Application, AppEnvironment, App!AppInit, App!Register, App!CreatePipe,
       App!SubscribeCmd, App!SubscribeReqHk, App!FinishInit, App!Subscribe, App!InitCall,
       App!RunLoop, App!ReceiveBuffer, App!ProcessGroundCommand, App!NoopCommand,
       App!ResetCommand, App!EnableCommand, App!DisableCommand, App!Enable, App!Disable,
       App!BadLength, App!BadCommandCode, App!ReportHousekeeping, App!BadRequestCode,
       DisabledDataRequest, App!ReportDeviceTelemetry, App!DEVICE_ENABLED, DEVICE_ENABLED,
       App!Exit, App!Environment, App!Send, App!RequestExit, App!deviceVars

\* What a transfer queues is a frame of the truth, a frame that was there, or none.
LEMMA TransferQueues ==
    ASSUME FrameInv, NEW in, Sim!SpiWrite(in)
    PROVE  /\ queued'.kind = "frame" => queued'.reading \in Readings
           /\ UNCHANGED truth
<1>1. Empty.kind = "idle"
  BY DEF Empty, Idle, Buffer
<1> QED
  BY <1>1, BufferFacts DEF Sim!SpiWrite, Sim!NextQueued, Sim!GenericFssData, FrameInv

LEMMA FrameStep == FrameInv /\ [Next]_vars => FrameInv'
<1> SUFFICES ASSUME FrameInv, [Next]_vars PROVE FrameInv'
  OBVIOUS
<1> USE DEF FrameInv
<1>1. CASE Application \/ AppEnvironment
  BY <1>1, PacketKept DEF Application, AppEnvironment, callVars, simVars
<1>2. CASE BeginRequest \/ DriverAlone \/ UNCHANGED vars
  BY <1>2 DEF BeginRequest, Driver!Call, DriverAlone, Driver!CmdSelect, Driver!ReadSelect,
              Driver!Select, Driver!CmdUnselect, Driver!ReadUnselect, Driver!Unselect, simVars,
              vars, appVars, callVars
<1>3. CASE SendRequest
  BY <1>3, TransferQueues DEF SendRequest, Driver!CmdTransfer
<1>4. CASE ReadAnswer
  <2>1. PICK out \in Driver!UninitialisedBuffer : Sim!SpiWrite(out)
    BY <1>4 DEF ReadAnswer
  <2>2. miso' = Sim!Resized(queued, DataSize)
    BY <1>4, <2>1, BufferFacts DEF ReadAnswer, Driver!ReadTransfer, Sim!SpiWrite
  <2> QED
    BY <1>4, <2>1, <2>2, TransferQueues, BufferFacts DEF ReadAnswer, Driver!ReadTransfer
<1>5. CASE LoseTransfer
  BY <1>5, TransferQueues DEF LoseTransfer, Driver!TransferFails, simVars
<1>6. CASE EndRequest
  <2>1. Driver!Empty.kind = "idle"
    BY DEF Driver!Empty, Driver!Idle, Driver!Buffer
  <2> QED
    BY <1>6, <2>1 DEF EndRequest, Driver!Return, Driver!NewData, Driver!Verified, simVars
<1>7. CASE SimEnvironment
  BY <1>7, TruthsAssumption
     DEF SimEnvironment, appVars, callVars, Sim!Background, Sim!Command, Sim!Sense, Sim!Destroy
<1> QED
  BY <1>1, <1>2, <1>3, <1>4, <1>5, <1>6, <1>7 DEF Next, AppThread, DeviceRequest

\* The end of a request is the application's whole step.
LEMMA RequestIsReport ==
    ASSUME FrameInv, OpenThroughoutRequest, EndRequest
    PROVE  App!ReportDeviceTelemetry
<1>1. /\ pc = "Process" /\ msg.MsgId = "REQ_HK_MID" /\ msg.code = App!REQ_DATA_TLM
      /\ hk.DeviceEnabled = App!DEVICE_ENABLED
  BY SameCodes DEF EndRequest, Driver!Return, OpenThroughoutRequest, DataRequested
<1>2. App!Handle("REQ_HK_MID", {App!REQ_DATA_TLM}) /\ UNCHANGED spi
  BY <1>1 DEF EndRequest, Driver!Return, App!Handle, App!loopVars
<1>3. \A count : App!Incremented(count) = Incremented(count)
  BY DEF App!Incremented, Incremented
<1>4. CASE status = "OS_SUCCESS"
  <2>1. devicePkt' \in App!Readings
    BY SameReadings DEF EndRequest, Driver!Return, Driver!NewData, Driver!Verified, FrameInv
  <2> QED
    BY <1>1, <1>2, <1>3, <1>4, <2>1
       DEF EndRequest, Report, App!ReportDeviceTelemetry, App!Transmits
<1>5. CASE status # "OS_SUCCESS"
  <2>1. UNCHANGED devicePkt
    BY <1>5 DEF EndRequest, Driver!Return, Driver!NewData
  <2> QED
    BY <1>1, <1>2, <1>3, <1>5, <2>1
       DEF EndRequest, Report, App!ReportDeviceTelemetry, App!Transmits
<1> QED
  BY <1>4, <1>5

LEMMA StepRefines ==
    FrameInv /\ OpenThroughoutRequest /\ [Next]_vars => [App!Next]_(App!vars)
<1> SUFFICES ASSUME FrameInv, OpenThroughoutRequest, [Next]_vars
             PROVE  [App!Next]_(App!vars)
  OBVIOUS
<1> USE DEF App!Next, App!AppThread, App!ProcessTelemetryRequest
<1>1. CASE Application
  BY <1>1 DEF Application, DisabledDataRequest
<1>2. CASE AppEnvironment
  BY <1>2 DEF AppEnvironment
<1>3. CASE EndRequest
  BY <1>3, RequestIsReport
<1>4. CASE \/ BeginRequest \/ DriverAlone \/ SendRequest \/ ReadAnswer \/ LoseTransfer
           \/ SimEnvironment \/ UNCHANGED vars
  <2>1. UNCHANGED <<appOnly, spi, devicePkt>>
    BY <1>4 DEF BeginRequest, Driver!Call, DriverAlone, SendRequest, ReadAnswer, LoseTransfer,
         SimEnvironment, vars, appVars, Driver!CmdSelect, Driver!ReadSelect, Driver!Select,
         Driver!CmdUnselect, Driver!ReadUnselect, Driver!Unselect, Driver!CmdTransfer,
         Driver!ReadTransfer, Driver!TransferFails
  <2> QED
    BY <2>1 DEF appOnly, App!vars, App!loopVars, App!deviceVars
<1> QED
  BY <1>1, <1>2, <1>3, <1>4 DEF Next, AppThread, DeviceRequest

\* But for its liveness, which the run system_refines checks, the application
\* with its driver and its sensor implements FssApp: the request looks atomic.
THEOREM RequestLooksAtomic == Spec => App!Init /\ [][App!Next]_(App!vars)
<1>1. Init => App!Init
  BY DEF Init
<1>2. Init => FrameInv /\ InterfaceInv
  BY FrameInit, InterfaceInit
<1>3. (FrameInv /\ InterfaceInv) /\ [Next]_vars => (FrameInv /\ InterfaceInv)'
  BY FrameStep, InterfaceStep
<1>4. FrameInv /\ InterfaceInv /\ [Next]_vars => [App!Next]_(App!vars)
  BY StepRefines DEF InterfaceInv
<1> QED
  BY <1>1, <1>2, <1>3, <1>4, PTL DEF Spec
===============================================================================
