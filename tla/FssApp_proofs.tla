----------------------------- MODULE FssApp_proofs -----------------------------
(***************************************************************************)
(* Theorems about the cFS application, for every set of messages, every    *)
(* set of failing calls, every depth of the pipe and every width of the    *)
(* counters.                                                               *)
(***************************************************************************)
EXTENDS FssApp, TLAPS

\* A counter that is incremented stays a counter, and is another one.
LEMMA IncrementedIsCounter ==
    \A n \in Counter : Incremented(n) \in Counter /\ Incremented(n) # n
BY CounterModulusAssumption DEF Counter, Incremented

\* The packet of a fresh app, and a packet after a reset, are packets.
LEMMA ResetIsHk ==
    /\ ZeroHk \in HkPackets
    /\ \A packet \in HkPackets : ResetCounters(packet) \in HkPackets
BY CounterModulusAssumption
   DEF ZeroHk, HkPackets, ResetCounters, Counter, DEVICE_DISABLED, DEVICE_ENABLED

\* The packet after any of the ways in which the handlers count is a packet.
LEMMA CountedIsHk ==
    ASSUME hk \in HkPackets,
           \/ RejectCommand
           \/ SpiInitSucceeds \/ SpiInitFails
           \/ SpiCloseSucceeds \/ SpiCloseFails
           \/ hk' = [hk EXCEPT !.CommandCount = Incremented(@)]
           \/ hk' = [hk EXCEPT !.DeviceCount = Incremented(@)]
           \/ hk' = [hk EXCEPT !.DeviceErrorCount = Incremented(@)]
    PROVE  hk' \in HkPackets
BY IncrementedIsCounter
   DEF HkPackets, RejectCommand, SpiInitSucceeds, SpiInitFails, SpiCloseSucceeds,
       SpiCloseFails, DEVICE_DISABLED, DEVICE_ENABLED

\* What Enable and Disable do to the types.
LEMMA InterfaceTyped ==
    ASSUME hk \in HkPackets, spi \in {"open", "closed"}, Enable \/ Disable
    PROVE  hk' \in HkPackets /\ spi' \in {"open", "closed"} /\ UNCHANGED devicePkt
BY CountedIsHk DEF Enable, Disable

(***************************************************************************)
(* Type correctness.                                                       *)
(***************************************************************************)
LEMMA InitTypeOK == Init => TypeOK
BY ResetIsHk, AnglesAssumption
   DEF Init, TypeOK, Locations, Readings, ZeroReading, NoMessage, MsgIds

LEMMA NextTypeOK == TypeOK /\ [Next]_vars => TypeOK'
<1> SUFFICES ASSUME TypeOK, [Next]_vars PROVE TypeOK'
  OBVIOUS
<1> USE DEF TypeOK, Locations, loopVars, deviceVars
<1>1. CASE Register
  BY <1>1 DEF Register, InitCall
<1>2. CASE CreatePipe
  BY <1>2 DEF CreatePipe, InitCall
<1>3. CASE SubscribeCmd
  BY <1>3 DEF SubscribeCmd, Subscribe, InitCall, MsgIds
<1>4. CASE SubscribeReqHk
  BY <1>4 DEF SubscribeReqHk, Subscribe, InitCall, MsgIds
<1>5. CASE FinishInit
  <2>1. ResetCounters(hk) \in HkPackets
    BY ResetIsHk
  <2>2. hk' \in HkPackets
    BY <1>5, <2>1 DEF FinishInit, HkPackets, DEVICE_DISABLED, DEVICE_ENABLED
  <2> QED
    BY <1>5, <2>2 DEF FinishInit, InitCall
<1>6. CASE RunLoop
  BY <1>6 DEF RunLoop
<1>7. CASE ReceiveBuffer
  BY <1>7 DEF ReceiveBuffer
<1>8. CASE ProcessGroundCommand
  <2>1. hk' \in HkPackets
    <3>1. CASE ResetCommand
      <4>1. [hk EXCEPT !.CommandCount = Incremented(@)] \in HkPackets
        BY IncrementedIsCounter DEF HkPackets
      <4> QED
        BY <3>1, <4>1, ResetIsHk DEF ResetCommand
    <3>2. CASE ~ResetCommand
      BY <1>8, <3>2, CountedIsHk, InterfaceTyped
         DEF ProcessGroundCommand, NoopCommand, EnableCommand, DisableCommand,
             BadLength, BadCommandCode
    <3> QED
      BY <3>1, <3>2
  <2>2. spi' \in {"open", "closed"} /\ UNCHANGED devicePkt
    BY <1>8, InterfaceTyped
       DEF ProcessGroundCommand, NoopCommand, ResetCommand, EnableCommand,
           DisableCommand, BadLength, BadCommandCode
  <2>3. pc' = "RunLoop" /\ UNCHANGED loopVars /\ sent' = "none"
    BY <1>8
       DEF ProcessGroundCommand, NoopCommand, ResetCommand, EnableCommand,
           DisableCommand, BadLength, BadCommandCode, GroundCommand, Handle, Transmits
  <2> QED
    BY <2>1, <2>2, <2>3
<1>9. CASE ProcessTelemetryRequest
  <2>1. hk' \in HkPackets
    BY <1>9, CountedIsHk
       DEF ProcessTelemetryRequest, ReportHousekeeping, ReportDeviceTelemetry, BadRequestCode
  <2> QED
    BY <1>9, <2>1
       DEF ProcessTelemetryRequest, ReportHousekeeping, ReportDeviceTelemetry,
           BadRequestCode, Handle, Transmits
<1>10. CASE Exit
  BY <1>10, InterfaceTyped DEF Exit
<1>11. CASE Environment
  BY <1>11 DEF Environment, Send, RequestExit
<1>12. CASE UNCHANGED vars
  BY <1>12 DEF vars
<1> QED
  BY <1>1, <1>2, <1>3, <1>4, <1>5, <1>6, <1>7, <1>8, <1>9, <1>10, <1>11, <1>12
     DEF Next, AppThread, AppInit

\* The state of the application is always of its type.
THEOREM TypeCorrect == Spec => []TypeOK
BY InitTypeOK, NextTypeOK, PTL DEF Spec
-------------------------------------------------------------------------------
(***************************************************************************)
(* The interface.  That the app releases it at exit rests on housekeeping  *)
(* telling the truth, since the disable at exit believes DeviceEnabled.    *)
(* That is not inductive: the end of initialisation sets DeviceEnabled to  *)
(* DISABLED without touching the interface, which would be a lie if the    *)
(* device were open.  So the invariant adds that it is closed until then.  *)
(***************************************************************************)
Initialising ==
    pc \in {"Register", "CreatePipe", "SubscribeCmd", "SubscribeReqHk", "FinishInit"}

InterfaceInv ==
    /\ TypeOK
    /\ HousekeepingTellsInterface
    /\ Initialising => spi = "closed"

\* Steps that are not the end of a handler, of initialisation or of the app.
Quiet ==
    \/ Register \/ CreatePipe \/ SubscribeCmd \/ SubscribeReqHk
    \/ RunLoop \/ ReceiveBuffer
    \/ Environment
    \/ UNCHANGED vars

LEMMA QuietSteps ==
    ASSUME Quiet
    PROVE  /\ UNCHANGED <<hk, spi, devicePkt, sent>>
           /\ ~Serves /\ ~Exits /\ ~Zeroes
           /\ pc' = "Done" => pc = "Done"
           /\ Initialising' => Initialising
<1> USE DEF Serves, Exits, Zeroes, Initialising, loopVars, deviceVars
<1>1. CASE Register \/ CreatePipe
  BY <1>1 DEF Register, CreatePipe, InitCall
<1>2. CASE SubscribeCmd \/ SubscribeReqHk
  BY <1>2 DEF SubscribeCmd, SubscribeReqHk, Subscribe, InitCall
<1>3. CASE RunLoop \/ ReceiveBuffer
  BY <1>3 DEF RunLoop, ReceiveBuffer
<1>4. CASE Environment
  BY <1>4 DEF Environment, Send, RequestExit
<1>5. CASE UNCHANGED vars
  BY <1>5 DEF vars
<1> QED
  BY <1>1, <1>2, <1>3, <1>4, <1>5 DEF Quiet

\* Every step is quiet or one of the others.
LEMMA StepCases ==
    ASSUME [Next]_vars
    PROVE  Quiet \/ FinishInit \/ ProcessGroundCommand \/ ProcessTelemetryRequest \/ Exit
BY DEF Quiet, Next, AppThread, AppInit

\* What the ways of counting do to DeviceEnabled.
LEMMA DeviceEnabledAfter ==
    ASSUME hk \in HkPackets
    PROVE  /\ SpiInitSucceeds => hk'.DeviceEnabled = DEVICE_ENABLED
           /\ SpiCloseSucceeds => hk'.DeviceEnabled = DEVICE_DISABLED
           /\ RejectCommand \/ SpiInitFails \/ SpiCloseFails =>
                    hk'.DeviceEnabled = hk.DeviceEnabled
BY DEF HkPackets, RejectCommand, SpiInitSucceeds, SpiInitFails, SpiCloseSucceeds,
       SpiCloseFails

\* Enable and Disable keep DeviceEnabled in step with the SPI device, and
\* Disable closes it unless closing fails, which is counted.
LEMMA InterfaceKept ==
    ASSUME hk \in HkPackets, spi \in {"open", "closed"}, HousekeepingTellsInterface,
           Enable \/ Disable
    PROVE  /\ HousekeepingTellsInterface'
           /\ Disable /\ spi' # "closed" =>
                /\ "spi_close_device" \in Faults
                /\ Ticks(hk.DeviceErrorCount, hk'.DeviceErrorCount)
<1> USE DeviceEnabledAfter
    DEF HousekeepingTellsInterface, DEVICE_DISABLED, DEVICE_ENABLED
<1>1. Enable => HousekeepingTellsInterface'
  BY DEF Enable
<1>2. Disable => HousekeepingTellsInterface'
  BY DEF Disable
<1>3. SpiCloseFails => Ticks(hk.DeviceErrorCount, hk'.DeviceErrorCount)
  BY DEF SpiCloseFails, Ticks, HkPackets
<1>4. Disable /\ spi' # "closed" => "spi_close_device" \in Faults /\ SpiCloseFails
  BY DEF Disable
<1> QED
  BY <1>1, <1>2, <1>3, <1>4

\* The handlers that are neither of the two leave both alone.
LEMMA InterfaceUntouched ==
    ASSUME hk \in HkPackets,
           \/ NoopCommand \/ ResetCommand \/ BadLength \/ BadCommandCode
           \/ ProcessTelemetryRequest
    PROVE  hk'.DeviceEnabled = hk.DeviceEnabled /\ spi' = spi
<1> USE DEF HkPackets, deviceVars
<1>1. CASE NoopCommand \/ ResetCommand
  BY <1>1, ResetIsHk DEF NoopCommand, ResetCommand, ResetCounters, ZeroHk
<1>2. CASE BadLength \/ BadCommandCode
  BY <1>2 DEF BadLength, BadCommandCode, RejectCommand
<1>3. CASE ProcessTelemetryRequest
  BY <1>3 DEF ProcessTelemetryRequest, ReportHousekeeping, ReportDeviceTelemetry,
              BadRequestCode, RejectCommand
<1> QED
  BY <1>1, <1>2, <1>3

\* A handler gives control back to the loop.
LEMMA HandlersServe ==
    ASSUME ProcessGroundCommand \/ ProcessTelemetryRequest
    PROVE  Serves /\ ~Exits
BY DEF ProcessGroundCommand, NoopCommand, ResetCommand, EnableCommand, DisableCommand,
       BadLength, BadCommandCode, GroundCommand, ProcessTelemetryRequest,
       ReportHousekeeping, ReportDeviceTelemetry, BadRequestCode, Handle, Serves, Exits

LEMMA InitInterface == Init => InterfaceInv
BY InitTypeOK
   DEF Init, InterfaceInv, HousekeepingTellsInterface, ZeroHk,
       DEVICE_DISABLED, DEVICE_ENABLED

LEMMA NextInterface == InterfaceInv /\ [Next]_vars => InterfaceInv'
<1> SUFFICES ASSUME InterfaceInv, [Next]_vars PROVE InterfaceInv'
  OBVIOUS
<1>1. TypeOK'
  BY NextTypeOK DEF InterfaceInv
<1>2. /\ HousekeepingTellsInterface
      /\ Initialising => spi = "closed"
  BY DEF InterfaceInv
<1>3. hk \in HkPackets /\ spi \in {"open", "closed"}
  BY DEF InterfaceInv, TypeOK
<1> USE DEF InterfaceInv
<1>4. CASE Quiet
  BY <1>1, <1>2, <1>4, QuietSteps
     DEF HousekeepingTellsInterface
<1>5. CASE FinishInit
  <2>1. pc = "FinishInit" /\ pc' = "RunLoop" /\ UNCHANGED spi
    BY <1>5 DEF FinishInit, InitCall, deviceVars
  <2>2. hk'.DeviceEnabled = DEVICE_DISABLED
    BY <1>3, <1>5, ResetIsHk DEF FinishInit, HkPackets
  <2>3. spi' = "closed"
    BY <1>2, <2>1 DEF Initialising
  <2> QED
    BY <1>1, <2>1, <2>2, <2>3
       DEF HousekeepingTellsInterface, DEVICE_DISABLED, DEVICE_ENABLED
<1>6. CASE ProcessGroundCommand \/ ProcessTelemetryRequest
  <2>1. pc' # "Done" /\ ~Initialising'
    BY <1>6, HandlersServe DEF Serves, Initialising
  <2>2. CASE EnableCommand \/ DisableCommand
    BY <1>1, <1>2, <1>3, <2>1, <2>2, InterfaceKept
       DEF EnableCommand, DisableCommand
  <2>3. CASE ~(EnableCommand \/ DisableCommand)
    BY <1>1, <1>2, <1>3, <1>6, <2>1, <2>3, InterfaceUntouched
       DEF ProcessGroundCommand, HousekeepingTellsInterface
  <2> QED
    BY <2>2, <2>3
<1>7. CASE Exit
  <2>1. pc' = "Done" /\ ~Initialising'
    BY <1>7 DEF Exit, Initialising
  <2> QED
    BY <1>1, <1>2, <1>3, <1>7, <2>1, InterfaceKept DEF Exit
<1> QED
  BY <1>4, <1>5, <1>6, <1>7, StepCases

\* DeviceEnabled is ENABLED exactly while the SPI device is open.
THEOREM HousekeepingTellsTruth == Spec => []HousekeepingTellsInterface
<1>1. InterfaceInv => HousekeepingTellsInterface
  BY DEF InterfaceInv
<1> QED
  BY <1>1, InitInterface, NextInterface, PTL DEF Spec

\* An app that has ended does nothing more.
LEMMA DoneIsOver ==
    ASSUME pc = "Done", [Next]_vars
    PROVE  UNCHANGED vars
<1>1. ~(AppInit \/ RunLoop \/ ReceiveBuffer \/ Exit)
  BY DEF AppInit, Register, CreatePipe, SubscribeCmd, SubscribeReqHk, Subscribe,
         FinishInit, InitCall, RunLoop, ReceiveBuffer, Exit
<1>2. ~(ProcessGroundCommand \/ ProcessTelemetryRequest)
  BY HandlersServe DEF Serves
<1>3. ~Environment
  BY DEF Environment, Send, RequestExit
<1> QED
  BY <1>1, <1>2, <1>3 DEF Next, AppThread

\* Unless closing fails, which is counted, an app that ends closes the SPI device.
THEOREM ExitReleases == Spec => ExitReleasesInterface
<1>1. InterfaceInv /\ [Next]_vars => [ReleasesInterface]_vars
  <2> SUFFICES ASSUME InterfaceInv, [Next]_vars PROVE ReleasesInterface
    OBVIOUS
  <2>1. pc = "Done" => UNCHANGED <<pc, spi, hk>>
    BY DoneIsOver DEF vars, deviceVars
  <2>2. ASSUME pc # "Done", pc' = "Done"
        PROVE  Exit
    <3>1. ~Quiet
      BY <2>2, QuietSteps
    <3>2. ~FinishInit
      BY <2>2 DEF FinishInit, InitCall
    <3>3. ~(ProcessGroundCommand \/ ProcessTelemetryRequest)
      BY <2>2, HandlersServe DEF Serves
    <3> QED
      BY <3>1, <3>2, <3>3, StepCases
  <2>3. ASSUME Exit
        PROVE  \/ spi' = "closed"
               \/ /\ "spi_close_device" \in Faults
                  /\ Ticks(hk.DeviceErrorCount, hk'.DeviceErrorCount)
    BY <2>3, InterfaceKept DEF Exit, InterfaceInv, TypeOK
  <2> QED
    BY <2>1, <2>2, <2>3 DEF ReleasesInterface
<1> QED
  BY <1>1, InitInterface, NextInterface, PTL DEF Spec, ExitReleasesInterface
-------------------------------------------------------------------------------
(***************************************************************************)
(* The counters.  CounterMoves says, once, what each way of counting does  *)
(* to each counter; the theorems then follow handler by handler.           *)
(***************************************************************************)
LEMMA CounterMoves ==
    ASSUME hk \in HkPackets
    PROVE  /\ RejectCommand =>
                /\ Ticks(hk.CommandErrorCount, hk'.CommandErrorCount)
                /\ hk'.CommandCount     = hk.CommandCount
                /\ hk'.DeviceCount      = hk.DeviceCount
                /\ hk'.DeviceErrorCount = hk.DeviceErrorCount
           /\ SpiInitSucceeds \/ SpiCloseSucceeds =>
                /\ Ticks(hk.CommandCount, hk'.CommandCount)
                /\ Ticks(hk.DeviceCount, hk'.DeviceCount)
                /\ hk'.CommandErrorCount = hk.CommandErrorCount
                /\ hk'.DeviceErrorCount  = hk.DeviceErrorCount
           /\ SpiInitFails \/ SpiCloseFails =>
                /\ Ticks(hk.CommandCount, hk'.CommandCount)
                /\ Ticks(hk.DeviceErrorCount, hk'.DeviceErrorCount)
                /\ hk'.CommandErrorCount = hk.CommandErrorCount
                /\ hk'.DeviceCount       = hk.DeviceCount
BY DEF HkPackets, RejectCommand, SpiInitSucceeds, SpiInitFails, SpiCloseSucceeds,
       SpiCloseFails, Ticks

\* A counter that ticks has changed.
LEMMA TickIsChange ==
    ASSUME hk \in HkPackets
    PROVE  /\ hk'.CommandErrorCount = Incremented(hk.CommandErrorCount) =>
                hk'.CommandErrorCount # hk.CommandErrorCount
           /\ hk'.DeviceCount = Incremented(hk.DeviceCount) =>
                hk'.DeviceCount # hk.DeviceCount
BY IncrementedIsCounter DEF HkPackets

\* Enable and Disable are commands that are counted once.
LEMMA InterfaceCountedOnce ==
    ASSUME hk \in HkPackets, Enable \/ Disable
    PROVE  CountedOnce
BY CounterMoves DEF Enable, Disable, CountedOnce

\* The end of initialisation, and the reset command, zero all the counters.
LEMMA Zeroing ==
    ASSUME TypeOK, FinishInit \/ ResetCommand
    PROVE  /\ Zeroes
           /\ hk'.CommandCount = 0 /\ hk'.CommandErrorCount = 0
<1> USE DEF Zeroes, ResetCounters, ZeroHk
<1>1. CASE FinishInit
  BY <1>1 DEF FinishInit, InitCall
<1>2. CASE ResetCommand
  BY <1>2 DEF ResetCommand, GroundCommand, Handle, Serves, IsReset
<1> QED
  BY <1>1, <1>2

\* The other handlers do not zero anything.
LEMMA OtherHandlers ==
    ASSUME \/ NoopCommand \/ EnableCommand \/ DisableCommand
           \/ BadLength \/ BadCommandCode \/ ProcessTelemetryRequest
    PROVE  Serves /\ ~Zeroes
<1>1. Serves /\ pc # "FinishInit"
  BY HandlersServe DEF ProcessGroundCommand, Serves
<1>2. ~IsReset
  BY DEF NoopCommand, EnableCommand, DisableCommand, BadLength, BadCommandCode,
         ProcessTelemetryRequest, ReportHousekeeping, ReportDeviceTelemetry,
         BadRequestCode, GroundCommand, Handle, IsReset, CommandCodes,
         NOOP_CC, RESET_COUNTERS_CC, ENABLE_CC, DISABLE_CC
<1> QED
  BY <1>1, <1>2 DEF Zeroes

LEMMA StepMessageCounted ==
    ASSUME TypeOK, [Next]_vars
    PROVE  MessageCounted
<1>1. hk \in HkPackets
  BY DEF TypeOK
<1>2. CASE Quiet
  BY <1>2, QuietSteps DEF MessageCounted, NotCounted
<1>3. CASE FinishInit \/ ResetCommand
  BY <1>3, Zeroing DEF MessageCounted
<1>4. CASE NoopCommand \/ EnableCommand \/ DisableCommand \/ BadLength \/ BadCommandCode
  <2>1. Serves /\ ~Zeroes
    BY <1>4, OtherHandlers
  <2>2. ~IsRequest
    BY <1>4 DEF NoopCommand, EnableCommand, DisableCommand, BadLength, BadCommandCode,
                GroundCommand, Handle, IsRequest
  <2>3. CountedOnce
    <3>1. CASE NoopCommand
      BY <1>1, <3>1 DEF NoopCommand, HkPackets, CountedOnce, Ticks
    <3>2. CASE EnableCommand \/ DisableCommand
      BY <1>1, <3>2, InterfaceCountedOnce DEF EnableCommand, DisableCommand
    <3>3. CASE BadLength \/ BadCommandCode
      BY <1>1, <3>3, CounterMoves DEF BadLength, BadCommandCode, CountedOnce
    <3> QED
      BY <1>4, <3>1, <3>2, <3>3
  <2> QED
    BY <2>1, <2>2, <2>3 DEF MessageCounted
<1>5. CASE ProcessTelemetryRequest
  <2>1. Serves /\ ~Zeroes /\ ~Exits
    BY <1>5, OtherHandlers, HandlersServe
  <2>2. CASE BadRequestCode
    <3>1. ~IsRequest
      BY <2>2 DEF BadRequestCode, Handle, IsRequest
    <3>2. CountedOnce
      BY <1>1, <2>2, CounterMoves DEF BadRequestCode, CountedOnce
    <3> QED
      BY <2>1, <3>1, <3>2 DEF MessageCounted
  <2>3. CASE ReportHousekeeping \/ ReportDeviceTelemetry
    <3>1. IsRequest
      BY <2>3 DEF ReportHousekeeping, ReportDeviceTelemetry, Handle, IsRequest,
                  RequestCodes, REQ_HK_TLM, REQ_DATA_TLM
    <3>2. NotCounted
      BY <1>1, <2>3 DEF ReportHousekeeping, ReportDeviceTelemetry, NotCounted, HkPackets
    <3> QED
      BY <2>1, <3>1, <3>2 DEF MessageCounted
  <2> QED
    BY <1>5, <2>2, <2>3 DEF ProcessTelemetryRequest
<1>6. CASE Exit
  <2>1. Exits /\ ~Zeroes
    BY <1>6 DEF Exit, Exits, Zeroes, Serves
  <2>2. CountedOnce
    BY <1>1, <1>6, InterfaceCountedOnce DEF Exit
  <2> QED
    BY <2>1, <2>2 DEF MessageCounted
<1> QED
  BY <1>2, <1>3, <1>4, <1>5, <1>6, StepCases DEF ProcessGroundCommand

\* Every message moves exactly one command counter by one, or it is a
\* telemetry request, or the reset; nothing else but the exit moves them.
THEOREM MessagesCountedOnce == Spec => EveryMessageCountedOnce
<1>1. TypeOK /\ [Next]_vars => [MessageCounted]_vars
  BY StepMessageCounted
<1> QED
  BY <1>1, TypeCorrect, PTL DEF Spec, EveryMessageCountedOnce
-------------------------------------------------------------------------------
(***************************************************************************)
(* Errors are inert, and the device counters record what was done.         *)
(***************************************************************************)

\* How the handlers that succeed, or fail on the device, move the counters.
LEMMA HandlerMoves ==
    ASSUME TypeOK
    PROVE  /\ NoopCommand \/ ReportHousekeeping =>
                /\ hk'.CommandErrorCount = hk.CommandErrorCount
                /\ hk'.DeviceCount       = hk.DeviceCount
                /\ hk'.DeviceErrorCount  = hk.DeviceErrorCount
           /\ ReportDeviceTelemetry => hk'.CommandErrorCount = hk.CommandErrorCount
BY DEF TypeOK, HkPackets, NoopCommand, ReportHousekeeping, ReportDeviceTelemetry

\* RejectCommand is an increment of one counter and of nothing else.
LEMMA RejectMovesOne ==
    ASSUME RejectCommand, hk \in HkPackets
    PROVE  hk' = [hk EXCEPT !.CommandErrorCount = hk'.CommandErrorCount]
BY DEF RejectCommand, HkPackets

LEMMA StepErrorInert ==
    ASSUME TypeOK, [Next]_vars
    PROVE  ErrorInert
<1>1. hk \in HkPackets
  BY DEF TypeOK
<1>2. CASE Quiet
  BY <1>2, QuietSteps DEF ErrorInert
<1>3. CASE FinishInit \/ ResetCommand
  BY <1>3, Zeroing DEF ErrorInert
<1>4. CASE BadLength \/ BadCommandCode \/ BadRequestCode
  BY <1>1, <1>4, RejectMovesOne
     DEF BadLength, BadCommandCode, BadRequestCode, ErrorInert, Transmits
<1>5. CASE NoopCommand \/ ReportHousekeeping \/ ReportDeviceTelemetry
  BY <1>5, HandlerMoves DEF ErrorInert
<1>6. CASE EnableCommand \/ DisableCommand \/ Exit
  <2>1. Enable \/ Disable
    BY <1>6 DEF EnableCommand, DisableCommand, Exit
  <2>2. sent' # sent => sent' = "none"
    BY <1>6 DEF EnableCommand, DisableCommand, Exit, Transmits
  <2>3. CASE RejectCommand /\ UNCHANGED deviceVars
    BY <1>1, <2>2, <2>3, RejectMovesOne DEF ErrorInert
  <2>4. CASE ~(RejectCommand /\ UNCHANGED deviceVars)
    <3>1. SpiInitSucceeds \/ SpiInitFails \/ SpiCloseSucceeds \/ SpiCloseFails
      BY <2>1, <2>4 DEF Enable, Disable, deviceVars
    <3> QED
      BY <1>1, <3>1, CounterMoves DEF ErrorInert
  <2> QED
    BY <2>3, <2>4
<1> QED
  BY <1>2, <1>3, <1>4, <1>5, <1>6, StepCases
     DEF ProcessGroundCommand, ProcessTelemetryRequest

\* A message counted as an error had no other effect.
THEOREM ErrorsAreInert == Spec => RejectedIsInert
<1>1. TypeOK /\ [Next]_vars => [ErrorInert]_vars
  BY StepErrorInert
<1> QED
  BY <1>1, TypeCorrect, PTL DEF Spec, RejectedIsInert

\* Enable and Disable move DeviceCount exactly when they move the interface.
LEMMA InterfaceActivity ==
    ASSUME hk \in HkPackets, HousekeepingTellsInterface, spi \in {"open", "closed"},
           Enable \/ Disable
    PROVE  /\ hk'.DeviceCount # hk.DeviceCount <=> spi' # spi
           /\ hk'.DeviceErrorCount # hk.DeviceErrorCount => hk'.DeviceCount = hk.DeviceCount
           /\ devicePkt' = devicePkt
<1> USE CounterMoves, TickIsChange
    DEF HousekeepingTellsInterface, Ticks, DEVICE_DISABLED, DEVICE_ENABLED
<1>1. CASE Enable
  BY <1>1 DEF Enable
<1>2. CASE Disable
  BY <1>2 DEF Disable
<1> QED
  BY <1>1, <1>2

LEMMA StepActivityCounted ==
    ASSUME InterfaceInv, [Next]_vars
    PROVE  ActivityCounted
<1>1. /\ TypeOK /\ HousekeepingTellsInterface
      /\ hk \in HkPackets /\ spi \in {"open", "closed"}
  BY DEF InterfaceInv, TypeOK
<1>2. CASE Quiet
  BY <1>2, QuietSteps DEF ActivityCounted, Published
<1>3. CASE FinishInit \/ ResetCommand
  <2>1. Zeroes
    BY <1>1, <1>3, Zeroing
  <2>2. UNCHANGED devicePkt /\ ~Published
    BY <1>3 DEF FinishInit, InitCall, ResetCommand, deviceVars, Published, Serves, Transmits
  <2> QED
    BY <2>1, <2>2 DEF ActivityCounted
<1>4. CASE BadLength \/ BadCommandCode \/ BadRequestCode \/ NoopCommand \/ ReportHousekeeping
  <2>1. UNCHANGED deviceVars /\ ~Published
    BY <1>4 DEF BadLength, BadCommandCode, BadRequestCode, NoopCommand,
                ReportHousekeeping, Transmits, Published
  <2>2. hk'.DeviceCount = hk.DeviceCount /\ hk'.DeviceErrorCount = hk.DeviceErrorCount
    BY <1>1, <1>4, HandlerMoves, CounterMoves DEF BadLength, BadCommandCode, BadRequestCode
  <2> QED
    BY <2>1, <2>2 DEF ActivityCounted, deviceVars
<1>5. CASE ReportDeviceTelemetry
  <2>1. Serves /\ UNCHANGED spi
    BY <1>5, HandlersServe DEF ReportDeviceTelemetry, ProcessTelemetryRequest
  <2>2. CASE sent' = "data"
    <3>1. hk.DeviceEnabled = DEVICE_ENABLED
      BY <1>5, <2>2 DEF ReportDeviceTelemetry, Transmits
    <3>2. hk' = [hk EXCEPT !.DeviceCount = Incremented(@)]
      BY <1>5, <2>2, <3>1 DEF ReportDeviceTelemetry, Transmits
    <3>3. /\ hk'.DeviceCount = Incremented(hk.DeviceCount)
          /\ hk'.DeviceErrorCount = hk.DeviceErrorCount
      BY <1>1, <3>2 DEF HkPackets
    <3>4. hk'.DeviceCount # hk.DeviceCount
      BY <1>1, <3>3, TickIsChange
    <3>5. spi = "open" /\ Published
      BY <1>1, <2>1, <2>2, <3>1 DEF HousekeepingTellsInterface, Published
    <3> QED
      BY <2>1, <3>3, <3>4, <3>5 DEF ActivityCounted
  <2>3. CASE sent' # "data"
    <3>1. UNCHANGED devicePkt /\ hk'.DeviceCount = hk.DeviceCount
      BY <1>1, <1>5, <2>3 DEF ReportDeviceTelemetry, Transmits, HkPackets
    <3> QED
      BY <2>1, <2>3, <3>1 DEF ActivityCounted, Published
  <2> QED
    BY <2>2, <2>3
<1>6. CASE EnableCommand \/ DisableCommand \/ Exit
  <2>1. Enable \/ Disable
    BY <1>6 DEF EnableCommand, DisableCommand, Exit
  <2>2. ~Published
    BY <1>6 DEF EnableCommand, DisableCommand, Exit, Transmits, Published, Serves
  <2> QED
    BY <1>1, <2>1, <2>2, InterfaceActivity DEF ActivityCounted
<1> QED
  BY <1>2, <1>3, <1>4, <1>5, <1>6, StepCases
     DEF ProcessGroundCommand, ProcessTelemetryRequest

\* Between resets DeviceCount moves exactly when the interface opened, closed
\* or gave data that were published; errors are counted apart.
THEOREM ActivityIsCounted == Spec => DeviceActivityCounted
<1>1. InterfaceInv /\ [Next]_vars => [ActivityCounted]_vars
  BY StepActivityCounted
<1> QED
  BY <1>1, InitInterface, NextInterface, PTL DEF Spec, DeviceActivityCounted
===============================================================================
