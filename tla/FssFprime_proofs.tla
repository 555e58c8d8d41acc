---------------------------- MODULE FssFprime_proofs ----------------------------
(***************************************************************************)
(* Theorems about the F' component, for every set of failing calls, every  *)
(* depth of its queue and every width of the counters.                     *)
(***************************************************************************)
EXTENDS FssFprime, TLAPS

\* A counter that is incremented stays a counter, and is another one.
LEMMA IncrementedIsCounter ==
    \A n \in Counter : Incremented(n) \in Counter /\ Incremented(n) # n
BY CounterModulusAssumption DEF Counter, Incremented

\* The packet of a fresh app, and a packet after a reset, are packets.
LEMMA ResetIsHk ==
    /\ ZeroHk \in HkPackets
    /\ \A packet \in HkPackets : ResetCounters(packet) \in HkPackets
BY CounterModulusAssumption
   DEF ZeroHk, HkPackets, ResetCounters, Counter, DEVICE_DISABLED, DEVICE_ENABLED

\* However the handlers count, the packet stays a packet.
LEMMA CountedIsHk ==
    ASSUME hk \in HkPackets
    PROVE  /\ Accepted \in HkPackets
           /\ Refused \in HkPackets
           /\ \A h \in HkPackets : Worked(h) \in HkPackets /\ Failed(h) \in HkPackets
BY IncrementedIsCounter DEF HkPackets, Accepted, Refused, Worked, Failed

\* Opening, closing and asking the device keep the types.
LEMMA DeviceTyped ==
    ASSUME hk \in HkPackets, spi \in {"open", "closed"}, FSSData \in Readings
    PROVE  /\ OpenDevice \/ CloseDevice => hk' \in HkPackets /\ spi' \in {"open", "closed"}
           /\ \A h \in HkPackets :
                 Request_Counted(h) => hk' \in HkPackets /\ FSSData' \in Readings
<1>1. \A e \in {DEVICE_ENABLED, DEVICE_DISABLED} :
          [Accepted EXCEPT !.DeviceEnabled = e] \in HkPackets
  BY CountedIsHk DEF HkPackets
<1> QED
  BY <1>1, CountedIsHk DEF OpenDevice, CloseDevice, Request_Counted

\* Writing channels keeps their types.
LEMMA WriteTyped ==
    ASSUME NEW names \in SUBSET Channels, Write(names),
           tlmHk \in HkPackets, tlmData \in Readings, written \in SUBSET Channels,
           hk' \in HkPackets, FSSData' \in Readings
    PROVE  tlmHk' \in HkPackets /\ tlmData' \in Readings /\ written' \in SUBSET Channels
BY DEF Write, Chosen, HkPackets

\* The sets of channels that the handlers write.
LEMMA ChannelSets ==
    /\ CounterChannels \cup {"FSSData"} \in SUBSET Channels
    /\ {"CommandCount", "DeviceEnabled"} \in SUBSET Channels
    /\ HkChannels \in SUBSET Channels
    /\ CounterChannels \in SUBSET Channels
    /\ Channels \in SUBSET Channels
BY DEF Channels, HkChannels, CounterChannels, CommandChannels, DeviceChannels

\* What every handler does to the queue.
LEMMA HandleTyped ==
    ASSUME TypeOK, NEW message, Handle(message)
    PROVE  queue' \in Seq(Commands \cup Ports) /\ component' = "running"
BY DEF TypeOK, Handle

(***************************************************************************)
(* Type correctness.                                                       *)
(***************************************************************************)
LEMMA InitTypeOK == Init => TypeOK
<1>1. ZeroReading \in Readings
  BY AnglesAssumption DEF ZeroReading, Readings
<1>2. << >> \in Seq(Commands \cup Ports)
  OBVIOUS
<1> QED
  BY <1>1, <1>2, ResetIsHk DEF Init, TypeOK

\* What a handler leaves in the packet and in the data.
LEMMA ThreadTyped ==
    ASSUME TypeOK, Thread
    PROVE  hk' \in HkPackets /\ FSSData' \in Readings /\ spi' \in {"open", "closed"}
<1> USE CountedIsHk, DeviceTyped, ResetIsHk DEF TypeOK
<1>1. CASE updateData
  BY <1>1 DEF updateData
<1>2. CASE updateTlm
  BY <1>2 DEF updateTlm
<1>3. CASE NOOP
  BY <1>3 DEF NOOP
<1>4. CASE RESET_COUNTERS
  BY <1>4 DEF RESET_COUNTERS
<1>5. CASE ENABLE
  BY <1>5 DEF ENABLE
<1>6. CASE DISABLE
  BY <1>6 DEF DISABLE
<1>7. CASE REQUEST_HOUSEKEEPING
  BY <1>7 DEF REQUEST_HOUSEKEEPING
<1>8. CASE REQUEST_DATA
  BY <1>8 DEF REQUEST_DATA
<1> QED
  BY <1>1, <1>2, <1>3, <1>4, <1>5, <1>6, <1>7, <1>8 DEF Thread, Command

\* A handler leaves the channels alone or writes one of the sets.
LEMMA ThreadWrites ==
    ASSUME Thread
    PROVE  UNCHANGED tlm \/ \E names \in SUBSET Channels : Write(names)
BY ChannelSets
   DEF Thread, Command, updateData, updateTlm, NOOP, RESET_COUNTERS, ENABLE, DISABLE,
       REQUEST_HOUSEKEEPING, REQUEST_DATA

LEMMA NextTypeOK == TypeOK /\ [Next]_vars => TypeOK'
<1> SUFFICES ASSUME TypeOK, [Next]_vars PROVE TypeOK'
  OBVIOUS
<1> USE DEF TypeOK
<1>1. CASE Construct
  <2>1. hk' \in HkPackets
    BY <1>1, ResetIsHk DEF Construct, HkPackets, DEVICE_ENABLED, DEVICE_DISABLED
  <2> QED
    BY <1>1, <2>1 DEF Construct, tlm
<1>2. CASE Thread
  <2>1. queue' \in Seq(Commands \cup Ports) /\ component' = "running" /\ outrun' \in BOOLEAN
    BY <1>2, HandleTyped
       DEF Thread, Command, updateData, updateTlm, NOOP, RESET_COUNTERS, ENABLE, DISABLE,
           REQUEST_HOUSEKEEPING, REQUEST_DATA, HandleCommand
  <2>2. tlmHk' \in HkPackets /\ tlmData' \in Readings /\ written' \in SUBSET Channels
    BY <1>2, ThreadTyped, ThreadWrites, WriteTyped DEF tlm
  <2> QED
    BY <1>2, <2>1, <2>2, ThreadTyped
<1>3. CASE \E message \in Commands \cup Ports : Invoke(message)
  BY <1>3 DEF Invoke, tlm
<1>4. CASE Destroy
  BY <1>4 DEF Destroy, tlm
<1>5. CASE UNCHANGED vars
  BY <1>5 DEF vars, tlm
<1> QED
  BY <1>1, <1>2, <1>3, <1>4, <1>5 DEF Next, Environment

\* The state of the component is always of its type.
THEOREM TypeCorrect == Spec => []TypeOK
BY InitTypeOK, NextTypeOK, PTL DEF Spec
-------------------------------------------------------------------------------
(***************************************************************************)
(* The interface.  Only the constructor, ENABLE and DISABLE touch it or    *)
(* DeviceEnabled; the lemma says how.                                      *)
(***************************************************************************)
LEMMA InterfaceSteps ==
    ASSUME TypeOK, Thread
    PROVE  \/ hk'.DeviceEnabled = hk.DeviceEnabled /\ UNCHANGED spi
           \/ hk'.DeviceEnabled = DEVICE_ENABLED /\ spi' = "open"
           \/ hk'.DeviceEnabled = DEVICE_DISABLED /\ spi' = "closed"
<1> USE CountedIsHk DEF TypeOK, HkPackets
<1>1. CASE updateData
  BY <1>1 DEF updateData, Request_Counted, Worked, Failed
<1>2. CASE updateTlm
  BY <1>2 DEF updateTlm
<1>3. CASE NOOP
  BY <1>3 DEF NOOP, Accepted
<1>4. CASE RESET_COUNTERS
  BY <1>4 DEF RESET_COUNTERS, ResetCounters, ZeroHk
<1>5. CASE ENABLE
  BY <1>5 DEF ENABLE, OpenDevice, Accepted, Refused, Worked, Failed
<1>6. CASE DISABLE
  BY <1>6 DEF DISABLE, CloseDevice, Accepted, Refused, Worked, Failed
<1>7. CASE REQUEST_HOUSEKEEPING
  BY <1>7 DEF REQUEST_HOUSEKEEPING, Accepted
<1>8. CASE REQUEST_DATA
  BY <1>8 DEF REQUEST_DATA, Request_Counted, Accepted, Refused, Worked, Failed
<1> QED
  BY <1>1, <1>2, <1>3, <1>4, <1>5, <1>6, <1>7, <1>8 DEF Thread, Command

\* The constructor opens the device without looking: it must be closed before.
InterfaceInv ==
    /\ TypeOK
    /\ component = "new" => spi = "closed"
    /\ OpenIsEnabled

LEMMA NextInterfaceInv == InterfaceInv /\ [Next]_vars => InterfaceInv'
<1> SUFFICES ASSUME InterfaceInv, [Next]_vars PROVE InterfaceInv'
  OBVIOUS
<1> USE DEF InterfaceInv, OpenIsEnabled
<1>1. TypeOK'
  BY NextTypeOK
<1>2. CASE Construct
  BY <1>1, <1>2 DEF Construct, ZeroHk
<1>3. CASE Thread
  <2>1. component = "running" /\ component' = "running"
    BY <1>3
       DEF Thread, Command, updateData, updateTlm, NOOP, RESET_COUNTERS, ENABLE, DISABLE,
           REQUEST_HOUSEKEEPING, REQUEST_DATA, HandleCommand, Handle
  <2> QED
    BY <1>1, <1>3, <2>1, InterfaceSteps
<1>4. CASE \E message \in Commands \cup Ports : Invoke(message)
  BY <1>1, <1>4 DEF Invoke
<1>5. CASE Destroy
  BY <1>1, <1>5 DEF Destroy
<1>6. CASE UNCHANGED vars
  BY <1>1, <1>6 DEF vars
<1> QED
  BY <1>2, <1>3, <1>4, <1>5, <1>6 DEF Next, Environment

\* An open device is said to be enabled, after any history of failures.
THEOREM OpenMeansEnabled == Spec => []OpenIsEnabled
<1>1. Init => InterfaceInv
  BY InitTypeOK DEF Init, InterfaceInv, OpenIsEnabled
<1>2. InterfaceInv => OpenIsEnabled
  BY DEF InterfaceInv
<1> QED
  BY <1>1, <1>2, NextInterfaceInv, PTL DEF Spec

\* A step keeps the agreement of DeviceEnabled and the device.
LEMMA StepKeepsAgreement == TypeOK /\ [Next]_vars => AgreementKept
<1> SUFFICES ASSUME TypeOK, [Next]_vars, component = "running", component' = "running",
                    Agree
             PROVE  Agree'
  BY DEF AgreementKept
<1> USE DEF Agree
<1>1. CASE Thread
  BY <1>1, InterfaceSteps DEF DEVICE_ENABLED, DEVICE_DISABLED
<1>2. CASE Construct \/ Destroy
  BY <1>2 DEF Construct, Destroy
<1>3. CASE \E message \in Commands \cup Ports : Invoke(message)
  BY <1>3 DEF Invoke
<1>4. CASE UNCHANGED vars
  BY <1>4 DEF vars
<1> QED
  BY <1>1, <1>2, <1>3, <1>4 DEF Next, Environment

\* Once the two agree they agree as long as the component runs.
THEOREM AgreementIsKept == Spec => AgreementLasts
BY InitTypeOK, NextTypeOK, StepKeepsAgreement, PTL DEF Spec, AgreementLasts
-------------------------------------------------------------------------------
(***************************************************************************)
(* The channels.  One lemma says when writing a set of channels keeps them *)
(* current: when every part of the state that the handler moved is among   *)
(* those it writes, or is excused.                                         *)
(***************************************************************************)
Part(c) == IF c = "FSSData" THEN FSSData ELSE hk[c]

Excused == IF outrun THEN DeviceChannels \cup {"FSSData"} ELSE {}

\* A channel that is written is current.
LEMMA WrittenIsCurrent ==
    ASSUME NEW names \in SUBSET Channels, Write(names), hk' \in HkPackets
    PROVE  names \subseteq CurrentChannels'
<1> SUFFICES ASSUME NEW c \in names PROVE c \in CurrentChannels'
  OBVIOUS
<1> USE DEF CurrentChannels, Write, Chosen
<1>1. CASE c = "FSSData"
  BY <1>1
<1>2. CASE c \in HkChannels
  BY <1>2 DEF HkChannels, CounterChannels, CommandChannels, DeviceChannels, HkPackets
<1> QED
  BY <1>1, <1>2 DEF Channels

\* A channel that is not written stays current if its part does not move.
LEMMA UnwrittenStaysCurrent ==
    ASSUME NEW names \in SUBSET Channels, Write(names),
           hk \in HkPackets, hk' \in HkPackets, tlmHk \in HkPackets,
           NEW c \in CurrentChannels \ names, Part(c)' = Part(c)
    PROVE  c \in CurrentChannels'
<1> USE DEF CurrentChannels, Write, Chosen, Part
<1>1. CASE c = "FSSData"
  BY <1>1 DEF HkChannels, CounterChannels, CommandChannels, DeviceChannels
<1>2. CASE c \in HkChannels
  BY <1>2 DEF HkChannels, CounterChannels, CommandChannels, DeviceChannels, HkPackets
<1> QED
  BY <1>1, <1>2

LEMMA WriteKeepsCurrent ==
    ASSUME NEW names \in SUBSET Channels, Write(names), ChannelsCurrent,
           hk \in HkPackets, hk' \in HkPackets, tlmHk \in HkPackets,
           Excused \subseteq Excused' \cup names,
           \A c \in Channels \ names : Part(c)' = Part(c)
    PROVE  ChannelsCurrent'
<1> SUFFICES ASSUME NEW c \in written' PROVE c \in CurrentChannels' \cup Excused'
  BY DEF ChannelsCurrent, Excused
<1>1. CASE c \in names
  BY <1>1, WrittenIsCurrent
<1>2. CASE c \notin names
  <2>1. c \in CurrentChannels \cup Excused
    BY <1>2 DEF Write, ChannelsCurrent, Excused
  <2>2. CASE c \in CurrentChannels
    <3>1. c \in Channels
      BY <2>2 DEF CurrentChannels, Channels
    <3> QED
      BY <1>2, <2>2, <3>1, UnwrittenStaysCurrent
  <2> QED
    BY <1>2, <2>1, <2>2
<1> QED
  BY <1>1, <1>2

\* A step that moves neither the channels nor what they show.
LEMMA NothingMoves ==
    ASSUME ChannelsCurrent, UNCHANGED <<hk, FSSData, tlm, outrun>>
    PROVE  ChannelsCurrent'
BY DEF ChannelsCurrent, CurrentChannels, tlm

\* Case by case: what the handler moves is among what it writes.
LEMMA ThreadKeepsChannels ==
    ASSUME TypeOK, ChannelsCurrent, Thread
    PROVE  ChannelsCurrent'
<1> DEFINE Moved(names) == \A c \in Channels \ names : Part(c)' = Part(c)
<1> USE DEF TypeOK, Channels, HkChannels, CounterChannels, CommandChannels,
            DeviceChannels, HkPackets
<1>0. hk' \in HkPackets
  BY ThreadTyped
<1>1. CASE updateData
  <2>1. UNCHANGED tlm /\ outrun' = TRUE
    BY <1>1 DEF updateData
  <2>2. \A c \in HkChannels \ DeviceChannels : hk'[c] = hk[c]
    BY <1>1 DEF updateData, Request_Counted, Worked, Failed
  <2>3. SUFFICES ASSUME NEW c \in written, c \notin DeviceChannels \cup {"FSSData"}
                 PROVE  c \in CurrentChannels'
    BY <2>1 DEF ChannelsCurrent, tlm
  <2>4. c \in CurrentChannels
    BY <2>3 DEF ChannelsCurrent
  <2> QED
    BY <2>1, <2>2, <2>3, <2>4 DEF CurrentChannels, tlm
<1>2. CASE updateTlm
  <2>1. Write(CounterChannels \cup {"FSSData"}) /\ Moved(CounterChannels \cup {"FSSData"})
    BY <1>2 DEF updateTlm, Part
  <2>2. Excused \subseteq Excused' \cup CounterChannels \cup {"FSSData"}
    BY DEF Excused
  <2> QED
    BY <1>0, <2>1, <2>2, WriteKeepsCurrent, ChannelSets
<1>3. CASE NOOP
  <2>1. Write({"CommandCount", "DeviceEnabled"}) /\ Moved({"CommandCount", "DeviceEnabled"})
    BY <1>3 DEF NOOP, Accepted, Part
  <2>2. Excused' = Excused
    BY <1>3 DEF NOOP, HandleCommand, Excused
  <2> QED
    BY <1>0, <2>1, <2>2, WriteKeepsCurrent, ChannelSets
<1>4. CASE RESET_COUNTERS
  <2>1. Write(CounterChannels) /\ Moved(CounterChannels)
    BY <1>4 DEF RESET_COUNTERS, ResetCounters, ZeroHk, Part
  <2>2. Excused' = Excused
    BY <1>4 DEF RESET_COUNTERS, HandleCommand, Excused
  <2> QED
    BY <1>0, <2>1, <2>2, WriteKeepsCurrent, ChannelSets
<1>5. CASE ENABLE \/ DISABLE
  <2>1. Write(HkChannels) /\ Moved(HkChannels)
    BY <1>5 DEF ENABLE, DISABLE, Part
  <2>2. Excused' = Excused
    BY <1>5 DEF ENABLE, DISABLE, HandleCommand, Excused
  <2> QED
    BY <1>0, <2>1, <2>2, WriteKeepsCurrent, ChannelSets
<1>6. CASE REQUEST_HOUSEKEEPING
  <2>1. CASE UNCHANGED <<hk, FSSData, tlm>>
    BY <1>6, <2>1, NothingMoves DEF REQUEST_HOUSEKEEPING, HandleCommand
  <2>2. CASE Write(Channels)
    <3>1. Excused' = Excused /\ Moved(Channels)
      BY <1>6 DEF REQUEST_HOUSEKEEPING, HandleCommand, Excused
    <3> QED
      BY <1>0, <2>2, <3>1, WriteKeepsCurrent, ChannelSets
  <2> QED
    BY <1>6, <2>1, <2>2 DEF REQUEST_HOUSEKEEPING
<1>7. CASE REQUEST_DATA
  <2>1. Write(CounterChannels \cup {"FSSData"})
    BY <1>7 DEF REQUEST_DATA
  <2>2. hk'.DeviceEnabled = hk.DeviceEnabled
    BY <1>7 DEF REQUEST_DATA, Request_Counted, Accepted, Refused, Worked, Failed
  <2>3. Moved(CounterChannels \cup {"FSSData"})
    BY <2>2 DEF Part
  <2>4. Excused' = Excused
    BY <1>7 DEF REQUEST_DATA, HandleCommand, Excused
  <2> QED
    BY <1>0, <2>1, <2>3, <2>4, WriteKeepsCurrent, ChannelSets
<1> QED
  BY <1>1, <1>2, <1>3, <1>4, <1>5, <1>6, <1>7 DEF Thread, Command

\* The constructor sets DeviceEnabled and writes no channel: none was written.
ChannelInv ==
    /\ TypeOK
    /\ component = "new" => written = {}
    /\ ChannelsCurrent

LEMMA NextChannelInv == ChannelInv /\ [Next]_vars => ChannelInv'
<1> SUFFICES ASSUME ChannelInv, [Next]_vars PROVE ChannelInv'
  OBVIOUS
<1> USE DEF ChannelInv
<1>1. TypeOK'
  BY NextTypeOK
<1>2. CASE Construct
  BY <1>1, <1>2 DEF Construct, ChannelsCurrent, tlm
<1>3. CASE Thread
  <2>1. component' = "running"
    BY <1>3
       DEF Thread, Command, updateData, updateTlm, NOOP, RESET_COUNTERS, ENABLE, DISABLE,
           REQUEST_HOUSEKEEPING, REQUEST_DATA, HandleCommand, Handle
  <2> QED
    BY <1>1, <1>3, <2>1, ThreadKeepsChannels
<1>4. CASE \E message \in Commands \cup Ports : Invoke(message)
  BY <1>1, <1>4, NothingMoves DEF Invoke, tlm
<1>5. CASE Destroy
  BY <1>1, <1>5, NothingMoves DEF Destroy, tlm
<1>6. CASE UNCHANGED vars
  BY <1>1, <1>6, NothingMoves DEF vars, tlm
<1> QED
  BY <1>2, <1>3, <1>4, <1>5, <1>6 DEF Next, Environment

(***************************************************************************)
(* A channel that has been written shows what the component holds, but for *)
(* those that an updateData without an updateTlm has left behind.          *)
(***************************************************************************)
THEOREM ChannelsAreCurrent == Spec => []ChannelsCurrent
<1>1. Init => ChannelInv
  BY InitTypeOK DEF Init, ChannelInv, ChannelsCurrent
<1>2. ChannelInv => ChannelsCurrent
  BY DEF ChannelInv
<1> QED
  BY <1>1, <1>2, NextChannelInv, PTL DEF Spec
-------------------------------------------------------------------------------
(***************************************************************************)
(* Counting.                                                               *)
(***************************************************************************)

\* The two ways of counting, and the device's counts on top of them.
LEMMA CountingMoves ==
    ASSUME hk \in HkPackets, NEW h \in HkPackets,
           hk' = h \/ hk' = Worked(h) \/ hk' = Failed(h)
    PROVE  /\ h = hk => NotCounted
           /\ \/ h = Accepted
              \/ h = Refused
              \/ \E e \in {DEVICE_ENABLED, DEVICE_DISABLED} :
                    h = [Accepted EXCEPT !.DeviceEnabled = e]
              => CountedOnce
BY DEF HkPackets, Worked, Failed, Accepted, Refused, NotCounted, CountedOnce, Ticks

LEMMA StepCountsCommands == TypeOK /\ [Next]_vars => CommandCounted
<1> SUFFICES ASSUME TypeOK, [Next]_vars, component = "running" PROVE CommandCounted
  BY DEF CommandCounted
<1> USE DEF TypeOK
<1>0. ASSUME NEW message \in Commands, HandleCommand(message) PROVE Serves /\ Head(queue) = message
  BY <1>0 DEF HandleCommand, Handle, Serves
<1>1. \A e \in {DEVICE_ENABLED, DEVICE_DISABLED} :
          [Accepted EXCEPT !.DeviceEnabled = e] \in HkPackets
  BY CountedIsHk DEF HkPackets
<1>2. CASE updateData
  <2>1. Head(queue) \notin Commands
    BY <1>2 DEF updateData, Handle, Commands
  <2>2. NotCounted
    BY <1>2, CountingMoves DEF updateData, Request_Counted
  <2> QED
    BY <2>1, <2>2 DEF CommandCounted, Commands
<1>3. CASE updateTlm
  <2>1. Head(queue) \notin Commands
    BY <1>3 DEF updateTlm, Handle, Commands
  <2> QED
    BY <1>3, <2>1 DEF updateTlm, CommandCounted, NotCounted, Commands
<1>4. CASE NOOP
  <2>1. CountedOnce
    BY <1>4, CountedIsHk, CountingMoves DEF NOOP
  <2> QED
    BY <1>0, <1>4, <2>1 DEF NOOP, CommandCounted, Commands
<1>5. CASE RESET_COUNTERS
  BY <1>0, <1>5 DEF RESET_COUNTERS, CommandCounted, Commands, ResetCounters, ZeroHk
<1>6. CASE ENABLE
  <2>1. CountedOnce
    BY <1>1, <1>6, CountedIsHk, CountingMoves DEF ENABLE, OpenDevice
  <2> QED
    BY <1>0, <1>6, <2>1 DEF ENABLE, CommandCounted, Commands
<1>7. CASE DISABLE
  <2>1. CountedOnce
    BY <1>1, <1>7, CountedIsHk, CountingMoves DEF DISABLE, CloseDevice
  <2> QED
    BY <1>0, <1>7, <2>1 DEF DISABLE, CommandCounted, Commands
<1>8. CASE REQUEST_HOUSEKEEPING
  <2>1. \/ CountedOnce
        \/ hk.DeviceEnabled = DEVICE_DISABLED /\ NotCounted
    BY <1>8, CountedIsHk, CountingMoves DEF REQUEST_HOUSEKEEPING, NotCounted, HkPackets
  <2> QED
    BY <1>0, <1>8, <2>1 DEF REQUEST_HOUSEKEEPING, CommandCounted, Commands
<1>9. CASE REQUEST_DATA
  <2>1. CountedOnce
    BY <1>9, CountedIsHk, CountingMoves DEF REQUEST_DATA, Request_Counted
  <2> QED
    BY <1>0, <1>9, <2>1 DEF REQUEST_DATA, CommandCounted, Commands
<1>10. CASE Construct \/ Destroy \/ UNCHANGED vars
  <2>1. ~Serves /\ NotCounted
    BY <1>10 DEF Construct, Destroy, vars, Serves, NotCounted
  <2> QED
    BY <2>1 DEF CommandCounted
<1>11. CASE \E message \in Commands \cup Ports : Invoke(message)
  <2>1. ~Serves /\ NotCounted
    BY <1>11 DEF Invoke, Serves, NotCounted
  <2> QED
    BY <2>1 DEF CommandCounted
<1> QED
  BY <1>2, <1>3, <1>4, <1>5, <1>6, <1>7, <1>8, <1>9, <1>10, <1>11
     DEF Next, Thread, Command, Environment

\* Every command moves one command counter by one, and nothing else does.
THEOREM CommandsAreCountedOnce == Spec => CommandsCountedOnce
BY InitTypeOK, NextTypeOK, StepCountsCommands, PTL DEF Spec, CommandsCountedOnce
=================================================================================
