---------------------------- MODULE FssGround_proofs ----------------------------
(***************************************************************************)
(* Theorems about the ground commanding the application, for every number  *)
(* of calls, every capacity of the links and of the pipe, and every width  *)
(* of the counters, whether the device opens and closes or not.            *)
(***************************************************************************)
EXTENDS FssGround, SequenceTheorems, TLAPS

\* A counter that is incremented stays a counter, and is another one.
LEMMA IncrementedIsCounter ==
    \A n \in Counter : Incremented(n) \in Counter /\ Incremented(n) # n
BY CounterModulusAssumption DEF Counter, Incremented

\* The packet of a fresh app, and a packet after a reset, are packets.
LEMMA ResetIsHk ==
    /\ ZeroHk \in HkPackets
    /\ \A packet \in HkPackets : ResetCounters(packet) \in HkPackets
BY CounterModulusAssumption
   DEF ZeroHk, HkPackets, ResetCounters, Counter, DEVICE_DISABLED, DEVICE_ENABLED

\* Sequences: a packet that moves from the front of one to the end of another.
LEMMA HeadMoves ==
    ASSUME NEW S, NEW a \in Seq(S), NEW b \in Seq(S), b # << >>
    PROVE  Append(a, Head(b)) \o Tail(b) = a \o b
<1>1. Head(b) \in S /\ Tail(b) \in Seq(S) /\ Head(b) = b[1]
  BY HeadTailProperties
<1>2. Append(a, Head(b)) \in Seq(S)
  BY <1>1, AppendProperties
<1> DEFINE moved == Append(a, Head(b)) \o Tail(b)
<1>3. /\ moved \in Seq(S)
      /\ Len(moved) = Len(a) + Len(b)
      /\ \A i \in 1 .. Len(a) + Len(b) :
            moved[i] = IF i <= Len(a) + 1 THEN Append(a, Head(b))[i]
                       ELSE Tail(b)[i - (Len(a) + 1)]
  <2>1. Len(Append(a, Head(b))) = Len(a) + 1 /\ Len(Tail(b)) = Len(b) - 1
    BY <1>1, AppendProperties, HeadTailProperties
  <2>2. Len(a) \in Nat /\ Len(b) \in Nat
    BY LenProperties
  <2> QED
    BY <1>1, <1>2, <2>1, <2>2, ConcatProperties
<1>4. /\ a \o b \in Seq(S)
      /\ Len(a \o b) = Len(a) + Len(b)
      /\ \A i \in 1 .. Len(a) + Len(b) :
            (a \o b)[i] = IF i <= Len(a) THEN a[i] ELSE b[i - Len(a)]
  BY ConcatProperties
<1>5. ASSUME NEW i \in 1 .. Len(a) + Len(b)
      PROVE  moved[i] = (a \o b)[i]
  <2>1. Len(a) \in Nat /\ Len(b) \in Nat
    BY LenProperties
  <2>2. CASE i <= Len(a)
    BY <1>1, <1>3, <1>4, <2>1, <2>2, AppendProperties
  <2>3. CASE i = Len(a) + 1
    BY <1>1, <1>3, <1>4, <2>1, <2>3, AppendProperties
  <2>4. CASE i > Len(a) + 1
    <3>1. i - (Len(a) + 1) \in 1 .. Len(Tail(b))
      BY <2>1, <2>4, HeadTailProperties
    <3>2. Tail(b)[i - (Len(a) + 1)] = b[i - (Len(a) + 1) + 1]
      BY <3>1, HeadTailProperties
    <3> QED
      BY <1>3, <1>4, <2>1, <2>4, <3>2
  <2> QED
    BY <2>1, <2>2, <2>3, <2>4
<1> QED
  BY <1>3, <1>4, <1>5, SeqEqual

\* What is left of two sequences when the first packet of the second is taken away.
LEMMA HeadTakenAway ==
    ASSUME NEW S, NEW a \in Seq(S), NEW b \in Seq(S), b # << >>
    PROVE  /\ Len(a \o Tail(b)) = Len(a \o b) - 1
           /\ \A T : a \o b \in Seq(T) => a \o Tail(b) \in Seq(T)
<1> USE LenProperties
<1>1. Tail(b) \in Seq(S) /\ Len(Tail(b)) = Len(b) - 1
  BY HeadTailProperties
<1>2. Len(a \o Tail(b)) = Len(a \o b) - 1
  <2>1. Len(a \o Tail(b)) = Len(a) + Len(Tail(b)) /\ Len(a \o b) = Len(a) + Len(b)
    BY <1>1, ConcatProperties
  <2> QED
    BY <1>1, <2>1
<1>3. ASSUME NEW T, a \o b \in Seq(T)
      PROVE  a \o Tail(b) \in Seq(T)
  <2>1. ASSUME NEW i \in 1 .. Len(a) PROVE a[i] \in T
    <3>1. i \in 1 .. Len(a \o b) /\ (a \o b)[i] = a[i]
      BY ConcatProperties
    <3> QED
      BY <1>3, <3>1, ElementOfSeq
  <2>2. ASSUME NEW i \in 1 .. Len(b) PROVE b[i] \in T
    <3>1. /\ Len(a) + i \in 1 .. Len(a \o b)
          /\ (a \o b)[Len(a) + i] = b[Len(a) + i - Len(a)]
      BY ConcatProperties
    <3>2. Len(a) + i - Len(a) = i
      OBVIOUS
    <3> QED
      BY <1>3, <3>1, <3>2, ElementOfSeq
  <2>3. a \in Seq(T) /\ b \in Seq(T)
    BY <2>1, <2>2, SeqDef
  <2> QED
    BY <2>3, HeadTailProperties, ConcatProperties
<1> QED
  BY <1>2, <1>3

\* A packet put before a sequence, as the one that is being handled is.
LEMMA FirstOfAll ==
    ASSUME NEW S, NEW x \in S, NEW s \in Seq(S)
    PROVE  /\ <<x>> \o s \in Seq(S)
           /\ Len(<<x>> \o s) = Len(s) + 1
           /\ (<<x>> \o s)[1] = x
           /\ \A i \in 1 .. Len(s) : (<<x>> \o s)[i + 1] = s[i]
<1>1. <<x>> \in Seq(S) /\ Len(<<x>>) = 1 /\ <<x>>[1] = x
  OBVIOUS
<1>2. Len(s) \in Nat
  BY LenProperties
<1>3. /\ <<x>> \o s \in Seq(S)
      /\ Len(<<x>> \o s) = Len(s) + 1
      /\ \A i \in 1 .. Len(s) + 1 :
            (<<x>> \o s)[i] = IF i <= 1 THEN <<x>>[i] ELSE s[i - 1]
  BY <1>1, <1>2, ConcatProperties
<1>4. ASSUME NEW i \in 1 .. Len(s) PROVE (<<x>> \o s)[i + 1] = s[i]
  <2>1. i + 1 \in 1 .. Len(s) + 1 /\ ~(i + 1 <= 1) /\ (i + 1) - 1 = i
    BY <1>2
  <2> QED
    BY <1>3, <2>1
<1> QED
  BY <1>1, <1>2, <1>3, <1>4

LEMMA FirstIsElement ==
    ASSUME NEW S, NEW s \in Seq(S), s # << >>
    PROVE  s[1] \in S
<1>1. Len(s) \in Nat \ {0}
  BY EmptySeq
<1>2. 1 \in 1 .. Len(s)
  BY <1>1
<1> QED
  BY <1>2, ElementOfSeq

\* A packet put on the command link is the last of all.
LEMMA LastOfAll ==
    ASSUME NEW S, NEW a \in Seq(S), NEW b \in Seq(S), NEW x \in S
    PROVE  a \o Append(b, x) = Append(a \o b, x)
<1>1. <<x>> \in Seq(S) /\ a \o b \in Seq(S)
  BY ConcatProperties
<1>2. Append(b, x) = b \o <<x>> /\ Append(a \o b, x) = (a \o b) \o <<x>>
  BY <1>1, AppendIsConcat
<1> QED
  BY <1>1, <1>2, ConcatAssociative
-------------------------------------------------------------------------------
(***************************************************************************)
(* The application, as the ground sees it: what handling a packet does to  *)
(* its housekeeping, its device and its place in the loop.                 *)
(***************************************************************************)
AppInv ==
    /\ App!TypeOK
    /\ App!HousekeepingTellsInterface

\* The definitions of FssHk and FssWire under both their names.
LEMMA SameNames ==
    /\ App!HkPackets = HkPackets
    /\ \A n : App!Incremented(n) = Incremented(n)
    /\ App!ZeroHk = ZeroHk
    /\ App!ZeroReading = ZeroReading
    /\ App!Readings = Readings
    /\ \A packet : App!ResetCounters(packet) = ResetCounters(packet)
BY DEF App!HkPackets, HkPackets, App!Counter, Counter, App!DEVICE_DISABLED, DEVICE_DISABLED,
       App!DEVICE_ENABLED, DEVICE_ENABLED, App!Incremented, Incremented, App!ZeroHk, ZeroHk,
       App!ZeroReading, ZeroReading, App!Readings, Readings, App!ResetCounters, ResetCounters

LEMMA SameCodes ==
    /\ NOOP_CC = 0 /\ RESET_COUNTERS_CC = 1 /\ ENABLE_CC = 2 /\ DISABLE_CC = 3
    /\ App!NOOP_CC = 0 /\ App!RESET_COUNTERS_CC = 1 /\ App!ENABLE_CC = 2 /\ App!DISABLE_CC = 3
    /\ App!DEVICE_DISABLED = 0 /\ App!DEVICE_ENABLED = 1
    /\ DEVICE_DISABLED = 0 /\ DEVICE_ENABLED = 1
BY DEF NOOP_CC, RESET_COUNTERS_CC, ENABLE_CC, DISABLE_CC, App!NOOP_CC, App!RESET_COUNTERS_CC,
       App!ENABLE_CC, App!DISABLE_CC, App!DEVICE_DISABLED, App!DEVICE_ENABLED,
       DEVICE_DISABLED, DEVICE_ENABLED

\* The four ways in which a command that is not the reset counts, each of
\* which leaves the packet a packet.
LEMMA PacketAfterCommand ==
    ASSUME hk \in HkPackets
    PROVE  /\ App!RejectCommand =>
                hk' \in HkPackets /\ hk'.CommandCount = hk.CommandCount
                  /\ hk'.DeviceEnabled = hk.DeviceEnabled
           /\ App!SpiInitFails \/ App!SpiCloseFails
                 \/ hk' = [hk EXCEPT !.CommandCount = App!Incremented(@)] =>
                hk' \in HkPackets /\ hk'.CommandCount = Incremented(hk.CommandCount)
                  /\ hk'.DeviceEnabled = hk.DeviceEnabled
           /\ App!SpiInitSucceeds =>
                hk' \in HkPackets /\ hk'.CommandCount = Incremented(hk.CommandCount)
                  /\ hk'.DeviceEnabled = 1
           /\ App!SpiCloseSucceeds =>
                hk' \in HkPackets /\ hk'.CommandCount = Incremented(hk.CommandCount)
                  /\ hk'.DeviceEnabled = 0
BY SameNames, SameCodes, IncrementedIsCounter
   DEF HkPackets, App!RejectCommand, App!SpiInitFails, App!SpiCloseFails, App!SpiInitSucceeds,
       App!SpiCloseSucceeds

\* GENERIC_FSS_Enable and GENERIC_FSS_Disable, whatever fails.
LEMMA SwitchCounts ==
    ASSUME AppInv, App!Enable \/ App!Disable
    PROVE  /\ hk' \in HkPackets /\ spi' \in {"open", "closed"} /\ UNCHANGED devicePkt
           /\ hk'.CommandCount \in {hk.CommandCount, Incremented(hk.CommandCount)}
           /\ App!HousekeepingTellsInterface'
BY PacketAfterCommand, SameNames, SameCodes
   DEF AppInv, App!TypeOK, App!Enable, App!Disable, App!HousekeepingTellsInterface

\* A handler of a ground command.
LEMMA CommandHandled ==
    ASSUME AppInv, App!ProcessGroundCommand
    PROVE  /\ pc = "Process" /\ pc' = "RunLoop" /\ msg.MsgId = "CMD_MID"
           /\ UNCHANGED <<RunStatus, esRequest, subscribed, pipe, msg>>
           /\ AppInv'
           /\ \/ msg.code = RESET_COUNTERS_CC
              \/ hk'.CommandCount \in {hk.CommandCount, Incremented(hk.CommandCount)}
<1> USE SameNames, SameCodes
<1>1. /\ pc = "Process" /\ pc' = "RunLoop" /\ msg.MsgId = "CMD_MID" /\ sent' = "none"
      /\ UNCHANGED <<RunStatus, esRequest, subscribed, pipe, msg>>
  BY DEF App!ProcessGroundCommand, App!NoopCommand, App!ResetCommand, App!EnableCommand,
         App!DisableCommand, App!BadLength, App!BadCommandCode, App!GroundCommand,
         App!Handle, App!Transmits, App!loopVars
<1>2. /\ hk' \in HkPackets /\ spi' \in {"open", "closed"} /\ UNCHANGED devicePkt
      /\ \/ msg.code = RESET_COUNTERS_CC
         \/ hk'.CommandCount \in {hk.CommandCount, Incremented(hk.CommandCount)}
      /\ App!HousekeepingTellsInterface'
  <2> USE DEF App!deviceVars
  <2>1. CASE App!EnableCommand \/ App!DisableCommand
    BY <2>1, SwitchCounts DEF App!EnableCommand, App!DisableCommand
  <2>2. CASE App!NoopCommand \/ App!BadLength \/ App!BadCommandCode
    BY <2>2, PacketAfterCommand
       DEF App!NoopCommand, App!BadLength, App!BadCommandCode, AppInv, App!TypeOK,
           App!HousekeepingTellsInterface
  <2>3. CASE App!ResetCommand
    <3>1. [hk EXCEPT !.CommandCount = Incremented(@)] \in HkPackets
      BY IncrementedIsCounter DEF AppInv, App!TypeOK, HkPackets
    <3>2. hk' \in HkPackets
      BY <2>3, <3>1, ResetIsHk DEF App!ResetCommand
    <3>3. hk'.DeviceEnabled = hk.DeviceEnabled
      BY <2>3 DEF App!ResetCommand, ResetCounters, ZeroHk, AppInv, App!TypeOK, HkPackets
    <3> QED
      BY <2>3, <3>2, <3>3 DEF App!ResetCommand, App!GroundCommand, App!Handle, AppInv,
                              App!TypeOK, App!HousekeepingTellsInterface
  <2> QED
    BY <2>1, <2>2, <2>3 DEF App!ProcessGroundCommand
<1> QED
  BY <1>1, <1>2 DEF AppInv, App!TypeOK, App!Locations

\* The handler of a housekeeping request.
LEMMA RequestHandled ==
    ASSUME AppInv, App!ReportHousekeeping
    PROVE  /\ pc = "Process" /\ pc' = "RunLoop" /\ msg.MsgId = "REQ_HK_MID"
           /\ UNCHANGED <<RunStatus, esRequest, subscribed, pipe, msg, hk, spi>>
           /\ AppInv'
BY DEF App!ReportHousekeeping, App!Handle, App!Transmits, App!loopVars, App!deviceVars, AppInv,
       App!TypeOK, App!Locations, App!HousekeepingTellsInterface

\* The steps of the loop that handle nothing.
LEMMA LoopTyped ==
    ASSUME AppInv, App!RunLoop \/ App!ReceiveBuffer
    PROVE  AppInv' /\ UNCHANGED <<hk, spi>>
<1>1. CASE App!RunLoop
  BY <1>1 DEF App!RunLoop, App!deviceVars, AppInv, App!TypeOK, App!Locations,
              App!HousekeepingTellsInterface
<1>2. CASE App!ReceiveBuffer
  <2>1. pipe # << >> => Head(pipe) \in Messages /\ Tail(pipe) \in Seq(Messages)
    BY HeadTailProperties DEF AppInv, App!TypeOK
  <2> QED
    BY <1>2, <2>1 DEF App!ReceiveBuffer, App!deviceVars, AppInv, App!TypeOK, App!Locations,
                      App!HousekeepingTellsInterface
<1> QED
  BY <1>1, <1>2

\* The Software Bus puts a packet on the pipe.
LEMMA SendTyped ==
    ASSUME AppInv, NEW m \in Messages, App!Send(m)
    PROVE  /\ AppInv'
           /\ UNCHANGED <<pc, msg, hk, spi>>
           /\ pipe' = Append(pipe, m)
BY AppendProperties
   DEF App!Send, App!deviceVars, AppInv, App!TypeOK, App!HousekeepingTellsInterface

LEMMA AppUnchanged ==
    ASSUME AppInv, UNCHANGED appVars
    PROVE  AppInv'
BY DEF appVars, AppInv, App!TypeOK, App!HousekeepingTellsInterface
-------------------------------------------------------------------------------
(***************************************************************************)
(* The script, in step or not: what each place in the library says of the  *)
(* call and of its local variables.                                        *)
(***************************************************************************)
ScriptInv ==
    /\ at = "Idle" => attempts = 0
    /\ at = "Send" => goal # "get_fss_hk" /\ attempts < MaxAttempts
    /\ at = "Check" => attempts > 0
    /\ at # "Idle" => verdict = "none"
    /\ attempts > 0 => goal # "get_fss_hk"
    /\ attempts = 0 => accepted = 0
    /\ goal = "safe_fss" /\ (at = "Send" \/ attempts > 0) => command = DISABLE_CC

TypedInv == TypeOK /\ ScriptInv /\ AppInv

\* What the library sends is among the messages.
LEMMA SentAreMessages ==
    /\ \A code \in ConfirmedCommands : Command(code) \in Messages
    /\ PlainCommands \subseteq Messages
    /\ HkRequest \in Messages
BY LibraryMessagesAssumption DEF LibraryMessages

LEMMA LinkTyped ==
    ASSUME NEW S, NEW link \in Seq(S), NEW packet \in S
    PROVE  OnLink(link, packet) \in Seq(S)
BY AppendProperties DEF OnLink

LEMMA TypedInit == Init => TypedInv
<1> SUFFICES ASSUME Init PROVE TypedInv
  OBVIOUS
<1>1. AppInv
  BY ResetIsHk, SameNames, SameCodes, AnglesAssumption
     DEF Init, AppInv, App!TypeOK, App!Locations, App!MsgIds, Readings, ZeroReading, ZeroHk,
         App!HousekeepingTellsInterface
<1>2. ScriptInv
  BY DEF Init, ScriptInv
<1>3. expected \in Counter /\ calls \in 0 .. MaxCalls
  BY CounterModulusAssumption, MaxCallsAssumption DEF Init, Counter
<1>4. uplink \in Seq(Messages) /\ downlink \in Seq(HkPackets)
  BY DEF Init
<1>5. /\ at \in Places /\ attempts \in 0 .. MaxAttempts /\ accepted \in Nat
      /\ command \in ConfirmedCommands /\ tlm \in HkPackets
      /\ goal \in {"get_fss_hk", "fss_cmd", "safe_fss"}
  BY ResetIsHk DEF Init, Places, ConfirmedCommands, MaxAttempts
<1>6. astray \in BOOLEAN
  BY DEF Init
<1>7. verdict \in {"none", "answered", "confirmed", "failed", "timeout"}
  BY DEF Init
<1> QED
  BY <1>1, <1>2, <1>3, <1>4, <1>5, <1>6, <1>7 DEF TypedInv, TypeOK, AppInv

\* The steps of the script and of the library.
LEMMA CallTyped ==
    ASSUME TypedInv, Script
    PROVE  TypedInv'
<1> USE MaxCallsAssumption DEF TypedInv, Calls, TypeOK, ScriptInv, Places, MaxAttempts, history,
                               callVars
<1>1. AppInv'
  BY AppUnchanged DEF Script, get_fss_hk, cmd, fss_cmd, safe_fss
<1>2. CASE get_fss_hk \/ safe_fss
  BY <1>1, <1>2 DEF get_fss_hk, safe_fss, AppInv
<1>3. ASSUME NEW packet \in PlainCommands, cmd(packet)
      PROVE  TypedInv'
  <2>1. uplink' \in Seq(Messages)
    BY <1>3, SentAreMessages, LinkTyped DEF cmd
  <2> QED
    BY <1>1, <1>3, <2>1 DEF cmd, AppInv
<1>4. ASSUME NEW code \in ConfirmedCommands, fss_cmd(code)
      PROVE  TypedInv'
  <2>1. NextCount \in Counter
    BY IncrementedIsCounter DEF NextCount, HkPackets
  <2> QED
    BY <1>1, <1>4, <2>1 DEF fss_cmd, AppInv
<1> QED
  BY <1>2, <1>3, <1>4 DEF Script

\* The end of a call clears its local variables.
LEMMA EndTyped ==
    ASSUME TypedInv, AppInv',
           UNCHANGED <<uplink, downlink, tlm, calls>>, astray' \in BOOLEAN,
           NEW how \in {"answered", "confirmed", "failed", "timeout"}, Ends(how)
    PROVE  TypedInv'
BY CounterModulusAssumption, SameCodes
   DEF TypedInv, TypeOK, ScriptInv, Ends, Places, ConfirmedCommands, Counter, MaxAttempts, AppInv

LEMMA LibraryTyped ==
    ASSUME TypedInv, Library
    PROVE  TypedInv'
<1> USE DEF TypedInv, TypeOK, ScriptInv, Places, MaxAttempts, history, callVars, links
<1>1. AppInv'
  BY AppUnchanged DEF Library, Send, AskHk, BeginWait, Timeout, Answered, Check
<1>2. CASE Send
  <2>1. uplink' \in Seq(Messages)
    BY <1>2, SentAreMessages, LinkTyped DEF Send
  <2> QED
    BY <1>1, <1>2, <2>1 DEF Send, AppInv
<1>3. CASE AskHk
  <2>1. uplink' \in Seq(Messages)
    BY <1>3, SentAreMessages, LinkTyped DEF AskHk
  <2> QED
    BY <1>1, <1>3, <2>1 DEF AskHk, AppInv
<1>4. CASE BeginWait
  BY <1>1, <1>4 DEF BeginWait, AppInv
<1>5. CASE Timeout
  BY <1>1, <1>5, EndTyped DEF Timeout
<1>6. CASE Answered
  <2>1. CASE AnswerToCommand
    BY <1>1, <1>6, <2>1 DEF Answered, AnswerToCommand, AgainIfNotCounted, AppInv
  <2>2. CASE AnswerToRequest
    BY <1>1, <1>6, <2>2, EndTyped DEF Answered, AnswerToRequest
  <2>3. CASE AnswerToSafe
    <3>1. CASE tlm.DeviceEnabled = DEVICE_DISABLED
      BY <1>1, <1>6, <2>3, <3>1, EndTyped DEF Answered, AnswerToSafe
    <3>2. CASE tlm.DeviceEnabled # DEVICE_DISABLED
      <4>1. NextCount \in Counter
        BY IncrementedIsCounter DEF NextCount, HkPackets
      <4> QED
        BY <1>1, <1>6, <2>3, <3>2, <4>1 DEF Answered, AnswerToSafe, ConfirmedCommands, AppInv
    <3> QED
      BY <3>1, <3>2
  <2> QED
    BY <1>6, <2>1, <2>2, <2>3 DEF Answered
<1>7. CASE Check
  <2>1. PICK how \in {"confirmed", "failed"} : Ends(how)
    BY <1>7 DEF Check
  <2> QED
    BY <1>1, <1>7, <2>1, EndTyped DEF Check
<1> QED
  BY <1>2, <1>3, <1>4, <1>5, <1>6, <1>7 DEF Library

\* The command link hands a packet over, or the Software Bus drops it.
LEMMA DeliverTyped ==
    ASSUME TypedInv, Deliver
    PROVE  /\ TypedInv'
           /\ UNCHANGED <<pc, msg, hk, spi, groundVars, history, downlink>>
           /\ uplink # << >> /\ uplink' = Tail(uplink)
           /\ pipe' = pipe \/ pipe' = Append(pipe, Head(uplink))
<1>1. /\ uplink # << >> /\ uplink' = Tail(uplink)
      /\ UNCHANGED <<groundVars, history, downlink>>
  BY DEF Deliver
<1>2. Head(uplink) \in Messages /\ uplink' \in Seq(Messages)
  BY <1>1, HeadTailProperties DEF TypedInv, TypeOK
<1>3. /\ AppInv' /\ UNCHANGED <<pc, msg, hk, spi>>
      /\ pipe' = pipe \/ pipe' = Append(pipe, Head(uplink))
  <2>1. CASE App!Send(Head(uplink))
    BY <1>2, <2>1, SendTyped DEF TypedInv
  <2>2. CASE UNCHANGED appVars
    BY <2>2, AppUnchanged DEF appVars, TypedInv
  <2> QED
    BY <2>1, <2>2 DEF Deliver
<1> QED
  BY <1>1, <1>2, <1>3 DEF TypedInv, TypeOK, ScriptInv, AppInv, groundVars, callVars, history

LEMMA ReceiveTyped ==
    ASSUME TypedInv, Receive
    PROVE  TypedInv' /\ tlm' \in HkPackets
<1>1. Head(downlink) \in HkPackets /\ Tail(downlink) \in Seq(HkPackets)
  BY HeadTailProperties DEF Receive, TypedInv, TypeOK
<1>2. AppInv'
  BY AppUnchanged DEF Receive, TypedInv
<1>3. astray' \in BOOLEAN
  BY DEF Receive, TypedInv, TypeOK
<1>4. at' \in Places /\ (at' = at \/ (at = "Waiting" /\ at' = "Answered"))
  BY DEF Receive, TypedInv, TypeOK, Places
<1>5. /\ tlm' = Head(downlink) /\ downlink' = Tail(downlink)
      /\ UNCHANGED <<uplink, callVars, verdict, calls, accepted>>
  BY DEF Receive
<1>6. ScriptInv'
  BY <1>4, <1>5 DEF TypedInv, ScriptInv, callVars
<1> QED
  BY <1>1, <1>2, <1>3, <1>4, <1>5, <1>6 DEF TypedInv, TypeOK, AppInv, callVars

LEMMA LoseTyped ==
    ASSUME TypedInv, Lose
    PROVE  TypedInv'
<1>1. uplink' \in Seq(Messages) /\ downlink' \in Seq(HkPackets)
  BY HeadTailProperties DEF Lose, TypedInv, TypeOK
<1>2. AppInv' /\ UNCHANGED <<groundVars, history>>
  BY AppUnchanged DEF Lose, TypedInv
<1> QED
  BY <1>1, <1>2 DEF TypedInv, TypeOK, ScriptInv, AppInv, groundVars, callVars, history

\* The application handles a housekeeping request, or does anything else.
LEMMA ReportTyped ==
    ASSUME TypedInv, Report
    PROVE  TypedInv'
<1>1. downlink' \in Seq(HkPackets)
  BY LinkTyped, SameNames DEF Report, TypedInv, TypeOK, App!TypeOK
<1>2. AppInv' /\ UNCHANGED <<uplink, groundVars, history>>
  BY RequestHandled DEF Report, TypedInv
<1> QED
  BY <1>1, <1>2 DEF TypedInv, TypeOK, ScriptInv, AppInv, groundVars, callVars, history

LEMMA FlyTyped ==
    ASSUME TypedInv, Fly
    PROVE  TypedInv'
<1>1. AppInv' /\ UNCHANGED <<links, groundVars, astray>>
  BY LoopTyped, CommandHandled DEF Fly, TypedInv
<1>2. accepted' \in Nat /\ (attempts = 0 => accepted' = accepted)
  BY DEF Fly, TypedInv, TypeOK
<1>3. ScriptInv'
  BY <1>1, <1>2 DEF TypedInv, ScriptInv, groundVars, callVars
<1> QED
  BY <1>1, <1>2, <1>3 DEF TypedInv, TypeOK, AppInv, groundVars, callVars, links

LEMMA TypedStep == TypedInv /\ [Next]_vars => TypedInv'
<1> SUFFICES ASSUME TypedInv, [Next]_vars PROVE TypedInv'
  OBVIOUS
<1>1. CASE UNCHANGED vars
  <2>1. AppInv'
    BY <1>1, AppUnchanged DEF vars, TypedInv
  <2> QED
    BY <1>1, <2>1 DEF vars, links, history, groundVars, callVars, TypedInv, TypeOK, ScriptInv,
                      AppInv
<1> QED
  BY <1>1, CallTyped, LibraryTyped, DeliverTyped, ReceiveTyped, LoseTyped, ReportTyped, FlyTyped
     DEF Next

\* The state of the ground, the links and the application keeps its type.
THEOREM TypeCorrect == Spec => []TypeOK
<1>1. TypedInv => TypeOK
  BY DEF TypedInv
<1> QED
  BY <1>1, TypedInit, TypedStep, PTL DEF Spec
-------------------------------------------------------------------------------
(***************************************************************************)
(* The ground in step.  Neither InStep nor AtMostOnce is inductive: both   *)
(* hang on what may be under way at each place of the call.  While no wait *)
(* has timed out that is one command and one request at most, in this      *)
(* order, since the next call begins after the answer, and the answer is   *)
(* the last thing that the packets of a call bring about.                  *)
(***************************************************************************)

\* What has been sent and is not handled yet, the packet in its handler first.
Aboard   == (IF pc = "Process" THEN <<msg>> ELSE << >>) \o pipe
UnderWay == Aboard \o uplink

\* The commands of the call: fss_cmd sends neither the reset nor an invalid one.
Commands == {Command(code) : code \in ConfirmedCommands}
               \cup (IF attempts > 0 THEN {} ELSE PlainCommands)

Orderly ==
    /\ UnderWay \in Seq(Commands \cup {HkRequest})
    /\ Len(UnderWay) <= 2
    /\ Len(UnderWay) = 2 => UnderWay[1] \in Commands /\ UnderWay[2] = HkRequest

\* A housekeeping packet on its way is the answer to the call's own request and
\* shows the application as it is; at the settled places nothing is on its way.
Settled == {"Idle", "Send", "Answered", "Check"}

LinksInv ==
    /\ Orderly
    /\ at = "AskHk" => Len(UnderWay) <= 1 /\ UnderWay \in Seq(Commands)
    /\ \/ downlink = << >>
       \/ downlink = <<hk>> /\ UnderWay = << >> /\ at \in {"Asked", "Waiting"}
    /\ at \in Settled => UnderWay = << >> /\ tlm = hk

\* The application has accepted none of the call's commands and its count is
\* one behind the expected one, or it has accepted one and no other will come.
CountInv ==
    at = "Send" \/ attempts > 0 =>
        \/ accepted = 0 /\ expected = Incremented(hk.CommandCount)
        \/ /\ accepted = 1 /\ expected = hk.CommandCount
           /\ UnderWay \in Seq({HkRequest})
           /\ at # "Send"

Inv == TypedInv /\ (~astray => LinksInv /\ CountInv)

Packets == Messages \cup {App!NoMessage}

LEMMA UnderWayTyped ==
    ASSUME TypedInv
    PROVE  /\ pipe \in Seq(Packets) /\ uplink \in Seq(Packets) /\ msg \in Packets
           /\ Aboard \in Seq(Packets) /\ UnderWay \in Seq(Packets)
           /\ Aboard = IF pc = "Process" THEN <<msg>> \o pipe ELSE pipe
           /\ downlink \in Seq(HkPackets) /\ hk \in HkPackets
<1>1. /\ pipe \in Seq(Packets) /\ uplink \in Seq(Packets) /\ msg \in Packets
      /\ downlink \in Seq(HkPackets) /\ hk \in HkPackets
  BY SeqMonotonic, SameNames DEF TypedInv, TypeOK, App!TypeOK, Packets
<1>2. Aboard = IF pc = "Process" THEN <<msg>> \o pipe ELSE pipe
  BY <1>1, ConcatEmptySeq DEF Aboard
<1>3. Aboard \in Seq(Packets)
  BY <1>1, <1>2, FirstOfAll
<1> QED
  BY <1>1, <1>2, <1>3, ConcatProperties DEF UnderWay

LEMMA QuietMeans == TypedInv => (Quiet <=> (UnderWay = << >> /\ downlink = << >>))
<1> SUFFICES ASSUME TypedInv PROVE Quiet <=> (UnderWay = << >> /\ downlink = << >>)
  OBVIOUS
<1> USE UnderWayTyped
<1>1. UnderWay = << >> <=> Aboard = << >> /\ uplink = << >>
  BY ConcatEqualIffEmpty DEF UnderWay
<1>2. Aboard = << >> <=> pc # "Process" /\ pipe = << >>
  <2>1. CASE pc = "Process"
    <3>1. Len(Aboard) = Len(pipe) + 1
      BY <2>1, FirstOfAll
    <3> QED
      BY <2>1, <3>1, EmptySeq, LenProperties
  <2> QED
    BY <2>1
<1> QED
  BY <1>1, <1>2 DEF Quiet
-------------------------------------------------------------------------------
\* Steps that take at most one packet away from those under way.
Thins ==
    /\ UnderWay' = UnderWay \/ Len(UnderWay') = Len(UnderWay) - 1
    /\ \A T : UnderWay \in Seq(T) => UnderWay' \in Seq(T)

\* Such a step leaves the ground in step if it changes nothing else.
LEMMA InStepKept ==
    ASSUME TypedInv, LinksInv, CountInv, Thins,
           UNCHANGED <<at, attempts, accepted, expected, hk, tlm>>,
           downlink' = downlink \/ downlink' = << >>
    PROVE  (LinksInv /\ CountInv)'
<1>1. Len(UnderWay) \in Nat /\ Len(UnderWay) <= 2
  <2>1. UnderWay \in Seq(Packets)
    BY UnderWayTyped
  <2> QED
    BY <2>1, LenProperties DEF LinksInv, Orderly
<1>2. /\ Commands' = Commands
      /\ UnderWay' \in Seq(Commands \cup {HkRequest})
  BY DEF Commands, Thins, LinksInv, Orderly
<1>3. Orderly'
  <2>1. CASE UnderWay' = UnderWay
    BY <1>2, <2>1 DEF LinksInv, Orderly
  <2>2. CASE Len(UnderWay') = Len(UnderWay) - 1
    <3>1. Len(UnderWay') <= 1 /\ Len(UnderWay') # 2
      BY <1>1, <2>2
    <3> QED
      BY <1>2, <3>1 DEF Orderly
  <2> QED
    BY <2>1, <2>2 DEF Thins
<1>4. UnderWay = << >> => UnderWay' = << >>
  BY <1>2, EmptySeq, LenProperties DEF Thins
<1>5. at = "AskHk" => Len(UnderWay') <= 1 /\ UnderWay' \in Seq(Commands)
  BY <1>1 DEF Thins, LinksInv
<1>6. UnderWay \in Seq({HkRequest}) => UnderWay' \in Seq({HkRequest})
  BY DEF Thins
<1>7. LinksInv'
  BY <1>2, <1>3, <1>4, <1>5 DEF LinksInv
<1> QED
  BY <1>6, <1>7 DEF CountInv

\* How the packets move: to the application, to its handler, out of it, away.
LEMMA DeliverThins ==
    ASSUME TypedInv, Deliver
    PROVE  Thins
<1> USE UnderWayTyped
<1>1. /\ uplink # << >> /\ uplink' = Tail(uplink) /\ UNCHANGED <<pc, msg>>
      /\ pipe' = pipe \/ pipe' = Append(pipe, Head(uplink))
  BY DeliverTyped
<1>2. CASE pipe' = pipe
  <2>1. UnderWay' = Aboard \o Tail(uplink)
    BY <1>1, <1>2 DEF UnderWay, Aboard
  <2> QED
    BY <1>1, <2>1, HeadTakenAway DEF UnderWay, Thins
<1>3. CASE pipe' = Append(pipe, Head(uplink))
  <2>1. Head(uplink) \in Packets
    BY <1>1, HeadTailProperties
  <2>2. Aboard' = Append(Aboard, Head(uplink))
    <3>1. CASE pc = "Process"
      <4>1. <<msg>> \in Seq(Packets)
        OBVIOUS
      <4> QED
        BY <1>1, <1>3, <2>1, <3>1, <4>1, LastOfAll DEF Aboard
    <3>2. CASE pc # "Process"
      <4>1. << >> \in Seq(Packets)
        OBVIOUS
      <4> QED
        BY <1>1, <1>3, <2>1, <3>2, <4>1, LastOfAll DEF Aboard
    <3> QED
      BY <3>1, <3>2
  <2>3. UnderWay' = UnderWay
    BY <1>1, <2>2, HeadMoves DEF UnderWay
  <2> QED
    BY <2>3 DEF Thins
<1> QED
  BY <1>1, <1>2, <1>3

LEMMA LossThins ==
    ASSUME TypedInv, uplink # << >>, uplink' = Tail(uplink), UNCHANGED <<pc, pipe, msg>>
    PROVE  Thins
<1>1. UnderWay' = Aboard \o Tail(uplink)
  BY DEF UnderWay, Aboard
<1> QED
  BY <1>1, UnderWayTyped, HeadTakenAway DEF UnderWay, Thins

\* A packet taken from the pipe is the one in the handler.
LEMMA LoopKeepsUnderWay ==
    ASSUME TypedInv, App!RunLoop \/ App!ReceiveBuffer, UNCHANGED uplink
    PROVE  UnderWay' = UnderWay
<1> USE UnderWayTyped
<1>1. CASE App!RunLoop
  BY <1>1 DEF App!RunLoop, UnderWay, Aboard
<1>2. CASE App!ReceiveBuffer
  <2>1. CASE pc' = "Process"
    <3>1. /\ pc # "Process" /\ pipe # << >>
          /\ msg' = Head(pipe) /\ pipe' = Tail(pipe)
      BY <1>2, <2>1 DEF App!ReceiveBuffer
    <3>2. << >> \in Seq(Packets) /\ Head(pipe) \in Packets
      BY <3>1, HeadTailProperties
    <3>3. Append(<< >>, Head(pipe)) = <<Head(pipe)>>
      OBVIOUS
    <3>4. Append(<< >>, Head(pipe)) \o Tail(pipe) = << >> \o pipe
      BY <3>1, <3>2, HeadMoves
    <3> QED
      BY <2>1, <3>1, <3>3, <3>4 DEF UnderWay, Aboard
  <2>2. CASE pc' # "Process"
    BY <1>2, <2>2 DEF App!ReceiveBuffer, UnderWay, Aboard
  <2> QED
    BY <2>1, <2>2
<1> QED
  BY <1>1, <1>2

\* A handler ends: its packet was the first of those under way.
LEMMA HandlerThins ==
    ASSUME TypedInv, pc = "Process", pc' = "RunLoop", UNCHANGED <<pipe, uplink>>
    PROVE  /\ Len(UnderWay') = Len(UnderWay) - 1
           /\ Len(UnderWay) \in Nat \ {0}
           /\ UnderWay[1] = msg
           /\ \A i \in 1 .. Len(UnderWay') : UnderWay'[i] = UnderWay[i + 1]
           /\ UnderWay' \in Seq(Packets)
           /\ Thins
<1> USE UnderWayTyped
<1> DEFINE rest == pipe \o uplink
<1>1. rest \in Seq(Packets) /\ Len(rest) \in Nat /\ <<msg>> \in Seq(Packets)
  BY ConcatProperties, LenProperties
<1>2. UnderWay = <<msg>> \o rest
  BY <1>1, ConcatAssociative DEF UnderWay, Aboard
<1>3. UnderWay' = rest
  BY ConcatEmptySeq DEF UnderWay, Aboard
<1> HIDE DEF rest
<1>4. /\ Len(UnderWay) = Len(rest) + 1
      /\ UnderWay[1] = msg
      /\ \A i \in 1 .. Len(rest) : UnderWay[i + 1] = rest[i]
  BY <1>1, <1>2, FirstOfAll
<1>5. ASSUME NEW T, UnderWay \in Seq(T)
      PROVE  rest \in Seq(T)
  <2>1. ASSUME NEW i \in 1 .. Len(rest) PROVE rest[i] \in T
    <3>1. i + 1 \in 1 .. Len(UnderWay) /\ UnderWay[i + 1] = rest[i]
      BY <1>1, <1>4
    <3> QED
      BY <1>5, <3>1, ElementOfSeq
  <2>2. Len(rest) \in Nat /\ rest \in [1 .. Len(rest) -> Packets]
    BY <1>1, LenProperties
  <2>3. rest \in [1 .. Len(rest) -> T]
    BY <2>1, <2>2
  <2> QED
    BY <2>2, <2>3, SeqDef
<1> QED
  BY <1>1, <1>3, <1>4, <1>5 DEF Thins
-------------------------------------------------------------------------------
\* One lemma for each kind of step, from a state in step.

LEMMA CommandsDiffer ==
    /\ HkRequest.MsgId = "REQ_HK_MID" /\ HkRequest \notin Commands
    /\ \A packet \in Commands : packet.MsgId = "CMD_MID"
    /\ attempts > 0 => \A packet \in Commands : packet.code \in ConfirmedCommands
<1>1. \A code : Command(code).MsgId = "CMD_MID" /\ Command(code).code = code
  BY DEF Command
<1>2. HkRequest.MsgId = "REQ_HK_MID"
  BY DEF HkRequest
<1>3. \A packet \in Commands : packet \in PlainCommands \/ \E code : packet = Command(code)
  BY DEF Commands
<1>4. attempts > 0 => \A packet \in Commands : \E code \in ConfirmedCommands :
                                                  packet = Command(code)
  BY DEF Commands
<1>5. \A packet \in PlainCommands : packet.MsgId = "CMD_MID"
  BY <1>1 DEF PlainCommands, InvalidCommands, Command
<1> QED
  BY <1>1, <1>2, <1>3, <1>4, <1>5

\* A call begins when nothing is under way.
LEMMA CallInStep ==
    ASSUME TypedInv, TypedInv', LinksInv, CountInv, Script
    PROVE  (LinksInv /\ CountInv)'
<1> USE DEF callVars, history
<1>1. /\ at = "Idle" /\ attempts = 0 /\ accepted = 0
      /\ UNCHANGED <<pc, pipe, msg, hk, tlm, downlink, attempts, accepted>>
  BY DEF Script, get_fss_hk, cmd, fss_cmd, safe_fss, Calls, appVars, TypedInv, ScriptInv
<1>2. UnderWay = << >> /\ downlink = << >> /\ tlm = hk
  BY <1>1 DEF LinksInv, Settled
<1>3. Aboard' = Aboard /\ Aboard = << >> /\ uplink = << >>
  BY <1>1, <1>2, UnderWayTyped, ConcatEqualIffEmpty DEF UnderWay, Aboard
<1>4. CASE UNCHANGED uplink
  <2>1. UnderWay' = << >>
    BY <1>2, <1>3, <1>4 DEF UnderWay
  <2>2. Orderly'
    BY <2>1 DEF Orderly
  <2>3. at' \in {"AskHk", "Send"}
    BY DEF Script, get_fss_hk, cmd, fss_cmd, safe_fss
  <2>4. LinksInv'
    BY <1>1, <1>2, <2>1, <2>2, <2>3 DEF LinksInv
  <2>5. at' = "Send" => expected' = Incremented(hk.CommandCount)
    BY <1>2 DEF Script, get_fss_hk, cmd, fss_cmd, safe_fss, NextCount
  <2> QED
    BY <1>1, <2>4, <2>5 DEF CountInv
<1>5. ASSUME NEW packet \in PlainCommands, cmd(packet), uplink' = Append(uplink, packet)
      PROVE  (LinksInv /\ CountInv)'
  <2>1. packet \in Commands'
    BY <1>1 DEF Commands
  <2>2. UnderWay' = <<packet>>
    <3>1. uplink' = <<packet>>
      BY <1>3, <1>5
    <3>2. uplink' \in Seq({packet})
      BY <3>1
    <3> QED
      BY <1>3, <3>1, <3>2, ConcatEmptySeq DEF UnderWay
  <2>3. UnderWay' \in Seq(Commands') /\ Len(UnderWay') = 1
    BY <2>1, <2>2
  <2>4. UnderWay' \in Seq(Commands' \cup {HkRequest})
    BY <2>3, SeqMonotonic
  <2>5. Orderly'
    BY <2>3, <2>4 DEF Orderly
  <2>6. at' = "AskHk"
    BY <1>5 DEF cmd
  <2> QED
    BY <1>1, <1>2, <2>3, <2>5, <2>6 DEF LinksInv, CountInv, Settled
<1> QED
  BY <1>4, <1>5 DEF Script, get_fss_hk, cmd, fss_cmd, safe_fss, OnLink

\* fss_cmd sends its command when nothing is under way, and the request after it.
LEMMA SendInStep ==
    ASSUME TypedInv, TypedInv', LinksInv, CountInv, Send
    PROVE  (LinksInv /\ CountInv)'
<1> USE DEF callVars, history
<1>1. /\ at = "Send" /\ at' = "AskHk" /\ attempts' = attempts + 1 /\ attempts \in Nat
      /\ UNCHANGED <<pc, pipe, msg, hk, tlm, downlink, expected, accepted>>
      /\ command \in ConfirmedCommands
  BY DEF Send, appVars, TypedInv, TypeOK
<1>2. UnderWay = << >> /\ downlink = << >>
  BY <1>1 DEF LinksInv, Settled
<1>3. Aboard' = << >> /\ uplink = << >>
  BY <1>1, <1>2, UnderWayTyped, ConcatEqualIffEmpty DEF UnderWay, Aboard
<1>4. Command(command) \in Commands'
  BY <1>1 DEF Commands
<1>5. uplink' \in Seq(Commands') /\ Len(uplink') <= 1
  <2>1. uplink' = << >> \/ uplink' = <<Command(command)>>
    BY <1>3 DEF Send, OnLink
  <2>2. CASE uplink' = << >>
    BY <2>2
  <2>3. CASE uplink' = <<Command(command)>>
    BY <1>4, <2>3
  <2> QED
    BY <2>1, <2>2, <2>3
<1>6. UnderWay' = uplink'
  BY <1>3, <1>5, ConcatEmptySeq DEF UnderWay
<1>7. Len(uplink') # 2 /\ uplink' \in Seq(Commands' \cup {HkRequest})
  BY <1>5, SeqMonotonic, LenProperties
<1>8. Orderly'
  BY <1>5, <1>6, <1>7 DEF Orderly
<1>9. accepted = 0 /\ expected = Incremented(hk.CommandCount)
  BY <1>1 DEF CountInv
<1> QED
  BY <1>1, <1>2, <1>5, <1>6, <1>8, <1>9 DEF LinksInv, CountInv, Settled

LEMMA AskInStep ==
    ASSUME TypedInv, TypedInv', LinksInv, CountInv, AskHk
    PROVE  (LinksInv /\ CountInv)'
<1> USE DEF callVars, history
<1>1. /\ at = "AskHk" /\ at' = "Asked"
      /\ UNCHANGED <<pc, pipe, msg, hk, tlm, downlink, expected, attempts, accepted>>
  BY DEF AskHk, appVars
<1>2. /\ UnderWay \in Seq(Commands) /\ Len(UnderWay) <= 1 /\ downlink = << >>
      /\ Len(UnderWay) \in Nat
  BY <1>1, LenProperties DEF LinksInv
<1>3. Commands' = Commands /\ Aboard' = Aboard
  BY <1>1 DEF Commands, Aboard
<1>4. CASE uplink' = uplink
  <2>1. UnderWay' = UnderWay
    BY <1>3, <1>4 DEF UnderWay
  <2> QED
    BY <1>1, <1>2, <1>3, <2>1 DEF LinksInv, CountInv, Orderly, Settled
<1>5. CASE uplink' = Append(uplink, HkRequest)
  <2> DEFINE S == Packets \cup {HkRequest}
  <2>1. Aboard \in Seq(S) /\ uplink \in Seq(S)
    BY UnderWayTyped, SeqMonotonic
  <2>2. UnderWay' = Append(UnderWay, HkRequest)
    BY <1>3, <1>5, <2>1, LastOfAll DEF UnderWay
  <2>3. /\ Len(UnderWay') = Len(UnderWay) + 1
        /\ UnderWay'[Len(UnderWay) + 1] = HkRequest
        /\ \A i \in 1 .. Len(UnderWay) : UnderWay'[i] = UnderWay[i]
    <3>1. UnderWay \in Seq(Commands \cup {HkRequest})
      BY <1>2, SeqMonotonic
    <3> QED
      BY <2>2, <3>1, AppendProperties
  <2>4. UnderWay' \in Seq(Commands \cup {HkRequest})
    <3>1. UnderWay \in Seq(Commands \cup {HkRequest})
      BY <1>2, SeqMonotonic
    <3> QED
      BY <2>2, <3>1, AppendProperties
  <2>5. UnderWay \in Seq({HkRequest}) => UnderWay' \in Seq({HkRequest})
    BY <2>2, AppendProperties
  <2>6. Len(UnderWay') = 2 => UnderWay'[1] \in Commands /\ UnderWay'[2] = HkRequest
    <3> SUFFICES ASSUME Len(UnderWay') = 2
                 PROVE  UnderWay'[1] \in Commands /\ UnderWay'[2] = HkRequest
      OBVIOUS
    <3>1. Len(UnderWay) = 1
      <4>1. Len(UnderWay) \in Nat /\ Len(UnderWay') = Len(UnderWay) + 1
        BY <1>2, <2>3
      <4>2. Len(UnderWay) + 1 = 2
        BY <4>1
      <4>3. \A n \in Nat : n + 1 = 2 => n = 1
        OBVIOUS
      <4> QED
        BY <4>1, <4>2, <4>3
    <3>2. UnderWay[1] \in Commands
      BY <1>2, <3>1
    <3>3. UnderWay'[1] = UnderWay[1] /\ UnderWay'[2] = HkRequest
      BY <2>3, <3>1
    <3> QED
      BY <3>2, <3>3
  <2>7. Orderly'
    BY <1>2, <1>3, <2>3, <2>4, <2>6 DEF Orderly
  <2> QED
    BY <1>1, <1>2, <2>5, <2>7 DEF LinksInv, CountInv, Settled
<1> QED
  BY <1>4, <1>5 DEF AskHk, OnLink

\* The steps of the library that send nothing.
LEMMA WaitInStep ==
    ASSUME TypedInv, TypedInv', LinksInv, CountInv, BeginWait \/ Answered \/ Check
    PROVE  (LinksInv /\ CountInv)'
<1> USE DEF callVars, links
<1>1. UNCHANGED <<pc, pipe, msg, hk, tlm, uplink, downlink>>
  BY DEF BeginWait, Answered, Check, appVars
<1>2. UnderWay' = UnderWay
  BY <1>1 DEF UnderWay, Aboard
<1>3. CASE BeginWait
  <2>1. /\ at = "Asked" /\ at' = "Waiting"
        /\ UNCHANGED <<attempts, accepted, expected>>
    BY <1>3 DEF BeginWait, history
  <2>2. Orderly'
    BY <1>2, <2>1 DEF LinksInv, Orderly, Commands
  <2> QED
    BY <1>1, <1>2, <2>1, <2>2 DEF LinksInv, CountInv, Settled
<1>4. CASE Answered \/ Check
  <2>1. at \in Settled /\ at' \in Settled
    BY <1>4 DEF Answered, AnswerToCommand, AnswerToRequest, AnswerToSafe, Check, Ends, Settled
  <2>2. UnderWay = << >> /\ tlm = hk /\ downlink = << >>
    BY <2>1 DEF LinksInv, Settled
  <2>3. Orderly'
    BY <1>2, <2>2 DEF Orderly
  <2>4. LinksInv'
    BY <1>1, <1>2, <2>1, <2>2, <2>3 DEF LinksInv, Settled
  <2>5. CountInv'
    <3>1. CASE AnswerToCommand
      <4>1. /\ UNCHANGED <<attempts, accepted, expected>> /\ attempts > 0
            /\ at' = "Send" => tlm.CommandCount # expected
        BY <3>1 DEF AnswerToCommand, AgainIfNotCounted
      <4> QED
        BY <1>1, <1>2, <2>2, <4>1 DEF CountInv
    <3>2. CASE Answered /\ AnswerToSafe /\ at' = "Send"
      <4>1. attempts = 0 /\ accepted' = accepted /\ expected' = Incremented(tlm.CommandCount)
        BY <3>2 DEF AnswerToSafe, NextCount, Ends
      <4>2. accepted = 0
        BY <4>1 DEF TypedInv, ScriptInv
      <4> QED
        BY <1>1, <2>2, <4>1, <4>2 DEF CountInv
    <3>3. CASE at' = "Idle" /\ attempts' = 0
      BY <3>3 DEF CountInv
    <3> QED
      BY <1>4, <3>1, <3>2, <3>3 DEF Answered, AnswerToRequest, AnswerToSafe, Check, Ends
  <2> QED
    BY <2>4, <2>5
<1> QED
  BY <1>3, <1>4

LEMMA LinksInStep ==
    ASSUME TypedInv, TypedInv', LinksInv, CountInv, Deliver \/ Lose
    PROVE  (LinksInv /\ CountInv)'
<1> USE DEF groundVars, callVars, history
<1>1. CASE Deliver
  BY <1>1, DeliverThins, DeliverTyped, InStepKept
<1>2. CASE Lose
  <2>1. UNCHANGED <<pc, pipe, msg, hk, at, tlm, attempts, accepted, expected>>
    BY <1>2 DEF Lose, appVars
  <2>2. CASE uplink # << >> /\ uplink' = Tail(uplink) /\ UNCHANGED downlink
    BY <2>1, <2>2, LossThins, InStepKept
  <2>3. CASE downlink # << >> /\ downlink' = Tail(downlink) /\ UNCHANGED uplink
    <3>1. downlink' = << >>
      <4>1. downlink = <<hk>>
        BY <2>3 DEF LinksInv
      <4> QED
        BY <2>3, <4>1
    <3>2. UnderWay' = UnderWay
      BY <2>1, <2>3 DEF UnderWay, Aboard
    <3> QED
      BY <2>1, <3>1, <3>2, InStepKept DEF Thins
  <2> QED
    BY <1>2, <2>2, <2>3 DEF Lose
<1> QED
  BY <1>1, <1>2

\* A packet that arrives while the ground is in step is the last of the call.
LEMMA ReceiveInStep ==
    ASSUME TypedInv, TypedInv', LinksInv, CountInv, Receive
    PROVE  (LinksInv /\ CountInv)'
<1> USE DEF callVars
<1>1. /\ downlink # << >> /\ downlink' = Tail(downlink) /\ tlm' = Head(downlink)
      /\ UNCHANGED <<pc, pipe, msg, hk, uplink, attempts, accepted, expected>>
      /\ at' = IF at = "Waiting" THEN "Answered" ELSE at
  BY DEF Receive, appVars
<1>2. downlink = <<hk>> /\ UnderWay = << >> /\ at \in {"Asked", "Waiting"}
  BY <1>1 DEF LinksInv
<1>3. UnderWay' = << >> /\ downlink' = << >> /\ tlm' = hk'
  BY <1>1, <1>2 DEF UnderWay, Aboard
<1>4. Orderly'
  BY <1>3 DEF Orderly
<1>5. at' \in {"Asked", "Answered"}
  BY <1>1, <1>2
<1> QED
  BY <1>1, <1>2, <1>3, <1>4, <1>5 DEF LinksInv, CountInv, Settled

\* The answer that puts the ground right: nothing is under way after it.
LEMMA ReceiveBackInStep ==
    ASSUME TypedInv, TypedInv', astray, ~astray', Receive
    PROVE  (LinksInv /\ CountInv)'
<1>1. at = "Waiting" /\ attempts = 0 /\ Quiet' /\ tlm' = hk /\ at' = "Answered"
      /\ UNCHANGED <<attempts, hk>>
  BY DEF Receive, callVars, appVars
<1>2. UnderWay' = << >> /\ downlink' = << >>
  <2>1. (TypedInv => (Quiet <=> (UnderWay = << >> /\ downlink = << >>)))'
    BY QuietMeans, PTL
  <2> QED
    BY <1>1, <2>1
<1>3. Orderly'
  BY <1>2 DEF Orderly
<1> QED
  BY <1>1, <1>2, <1>3 DEF LinksInv, CountInv, Settled

\* The request is handled: it was the only packet under way.
LEMMA ReportInStep ==
    ASSUME TypedInv, TypedInv', LinksInv, CountInv, Report
    PROVE  (LinksInv /\ CountInv)'
<1> USE DEF groundVars, callVars, history
<1>1. /\ pc = "Process" /\ pc' = "RunLoop" /\ msg.MsgId = "REQ_HK_MID"
      /\ UNCHANGED <<pipe, hk, uplink, at, tlm, attempts, expected, accepted>>
      /\ downlink' = OnLink(downlink, hk)
  BY RequestHandled DEF Report, TypedInv
<1>2. /\ Len(UnderWay') = Len(UnderWay) - 1 /\ Len(UnderWay) \in Nat \ {0}
      /\ UnderWay[1] = msg /\ UnderWay' \in Seq(Packets)
  BY <1>1, HandlerThins
<1>3. msg \notin Commands
  BY <1>1, CommandsDiffer
<1>4. Len(UnderWay) = 1
  BY <1>2, <1>3 DEF LinksInv, Orderly
<1>5. UnderWay' = << >>
  <2>1. Len(UnderWay') = 0
    BY <1>2, <1>4
  <2> QED
    BY <1>2, <2>1, EmptySeq
<1>6. UnderWay # << >>
  BY <1>4
<1>7. at # "AskHk"
  <2> SUFFICES ASSUME at = "AskHk" PROVE FALSE
    OBVIOUS
  <2>1. UnderWay \in Seq(Commands)
    BY DEF LinksInv
  <2>2. UnderWay[1] \in Commands
    BY <1>6, <2>1, FirstIsElement
  <2> QED
    BY <1>2, <1>3, <2>2
<1>8. at \in {"Asked", "Waiting"}
  BY <1>6, <1>7 DEF LinksInv, Settled, TypedInv, TypeOK, Places
<1>9. downlink = << >> /\ (downlink' = << >> \/ downlink' = <<hk>>)
  <2>1. downlink = << >>
    BY <1>6 DEF LinksInv
  <2> QED
    BY <1>1, <2>1 DEF OnLink
<1>10. Orderly' /\ UnderWay' \in Seq({HkRequest})
  BY <1>5 DEF Orderly
<1>11. LinksInv'
  BY <1>1, <1>5, <1>8, <1>9, <1>10 DEF LinksInv, Settled
<1> QED
  BY <1>1, <1>8, <1>10, <1>11 DEF CountInv

\* A command is handled: it is counted, or not, and no other of this call follows.
LEMMA FlyInStep ==
    ASSUME TypedInv, TypedInv', LinksInv, CountInv, Fly
    PROVE  (LinksInv /\ CountInv)'
<1> USE DEF groundVars, callVars, links
<1>1. /\ UNCHANGED <<uplink, downlink, at, tlm, attempts, expected>>
      /\ accepted' = IF attempts > 0 /\ hk'.CommandCount # hk.CommandCount
                     THEN accepted + 1 ELSE accepted
  BY DEF Fly
<1>2. CASE App!RunLoop \/ App!ReceiveBuffer
  <2>1. hk' = hk /\ accepted' = accepted
    BY <1>1, <1>2, LoopTyped DEF TypedInv
  <2>2. Thins
    BY <1>1, <1>2, LoopKeepsUnderWay DEF Thins
  <2> QED
    BY <1>1, <2>1, <2>2, InStepKept
<1>3. CASE App!ProcessGroundCommand
  <2>1. /\ pc = "Process" /\ pc' = "RunLoop" /\ msg.MsgId = "CMD_MID" /\ pipe' = pipe
        /\ \/ msg.code = RESET_COUNTERS_CC
           \/ hk'.CommandCount \in {hk.CommandCount, Incremented(hk.CommandCount)}
    BY <1>3, CommandHandled DEF TypedInv
  <2>2. /\ Len(UnderWay') = Len(UnderWay) - 1 /\ Len(UnderWay) \in Nat \ {0}
        /\ UnderWay[1] = msg /\ UnderWay' \in Seq(Packets) /\ Thins
        /\ \A i \in 1 .. Len(UnderWay') : UnderWay'[i] = UnderWay[i + 1]
    BY <1>1, <2>1, HandlerThins
  <2>3. Len(UnderWay) \in {1, 2}
    BY <2>2 DEF LinksInv, Orderly
  <2>4. msg \in Commands
    <3>1. UnderWay[1] \in Commands \cup {HkRequest}
      BY <2>3, FirstIsElement DEF LinksInv, Orderly
    <3> QED
      BY <2>1, <2>2, <3>1, CommandsDiffer
  <2>5. UnderWay' \in Seq({HkRequest}) /\ Len(UnderWay') <= 1 /\ Len(UnderWay') \in Nat
    <3>1. CASE Len(UnderWay) = 1
      <4>1. Len(UnderWay') = 0
        BY <2>2, <3>1
      <4>2. UnderWay' = << >>
        BY <2>2, <4>1, EmptySeq
      <4> QED
        BY <4>1, <4>2
    <3>2. CASE Len(UnderWay) = 2
      <4>1. Len(UnderWay') = 1 /\ UnderWay[2] = HkRequest
        BY <2>2, <3>2 DEF LinksInv, Orderly
      <4>2. UnderWay'[1] = HkRequest
        <5>1. 1 \in 1 .. Len(UnderWay')
          BY <4>1
        <5>2. UnderWay'[1] = UnderWay[1 + 1]
          BY <2>2, <5>1
        <5> QED
          BY <4>1, <5>2
      <4>3. UnderWay' \in [1 .. 1 -> {HkRequest}]
        BY <2>2, <4>1, <4>2, LenProperties
      <4> QED
        BY <4>1, <4>3, SeqDef
    <3> QED
      BY <2>3, <3>1, <3>2
  <2>6. UnderWay # << >>
    BY <2>3
  <2>7. downlink = << >> /\ at \notin Settled
    BY <2>6 DEF LinksInv
  <2>8. Commands' = Commands
    BY <1>1 DEF Commands
  <2>9. LinksInv'
    <3>1. UnderWay' \in Seq(Commands \cup {HkRequest}) /\ Len(UnderWay') # 2
      BY <2>5, SeqMonotonic
    <3>2. at = "AskHk" => UnderWay' \in Seq(Commands)
      BY <2>2 DEF Thins, LinksInv
    <3>3. Orderly'
      BY <2>5, <2>8, <3>1 DEF Orderly
    <3> QED
      BY <1>1, <2>5, <2>7, <2>8, <3>2, <3>3 DEF LinksInv
  <2>10. CountInv'
    <3> SUFFICES ASSUME attempts > 0
                 PROVE  \/ accepted' = 0 /\ expected = Incremented(hk'.CommandCount)
                        \/ accepted' = 1 /\ expected = hk'.CommandCount
      BY <1>1, <2>5, <2>7 DEF CountInv, Settled
    <3>1. UnderWay \notin Seq({HkRequest})
      <4> SUFFICES ASSUME UnderWay \in Seq({HkRequest}) PROVE FALSE
        OBVIOUS
      <4>1. UnderWay[1] \in {HkRequest}
        BY <2>6, FirstIsElement
      <4> QED
        BY <2>2, <2>4, <4>1, CommandsDiffer
    <3>2. accepted = 0 /\ expected = Incremented(hk.CommandCount)
      BY <3>1 DEF CountInv
    <3>3. msg.code # RESET_COUNTERS_CC
      BY <2>4, CommandsDiffer, SameCodes DEF ConfirmedCommands
    <3>4. hk.CommandCount \in Counter
      BY UnderWayTyped DEF HkPackets
    <3>5. Incremented(hk.CommandCount) # hk.CommandCount
      BY <3>4, IncrementedIsCounter
    <3> QED
      BY <1>1, <2>1, <3>2, <3>3, <3>5
  <2> QED
    BY <2>9, <2>10
<1> QED
  BY <1>2, <1>3 DEF Fly
-------------------------------------------------------------------------------
LEMMA InvInit == Init => Inv
<1> SUFFICES ASSUME Init PROVE Inv
  OBVIOUS
<1>1. TypedInv
  BY TypedInit
<1>2. UnderWay = << >> /\ downlink = << >> /\ tlm = hk /\ at = "Idle" /\ attempts = 0
  BY DEF Init, UnderWay, Aboard
<1>3. LinksInv /\ CountInv
  BY <1>2 DEF LinksInv, CountInv, Orderly
<1> QED
  BY <1>1, <1>3 DEF Inv

LEMMA InvStep == Inv /\ [Next]_vars => Inv'
<1> SUFFICES ASSUME Inv, [Next]_vars PROVE Inv'
  OBVIOUS
<1>1. TypedInv /\ TypedInv'
  BY TypedStep DEF Inv
<1> SUFFICES ASSUME ~astray' PROVE (LinksInv /\ CountInv)'
  BY <1>1 DEF Inv
<1>2. CASE ~astray
  <2>1. LinksInv /\ CountInv
    BY <1>2 DEF Inv
  <2>2. CASE Library
    BY <1>1, <2>1, <2>2, SendInStep, AskInStep, WaitInStep DEF Library, Timeout
  <2>3. CASE UNCHANGED vars
    <3>1. UnderWay' = UnderWay /\ UNCHANGED <<at, attempts, accepted, expected, hk, tlm, downlink>>
      BY <2>3 DEF vars, appVars, links, groundVars, callVars, history, UnderWay, Aboard
    <3> QED
      BY <1>1, <2>1, <3>1, InStepKept DEF Thins
  <2> QED
    BY <1>1, <2>1, <2>2, <2>3, CallInStep, LinksInStep, ReceiveInStep, ReportInStep, FlyInStep
       DEF Next
<1>3. CASE astray
  <2>1. Receive
    BY <1>1, <1>3
       DEF Next, Script, get_fss_hk, cmd, fss_cmd, safe_fss, Calls, Library, Send, AskHk,
           BeginWait, Timeout, Answered, Check, Deliver, Lose, Report, Fly, vars, history,
           TypedInv, TypeOK
  <2> QED
    BY <1>1, <1>3, <2>1, ReceiveBackInStep
<1> QED
  BY <1>1, <1>2, <1>3

(***************************************************************************)
(* The four properties of the ground, from the invariant.                  *)
(***************************************************************************)

\* Between two calls, and without a timeout, the ground's picture is the truth.
THEOREM StaysInStep == Spec => []InStep
<1>1. Inv => InStep
  BY QuietMeans DEF Inv, LinksInv, Settled, InStep
<1> QED
  BY <1>1, InvInit, InvStep, PTL DEF Spec

\* The retries of fss_cmd never execute its command twice.
THEOREM ExecutedAtMostOnce == Spec => []AtMostOnce
<1>1. Inv => AtMostOnce
  BY DEF Inv, CountInv, AtMostOnce
<1> QED
  BY <1>1, InvInit, InvStep, PTL DEF Spec

OnceStep == at = "Check" /\ verdict' = "confirmed" /\ ~astray =>
                accepted = 1 \/ expected = 0

\* A confirmed command was executed once, or the expected count is the wrap.
THEOREM ConfirmedIsOnce == Spec => ConfirmedOnce
<1>1. Inv /\ [Next]_vars => [OnceStep]_vars
  <2> SUFFICES ASSUME Inv, [Next]_vars, at = "Check", verdict' = "confirmed", ~astray,
                      accepted # 1
               PROVE  expected = 0
    BY DEF OnceStep
  <2>1. verdict = "none" /\ attempts > 0
    BY DEF Inv, TypedInv, ScriptInv
  <2>2. Check
    BY <2>1 DEF Next, Script, get_fss_hk, cmd, fss_cmd, safe_fss, Calls, Library, Send, AskHk,
                BeginWait, Timeout, Answered, Deliver, Receive, Lose, Report, Fly, vars,
                groundVars
  <2>3. tlm.CommandCount >= expected
    BY <2>2 DEF Check, Ends, CountChecks
  <2>4. tlm = hk /\ expected = Incremented(hk.CommandCount)
    BY <2>1 DEF Inv, LinksInv, CountInv, Settled
  <2>5. hk.CommandCount \in Counter
    BY UnderWayTyped DEF Inv, HkPackets
  <2> QED
    BY <2>3, <2>4, <2>5, CounterModulusAssumption DEF Incremented, Counter
<1> QED
  BY <1>1, InvInit, InvStep, PTL DEF Spec, ConfirmedOnce, OnceStep

DeviceStep == verdict' = "confirmed" /\ verdict # "confirmed" /\ ~astray => spi \in Claims

\* What enable_fss, disable_fss and safe_fss claim of the device is so.
THEOREM ConfirmedIsSo == Spec => ConfirmedDevice
<1>1. Inv /\ [Next]_vars => [DeviceStep]_vars
  <2> SUFFICES ASSUME Inv, [Next]_vars, verdict' = "confirmed", verdict # "confirmed", ~astray
               PROVE  spi \in Claims
    BY DEF DeviceStep
  <2> USE SameCodes
  <2>1. Check \/ (Answered /\ AnswerToSafe /\ tlm.DeviceEnabled = DEVICE_DISABLED)
    BY DEF Next, Script, get_fss_hk, cmd, fss_cmd, safe_fss, Calls, Library, Send, AskHk,
           BeginWait, Timeout, Answered, AnswerToCommand, AnswerToRequest, AnswerToSafe, Ends,
           Deliver, Receive, Lose, Report, Fly, vars, groundVars
  <2>2. tlm = hk
    BY <2>1 DEF Check, Answered, Inv, LinksInv, Settled
  <2>3. (hk.DeviceEnabled = 1 <=> spi = "open") /\ spi \in {"open", "closed"}
    BY DEF Inv, TypedInv, AppInv, App!HousekeepingTellsInterface, App!TypeOK
  <2>4. CASE Check
    <3>1. Shows(command) /\ command \in ConfirmedCommands
      BY <2>4 DEF Check, Ends, Inv, TypedInv, TypeOK
    <3>2. goal = "safe_fss" => command = DISABLE_CC
      BY <2>4 DEF Check, Inv, TypedInv, ScriptInv
    <3> QED
      BY <2>2, <2>3, <3>1, <3>2 DEF Shows, Claims, ConfirmedCommands
  <2>5. CASE AnswerToSafe /\ tlm.DeviceEnabled = DEVICE_DISABLED
    BY <2>2, <2>3, <2>5 DEF AnswerToSafe, Claims
  <2> QED
    BY <2>1, <2>4, <2>5
<1> QED
  BY <1>1, InvInit, InvStep, PTL DEF Spec, ConfirmedDevice, DeviceStep
=================================================================================
