--------------------------- MODULE FssSensor_proofs ---------------------------
(***************************************************************************)
(* Theorems about the sensor in its steps, for every set of positions,     *)
(* angles, forms of messages, providers and commands: what a data point    *)
(* is worth, and that the sensor implements FssSim.                        *)
(***************************************************************************)
EXTENDS FssSensor, TLAPS

\* A data point, and what it gives.
LEMMA PointsAreTyped ==
    /\ NoPoint \in Points
    /\ \A sun \in Positions, form \in Forms : Message(sun, form) \in Points
    /\ \A sun \in Positions : Message(sun, "whole") \in Points
<1>1. ZeroAngles[1] \in AngleValues /\ ZeroAngles[2] \in AngleValues
  BY AnglesAssumption, PairsAssumption
<1>2. NoPoint \in Points
  BY <1>1 DEF NoPoint, Points, MessageForms
<1>3. ASSUME NEW sun \in Positions, NEW form \in MessageForms
      PROVE  Message(sun, form) \in Points
  BY <1>3, PositionsAssumption DEF Message, Points
<1> QED
  BY <1>2, <1>3, FormsAssumption DEF MessageForms

LEMMA ParsingIsTyped ==
    ASSUME NEW dp \in Points
    PROVE  do_parsing(dp) \in Readings
<1>1. <<dp.alpha, dp.beta>> \in Angles
  BY PairsAssumption DEF Points
<1>2. \A valid \in BOOLEAN, angles \in Angles : Reading(valid, angles) \in Readings
  BY DEF Reading, Readings
<1>3. dp.valid \in BOOLEAN
  BY DEF Points
<1>4. CASE dp.form = "whole"
  BY <1>1, <1>2, <1>3, <1>4 DEF do_parsing
<1>5. CASE dp.form = "garbled"
  BY <1>2, <1>3, <1>5, AnglesAssumption DEF do_parsing
<1>6. CASE dp.form # "whole" /\ dp.form # "garbled"
  BY <1>2, <1>6, AnglesAssumption DEF do_parsing
<1> QED
  BY <1>4, <1>5, <1>6

(***************************************************************************)
(* The inductive invariant.  The first part is about types, the second     *)
(* about 42 writing: what it has written is the position it computed.  The *)
(* third is about the reading: what has been read while 42 rested is what  *)
(* there is, and a message is read whole.  The last is about the transfer: *)
(* its answer is fixed by the queue it found, and the model stays alive.   *)
(***************************************************************************)
WorldTyped ==
    /\ provider \in {"42", "shmem"}
    /\ position \in Positions
    /\ unwritten \subseteq Fields
    /\ source \in Points
    /\ phase \in Phases
    /\ point \in Points
    /\ unread \subseteq Fields

WrittenIsPosition ==
    /\ \A field \in Fields \ unwritten : source[field] = position[field]
    /\ provider = "42" => unwritten = {} /\ source = Message(position, source.form)
    /\ provider = "shmem" => source.form = "whole"

ReadIsSource ==
    phase = "Read" =>
        /\ undisturbed => /\ unwritten = {}
                          /\ \A field \in Fields \ unread : point[field] = source[field]
                          /\ unread # Fields => point.form = source.form
        /\ provider = "42" => unread \in {Fields, {}}
        /\ provider = "42" /\ unread = {} =>
              \E sun \in Positions : point = Message(sun, point.form)

TransferKept ==
    /\ phase = "Read" => out = Resized(queued, CmdSize)
    /\ phase # "Idle" => simState # "gone"

SensorInv == WorldTyped /\ WrittenIsPosition /\ ReadIsSource /\ TransferKept

LEMMA InitInv == Init => SensorInv
<1> SUFFICES ASSUME Init PROVE SensorInv
  OBVIOUS
<1>1. WorldTyped
  BY PointsAreTyped, ProvidersAssumption DEF Init, WorldTyped, Phases
<1>2. WrittenIsPosition
  BY DEF Init, WrittenIsPosition, Fields, Message
<1> QED
  BY <1>1, <1>2 DEF Init, SensorInv, ReadIsSource, TransferKept

\* The steps of the thread of the SPI bus keep it.
LEMMA SpiThreadInv ==
    ASSUME SensorInv, SpiThread
    PROVE  SensorInv'
<1> USE DEF SensorInv
<1>1. ASSUME NEW in \in Sim!MasterBytes, BeginTransfer(in)
      PROVE  SensorInv'
  <2>1. WorldTyped'
    BY <1>1 DEF BeginTransfer, WorldTyped, worldVars, Phases
  <2>2. WrittenIsPosition'
    BY <1>1 DEF BeginTransfer, WrittenIsPosition, worldVars
  <2>3. phase' = "Read" => unread' = Fields /\ in = Request
    BY <1>1 DEF BeginTransfer
  <2>4. ReadIsSource'
    BY <1>1, <2>3 DEF BeginTransfer, ReadIsSource, worldVars, Fields
  <2>5. TransferKept'
    BY <1>1 DEF BeginTransfer, TransferKept, Request, Buffer
  <2> QED
    BY <2>1, <2>2, <2>4, <2>5
<1>2. ASSUME ReadMessage
      PROVE  SensorInv'
  <2>1. WorldTyped'
    BY <1>2 DEF ReadMessage, WorldTyped, worldVars
  <2>2. WrittenIsPosition'
    BY <1>2 DEF ReadMessage, WrittenIsPosition, worldVars
  <2>3. ReadIsSource'
    BY <1>2 DEF ReadMessage, ReadIsSource, WrittenIsPosition, WorldTyped, worldVars
  <2>4. TransferKept'
    BY <1>2 DEF ReadMessage, TransferKept, modelVars
  <2> QED
    BY <2>1, <2>2, <2>3, <2>4
<1>3. ASSUME NEW field \in Fields, ReadValue(field)
      PROVE  SensorInv'
  <2>1. /\ point' \in Points /\ point'.form = "whole" /\ point'[field] = source[field]
        /\ \A other \in Fields \ {field} : point'[other] = point[other]
    BY <1>3 DEF ReadValue, WorldTyped, Points, Fields, MessageForms
  <2>2. WorldTyped'
    BY <1>3, <2>1 DEF ReadValue, WorldTyped, worldVars
  <2>3. WrittenIsPosition'
    BY <1>3 DEF ReadValue, WrittenIsPosition, worldVars
  <2>4. ReadIsSource'
    BY <1>3, <2>1 DEF ReadValue, ReadIsSource, WrittenIsPosition, worldVars
  <2>5. TransferKept'
    BY <1>3 DEF ReadValue, TransferKept, modelVars
  <2> QED
    BY <2>2, <2>3, <2>4, <2>5
<1>4. ASSUME FillQueue
      PROVE  SensorInv'
  BY <1>4 DEF FillQueue, WorldTyped, WrittenIsPosition, ReadIsSource, TransferKept,
              worldVars, Phases
<1>5. ASSUME EndTransfer
      PROVE  SensorInv'
  BY <1>5, PointsAreTyped DEF EndTransfer, WorldTyped, WrittenIsPosition, ReadIsSource,
              TransferKept, worldVars, Phases
<1> QED
  BY <1>1, <1>2, <1>3, <1>4, <1>5 DEF SpiThread

\* So do the commands, the end of the model and 42.
LEMMA OthersInv ==
    ASSUME SensorInv,
           (\E command \in SimCommands : Command(command)) \/ Destroy \/ World
    PROVE  SensorInv'
<1> USE DEF SensorInv
<1>1. ASSUME NEW command \in SimCommands, Command(command)
      PROVE  SensorInv'
  <2>1. simState # "gone" => simState' # "gone"
    BY <1>1, SimCommandsAssumption DEF Command, Sim!command_callback, Sim!AllCommands
  <2> QED
    BY <1>1, <2>1 DEF Command, WorldTyped, WrittenIsPosition, ReadIsSource, TransferKept,
              worldVars, transferVars
<1>2. ASSUME Destroy
      PROVE  SensorInv'
  BY <1>2 DEF Destroy, WorldTyped, WrittenIsPosition, ReadIsSource, TransferKept,
              worldVars, transferVars
<1>3. ASSUME NEW sun \in Positions, NEW form \in Forms, Publish(sun, form)
      PROVE  SensorInv'
  <2>1. /\ source' = Message(sun, form) /\ source' \in Points
        /\ source' = Message(position', source'.form)
        /\ \A field \in Fields : source'[field] = position'[field]
    BY <1>3, PointsAreTyped DEF Publish, Message, Fields
  <2>2. WorldTyped'
    BY <1>3, <2>1 DEF Publish, WorldTyped, transferVars
  <2>3. WrittenIsPosition'
    BY <1>3, <2>1 DEF Publish, WrittenIsPosition, transferVars
  <2>4. ReadIsSource' /\ TransferKept'
    BY <1>3 DEF Publish, ReadIsSource, TransferKept, transferVars, modelVars
  <2> QED
    BY <2>2, <2>3, <2>4
<1>4. ASSUME NEW sun \in Positions, BeginStore(sun)
      PROVE  SensorInv'
  BY <1>4 DEF BeginStore, WorldTyped, WrittenIsPosition, ReadIsSource, TransferKept,
              transferVars, modelVars
<1>5. ASSUME NEW field \in Fields, Store(field)
      PROVE  SensorInv'
  <2>1. /\ source' \in Points /\ source'.form = source.form
        /\ source'[field] = position[field]
        /\ \A other \in Fields \ {field} : source'[other] = source[other]
    BY <1>5, PositionsAssumption DEF Store, WorldTyped, Points, Fields
  <2>2. provider = "shmem"
    BY <1>5 DEF Store, WorldTyped, WrittenIsPosition
  <2>3. WorldTyped'
    BY <1>5, <2>1 DEF Store, WorldTyped, transferVars
  <2>4. WrittenIsPosition'
    BY <1>5, <2>1, <2>2 DEF Store, WrittenIsPosition, transferVars
  <2>5. phase = "Read" => ~undisturbed
    BY <1>5 DEF Store, ReadIsSource
  <2>6. ReadIsSource' /\ TransferKept'
    BY <1>5, <2>2, <2>5 DEF Store, ReadIsSource, TransferKept, transferVars, modelVars
  <2> QED
    BY <2>3, <2>4, <2>6
<1> QED
  BY <1>1, <1>2, <1>3, <1>4, <1>5 DEF World

(***************************************************************************)
(* The invariant holds of every behaviour of the sensor.                   *)
(***************************************************************************)
THEOREM SensorInvariant == Spec => []SensorInv
<1>1. ASSUME SensorInv, UNCHANGED vars
      PROVE  SensorInv'
  BY <1>1 DEF SensorInv, WorldTyped, WrittenIsPosition, ReadIsSource, TransferKept,
              vars, worldVars, transferVars, modelVars
<1>2. SensorInv /\ [Next]_vars => SensorInv'
  BY <1>1, SpiThreadInv, OthersInv DEF Next
<1> QED
  BY InitInv, <1>2, PTL DEF Spec
-------------------------------------------------------------------------------
(***************************************************************************)
(* What a data point is worth.                                             *)
(***************************************************************************)

\* Undisturbed, a data point that has been read is what 42 last said.
LEMMA ReadUndisturbed ==
    ASSUME SensorInv, phase = "Read", unread = {}, undisturbed
    PROVE  point = source /\ source = Message(position, source.form)
<1> USE DEF SensorInv
<1>1. /\ unwritten = {} /\ unread # Fields
      /\ \A field \in Fields : point[field] = source[field] /\ source[field] = position[field]
  BY DEF ReadIsSource, WrittenIsPosition, Fields
<1>2. point.form = source.form
  BY <1>1 DEF ReadIsSource
<1>3. /\ point.valid = source.valid /\ point.alpha = source.alpha /\ point.beta = source.beta
      /\ source.valid = position.valid /\ source.alpha = position.alpha
      /\ source.beta = position.beta
  BY <1>1 DEF Fields
<1>4. point = source
  BY <1>2, <1>3 DEF WorldTyped, Points
<1>5. source = Message(position, source.form)
  BY <1>3 DEF WorldTyped, Points, Message
<1> QED
  BY <1>4, <1>5

\* A data point taken while 42 rested is the last thing 42 said.
THEOREM UndisturbedReading == Spec => []UndisturbedIsCurrent
<1>1. SensorInv => UndisturbedIsCurrent
  BY ReadUndisturbed DEF UndisturbedIsCurrent
<1> QED
  BY <1>1, SensorInvariant, PTL

\* What is called valid was measured, but for the two exceptions.
THEOREM ValidReadingsMeasured == Spec => []ValidIsMeasured
<1>1. SensorInv => ValidIsMeasured
  <2> SUFFICES ASSUME SensorInv, phase = "Read", unread = {},
                      do_parsing(point).ErrorCode = 0
               PROVE  \/ do_parsing(point) \in Measured
                      \/ provider = "shmem" /\ ~undisturbed
                      \/ point.form = "garbled" /\ do_parsing(point).angles = ZeroAngles
    BY DEF ValidIsMeasured
  <2>1. point.form \in {"whole", "garbled"}
    BY DEF do_parsing, Reading
  <2>2. CASE point.form = "garbled"
    BY <2>2 DEF do_parsing, Reading
  <2>3. CASE point.form = "whole" /\ provider = "42"
    <3>1. PICK sun \in Positions : point = Message(sun, "whole")
      BY <2>3 DEF SensorInv, ReadIsSource
    <3> QED
      BY <3>1 DEF Measured
  <2>4. CASE point.form = "whole" /\ provider = "shmem" /\ undisturbed
    <3>1. point = Message(position, "whole") /\ position \in Positions
      BY <2>4, ReadUndisturbed DEF SensorInv, WorldTyped
    <3> QED
      BY <3>1 DEF Measured
  <2> QED
    BY <2>1, <2>2, <2>3, <2>4 DEF SensorInv, WorldTyped
<1> QED
  BY <1>1, SensorInvariant, PTL
-------------------------------------------------------------------------------
(***************************************************************************)
(* The refinement.  A transfer of FssSim is the step that fixes what will  *)
(* be queued: the end of a request's reading, or the beginning of any      *)
(* other transfer.  Every value that is read is a new truth of FssSim.     *)
(***************************************************************************)

\* Both modules mean the same by the bytes of FssWire.
LEMMA SameBytes ==
    /\ Sim!Empty = Empty /\ Sim!Zeros = Zeros /\ Sim!Request = Request
    /\ \A reading : Sim!Frame(reading) = Frame(reading)
    /\ \A bytes, n : Sim!Resized(bytes, n) = Resized(bytes, n)
BY DEF Sim!Empty, Empty, Sim!Idle, Idle, Sim!Buffer, Buffer, Sim!ZeroReading, ZeroReading,
       Sim!Zeros, Zeros, Sim!DataSize, DataSize, Sim!Request, Request, Sim!CmdSize, CmdSize,
       Sim!Frame, Frame, Sim!Resized, Resized, Sim!Other, Other

LEMMA InitRefines == Init => Sim!Init
<1>1. do_parsing(NoPoint) \in Readings
  BY PointsAreTyped, ParsingIsTyped
<1> QED
  BY <1>1, SameBytes DEF Init, Sim!Init

\* A step that only changes the data point is a new truth.
LEMMA NewPointIsSense ==
    ASSUME SensorInv, point' \in Points, phase # "Idle",
           UNCHANGED <<simEnabled, queued, simState, computed>>,
           (IF phase' = "Respond" THEN out' ELSE spiOut')
             = (IF phase = "Respond" THEN out ELSE spiOut)
    PROVE  Sim!Next
<1>1. do_parsing(point') \in Readings
  BY ParsingIsTyped
<1>2. simState # "gone"
  BY DEF SensorInv, TransferKept
<1>3. Sim!Sense(do_parsing(point'))
  BY <1>2 DEF Sim!Sense
<1> QED
  BY <1>1, <1>3 DEF Sim!Next, Sim!Background

LEMMA NextRefines == SensorInv /\ [Next]_vars => [Sim!Next]_(Sim!vars)
<1> SUFFICES ASSUME SensorInv, [Next]_vars PROVE [Sim!Next]_(Sim!vars)
  OBVIOUS
<1>1. ASSUME NEW in \in Sim!MasterBytes, BeginTransfer(in)
      PROVE  [Sim!Next]_(Sim!vars)
  <2>1. CASE in = Request
    BY <1>1, <2>1 DEF BeginTransfer, Sim!vars
  <2>2. CASE in # Request
    <3>1. Sim!SpiWrite(in)
      BY <1>1, <2>2, SameBytes DEF BeginTransfer, Sim!SpiWrite
    <3> QED
      BY <3>1 DEF Sim!Next, Sim!Transfer
  <2> QED
    BY <2>1, <2>2
<1>2. ASSUME ReadMessage
      PROVE  [Sim!Next]_(Sim!vars)
  <2>1. point' \in Points
    BY <1>2 DEF ReadMessage, SensorInv, WorldTyped
  <2> QED
    BY <1>2, <2>1, NewPointIsSense DEF ReadMessage, modelVars
<1>3. ASSUME NEW field \in Fields, ReadValue(field)
      PROVE  [Sim!Next]_(Sim!vars)
  <2>1. point' \in Points
    BY <1>3 DEF ReadValue, SensorInv, WorldTyped, Points, Fields, MessageForms
  <2> QED
    BY <1>3, <2>1, NewPointIsSense DEF ReadValue, modelVars
<1>4. ASSUME FillQueue
      PROVE  [Sim!Next]_(Sim!vars)
  <2>1. out = Resized(queued, Request.size) /\ simState # "gone"
    BY <1>4 DEF FillQueue, SensorInv, TransferKept, Request, Buffer
  <2>2. Sim!SpiWrite(Request)
    BY <1>4, <2>1, SameBytes DEF FillQueue, Sim!SpiWrite, Sim!NextQueued
  <2>3. Request \in Sim!MasterBytes
    BY SameBytes DEF Sim!MasterBytes
  <2> QED
    BY <2>2, <2>3 DEF Sim!Next, Sim!Transfer
<1>5. ASSUME EndTransfer
      PROVE  [Sim!Next]_(Sim!vars)
  BY <1>5, NewPointIsSense, PointsAreTyped DEF EndTransfer
<1>6. ASSUME NEW command \in SimCommands, Command(command)
      PROVE  [Sim!Next]_(Sim!vars)
  <2>1. Sim!Command(command)
    BY <1>6 DEF Command, Sim!Command, transferVars
  <2> QED
    BY <2>1 DEF Sim!Next, Sim!Background
<1>7. ASSUME Destroy
      PROVE  [Sim!Next]_(Sim!vars)
  <2>1. Sim!Destroy
    BY <1>7 DEF Destroy, Sim!Destroy, transferVars
  <2> QED
    BY <2>1 DEF Sim!Next, Sim!Background
<1>8. ASSUME World \/ UNCHANGED vars
      PROVE  [Sim!Next]_(Sim!vars)
  BY <1>8 DEF World, Publish, BeginStore, Store, transferVars, modelVars, vars, Sim!vars
<1> QED
  BY <1>1, <1>2, <1>3, <1>4, <1>5, <1>6, <1>7, <1>8 DEF Next, SpiThread

\* The sensor in its steps implements the sensor with atomic transfers.
THEOREM ImplementsSim == Spec => SimSpec
<1>1. Spec => Sim!Init /\ [][Sim!Next]_(Sim!vars)
  BY InitRefines, NextRefines, SensorInvariant, PTL DEF Spec
<1> QED
  BY <1>1 DEF SimSpec, Sim!Spec
-------------------------------------------------------------------------------
(***************************************************************************)
(* The queue.  Only a request to a disabled sensor leaves in it something  *)
(* else than the write asks for, and then it is a frame that was there.    *)
(***************************************************************************)
Queues == {Empty, Zeros} \cup {Frame(reading) : reading \in Readings}

QueueInv ==
    /\ provider \in Providers /\ undisturbed \in BOOLEAN
    /\ queued \in Queues /\ computed \in Queues
    /\ out \in Bytes /\ spiOut \in Bytes
    /\ simEnabled \in {0, 1}
    /\ simState \in {"running", "stopping", "gone"}
    /\ OnlyDisabledKeepsFrame

\* The members of Queues, and what a transfer makes of them.
LEMMA QueueFacts ==
    /\ Empty \in Queues /\ Zeros \in Queues
    /\ \A reading \in Readings : Frame(reading) \in Queues
    /\ Queues \subseteq Bytes
    /\ Empty.kind = "idle" /\ Empty.size = 0
    /\ \A bytes \in Queues : /\ bytes.kind = "frame" => bytes.size = DataSize
                             /\ bytes.size = DataSize /\ bytes # Zeros => bytes.kind = "frame"
    /\ \A bytes \in Bytes, n \in Sizes :
          /\ Resized(bytes, n) \in Bytes
          /\ Resized(bytes, n).kind = "frame" =>
                Resized(bytes, n) = bytes /\ bytes.size = n
<1>1. ZeroReading \in Readings
  BY AnglesAssumption DEF ZeroReading, Readings
<1>2. Empty \in Bytes /\ Empty.kind = "idle" /\ Empty.size = 0
  BY <1>1 DEF Empty, Idle, Buffer, Bytes, Sizes
<1>3. Zeros \in Bytes /\ Zeros.kind = "zeros"
  BY <1>1 DEF Zeros, Buffer, Bytes, Sizes
<1>4. \A reading \in Readings : /\ Frame(reading) \in Bytes
                                /\ Frame(reading).kind = "frame"
                                /\ Frame(reading).size = DataSize
  BY DEF Frame, Bytes, Sizes
<1>5. ASSUME NEW bytes \in Bytes, NEW n \in Sizes
      PROVE  /\ Resized(bytes, n) \in Bytes
             /\ Resized(bytes, n).kind = "frame" =>
                    Resized(bytes, n) = bytes /\ bytes.size = n
  <2>1. /\ Idle(n) \in Bytes /\ Idle(n).kind = "idle"
        /\ Other(n) \in Bytes /\ Other(n).kind = "other"
    BY <1>1 DEF Idle, Other, Buffer, Bytes
  <2> QED
    BY <2>1 DEF Resized
<1>6. ASSUME NEW bytes \in Queues
      PROVE  /\ bytes.kind = "frame" => bytes.size = DataSize
             /\ bytes.size = DataSize /\ bytes # Zeros => bytes.kind = "frame"
  BY <1>2, <1>3, <1>4 DEF Queues, DataSize
<1>7. Queues \subseteq Bytes
  BY <1>2, <1>3, <1>4 DEF Queues
<1> QED
  BY <1>2, <1>5, <1>6, <1>7 DEF Queues

LEMMA QueueInit == Init => QueueInv
BY QueueFacts DEF Init, QueueInv, OnlyDisabledKeepsFrame, Sim!OnlyDisabledKeepsFrame,
                  Sim!GENERIC_FSS_SIM_SUCCESS

LEMMA QueueStep == SensorInv /\ QueueInv /\ [Next]_vars => QueueInv'
<1> SUFFICES ASSUME SensorInv, QueueInv, [Next]_vars PROVE QueueInv'
  OBVIOUS
<1> USE DEF QueueInv
<1>1. ASSUME NEW in \in Sim!MasterBytes, BeginTransfer(in)
      PROVE  QueueInv'
  <2>1. in.size \in Sizes
    BY <1>1, SameBytes DEF Sim!MasterBytes, Request, Sim!Other, Sim!Idle, Sim!Buffer,
                      Buffer, Sizes, Sim!CmdSize, Sim!DataSize, CmdSize, DataSize
  <2>2. out' \in Bytes
    BY <1>1, <2>1, QueueFacts DEF BeginTransfer
  <2>3. \/ UNCHANGED <<queued, computed>>
        \/ queued' = Empty /\ computed' = Empty
    BY <1>1, SameBytes DEF BeginTransfer, Sim!NextQueued
  <2> QED
    BY <1>1, <2>2, <2>3, QueueFacts DEF BeginTransfer, OnlyDisabledKeepsFrame,
                                        Sim!OnlyDisabledKeepsFrame, worldVars
<1>2. ASSUME FillQueue
      PROVE  QueueInv'
  <2>1. do_parsing(point) \in Readings
    BY ParsingIsTyped DEF SensorInv, WorldTyped
  <2>2. CASE simEnabled = 0
    <3>1. queued' = computed' /\ computed' = Frame(do_parsing(point))
      BY <1>2, <2>2, SameBytes DEF FillQueue, Sim!GenericFssData, Sim!GENERIC_FSS_SIM_SUCCESS
    <3> QED
      BY <1>2, <2>1, <3>1, QueueFacts DEF FillQueue, OnlyDisabledKeepsFrame,
                                          Sim!OnlyDisabledKeepsFrame, worldVars
  <2>3. CASE simEnabled # 0
    <3>1. /\ computed' = Zeros
          /\ \/ queued' = Zeros
             \/ queued' = queued /\ queued.size = DataSize
      BY <1>2, <2>3, SameBytes DEF FillQueue, Sim!GenericFssData, Sim!GENERIC_FSS_SIM_SUCCESS,
                                   Sim!DataSize, DataSize
    <3> QED
      BY <1>2, <3>1, QueueFacts, SameBytes DEF FillQueue, OnlyDisabledKeepsFrame,
                                               Sim!OnlyDisabledKeepsFrame, worldVars
  <2> QED
    BY <2>2, <2>3
<1>3. ASSUME EndTransfer
      PROVE  QueueInv'
  BY <1>3, QueueFacts DEF EndTransfer, OnlyDisabledKeepsFrame, Sim!OnlyDisabledKeepsFrame,
                          worldVars
<1>4. ASSUME NEW command \in SimCommands, Command(command)
      PROVE  QueueInv'
  BY <1>4, SimCommandsAssumption
     DEF Command, Sim!command_callback, Sim!AllCommands, Sim!GENERIC_FSS_SIM_SUCCESS,
         Sim!GENERIC_FSS_SIM_ERROR, worldVars, transferVars, OnlyDisabledKeepsFrame,
         Sim!OnlyDisabledKeepsFrame
<1>5. ASSUME Destroy
      PROVE  QueueInv'
  BY <1>5 DEF Destroy, worldVars, transferVars, OnlyDisabledKeepsFrame, Sim!OnlyDisabledKeepsFrame
<1>6. ASSUME ReadMessage \/ (\E field \in Fields : ReadValue(field)) \/ World \/ UNCHANGED vars
      PROVE  QueueInv'
  BY <1>6 DEF ReadMessage, ReadValue, World, Publish, BeginStore, Store, modelVars,
              worldVars, transferVars, vars, OnlyDisabledKeepsFrame,
              Sim!OnlyDisabledKeepsFrame
<1> QED
  BY <1>1, <1>2, <1>3, <1>4, <1>5, <1>6 DEF Next, SpiThread

LEMMA QueueInvariant == Spec => []QueueInv
BY QueueInit, QueueStep, SensorInvariant, PTL DEF Spec

\* Whatever the master sends and whenever the commands arrive, only a disabled
\* sensor keeps a frame nobody asked for with the last write.
THEOREM OnlyDisabledKeeps == Spec => []OnlyDisabledKeepsFrame
<1>1. QueueInv => OnlyDisabledKeepsFrame
  BY DEF QueueInv
<1> QED
  BY <1>1, QueueInvariant, PTL

\* Every variable has its type.
THEOREM TypeCorrect == Spec => []TypeOK
<1>1. SensorInv /\ QueueInv => TypeOK
  <2> SUFFICES ASSUME SensorInv, QueueInv PROVE TypeOK
    OBVIOUS
  <2>1. do_parsing(point) \in Readings
    BY ParsingIsTyped DEF SensorInv, WorldTyped
  <2>2. Sim!Bytes = Bytes
    BY DEF Sim!Bytes, Bytes, Sim!Sizes, Sizes, Sim!CmdSize, CmdSize, Sim!DataSize, DataSize,
           Sim!Readings, Readings
  <2>3. Sim!TypeOK
    BY <2>1, <2>2, SameBytes DEF QueueInv, Queues, Sim!TypeOK, Sim!GENERIC_FSS_SIM_SUCCESS,
                            Sim!GENERIC_FSS_SIM_ERROR
  <2> QED
    BY <2>3 DEF SensorInv, WorldTyped, QueueInv, TypeOK
<1> QED
  BY <1>1, SensorInvariant, QueueInvariant, PTL

\* No frame enters the queue of a disabled sensor, and a frame goes out once,
\* in the transfer that follows the request.
THEOREM DisabledIsSilent == Spec => DisabledMeasuresNothing
<1> DEFINE shown == IF phase = "Respond" THEN out ELSE spiOut
           silent == /\ simEnabled = 1 /\ queued'.kind = "frame" => queued' = queued
                     /\ shown' # shown /\ shown'.kind = "frame" =>
                            computed # Empty /\ queued' = Empty
<1>1. ASSUME SensorInv, QueueInv, NEW in \in Sim!MasterBytes, BeginTransfer(in)
      PROVE  silent
  <2>1. in.size \in Sizes /\ (in.size = 0 => FALSE)
    BY <1>1, SameBytes DEF Sim!MasterBytes, Request, Sim!Other, Sim!Idle, Sim!Buffer,
                      Buffer, Sizes, Sim!CmdSize, Sim!DataSize, CmdSize, DataSize
  <2>2. CASE in = Request
    BY <1>1, <2>2 DEF BeginTransfer
  <2>3. CASE in # Request
    <3>1. queued' = Empty /\ shown' = Resized(queued, in.size) /\ shown = spiOut
      BY <1>1, <2>3, SameBytes DEF BeginTransfer, Sim!NextQueued
    <3>2. shown'.kind = "frame" => queued.kind = "frame"
      BY <1>1, <2>1, <3>1, QueueFacts DEF QueueInv
    <3>3. queued.kind = "frame" => computed # Empty
      BY <1>1, QueueFacts, SameBytes DEF QueueInv, OnlyDisabledKeepsFrame,
         Sim!OnlyDisabledKeepsFrame, Zeros, Buffer, Empty, Idle
    <3> QED
      BY <3>1, <3>2, <3>3, QueueFacts
  <2> QED
    BY <2>2, <2>3
<1>2. ASSUME SensorInv, QueueInv, FillQueue
      PROVE  silent
  <2>1. simEnabled = 1 => queued' = Zeros \/ queued' = queued
    BY <1>2, SameBytes DEF FillQueue, Sim!GenericFssData, Sim!GENERIC_FSS_SIM_SUCCESS
  <2>2. out.kind # "frame"
    <3>1. CmdSize \in Sizes /\ CmdSize # DataSize /\ out = Resized(queued, CmdSize)
      BY <1>2 DEF FillQueue, SensorInv, TransferKept, Sizes, CmdSize, DataSize
    <3> QED
      BY <1>2, <3>1, QueueFacts DEF QueueInv
  <2>3. Zeros.kind = "zeros"
    BY DEF Zeros, Buffer
  <2> QED
    BY <1>2, <2>1, <2>2, <2>3 DEF FillQueue
<1>3. ASSUME SensorInv, QueueInv, EndTransfer \/ ReadMessage
                                  \/ (\E field \in Fields : ReadValue(field)) \/ Destroy
                                  \/ World \/ UNCHANGED vars
      PROVE  silent
  BY <1>3 DEF EndTransfer, ReadMessage, ReadValue, Destroy, World, Publish, BeginStore,
              Store, modelVars, transferVars, vars
<1>4. ASSUME SensorInv, QueueInv, NEW command \in SimCommands, Command(command)
      PROVE  silent
  BY <1>4 DEF Command, transferVars
<1>5. SensorInv /\ QueueInv /\ [Next]_vars => silent
  BY <1>1, <1>2, <1>3, <1>4 DEF Next, SpiThread
<1>6. silent => Sim!MeasuresNothing
  BY SameBytes DEF Sim!MeasuresNothing, Sim!GENERIC_FSS_SIM_ERROR
<1>7. SensorInv /\ QueueInv /\ [Next]_vars => [Sim!MeasuresNothing]_(Sim!vars)
  BY <1>5, <1>6
<1> QED
  BY <1>7, SensorInvariant, QueueInvariant, PTL
     DEF Spec, DisabledMeasuresNothing, Sim!DisabledMeasuresNothing
===============================================================================
