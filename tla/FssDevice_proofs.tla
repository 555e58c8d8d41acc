--------------------------- MODULE FssDevice_proofs ---------------------------
(***************************************************************************)
(* Theorems about the device library, for every set of angles and faults   *)
(* and whatever the sensor answers: what a request that reports success    *)
(* has done, and what may reach the caller's data.                         *)
(***************************************************************************)
EXTENDS FssDevice, TLAPS

(***************************************************************************)
(* The inductive invariant.  A call in its middle runs on an open device   *)
(* and has met no error yet; once the answer is in, it has the size of a   *)
(* frame.  A call that is done and met no error has unselected the chip.   *)
(***************************************************************************)
AnswerIn == step = "ReadUnselect" => miso.size = DataSize

OnOpenDevice ==
    step \in {"CmdTransfer", "CmdUnselect", "ReadSelect", "ReadTransfer", "ReadUnselect"} =>
        spi = "open"

DeviceInv == TypeOK /\ AnswerIn /\ OnOpenDevice /\ SuccessCompletes

\* The buffers of a call are buffers of the bus.
LEMMA BuffersAreTyped ==
    /\ Empty \in Bytes /\ Request \in Bytes
    /\ UninitialisedBuffer \subseteq Bytes
    /\ \A answer \in Answers : answer \in Bytes /\ answer.size = DataSize
<1>1. ZeroReading \in Readings
  BY AnglesAssumption DEF ZeroReading, Readings
<1>2. \A kind \in {"request", "idle", "zeros", "other"}, n \in Sizes :
        Buffer(kind, n) \in Bytes /\ Buffer(kind, n).size = n
  BY <1>1 DEF Buffer, Bytes
<1>3. \A r \in Readings : Frame(r) \in Bytes /\ Frame(r).size = DataSize
  BY DEF Frame, Bytes, Sizes
<1> QED
  BY <1>2, <1>3 DEF Answers, UninitialisedBuffer, Empty, Request, Idle, Zeros, Other, Sizes

\* What a call leaves in the data is a reading.
LEMMA NewDataIsTyped == TypeOK => NewData \in Readings
BY DEF TypeOK, NewData, Bytes

LEMMA InitInv == Init => DeviceInv
BY BuffersAreTyped, AnglesAssumption
   DEF Init, DeviceInv, TypeOK, AnswerIn, OnOpenDevice, SuccessCompletes, Steps,
       ZeroReading, Readings

LEMMA StepInv == DeviceInv /\ [Next]_vars => DeviceInv'
<1> SUFFICES ASSUME DeviceInv, [Next]_vars PROVE DeviceInv'
  OBVIOUS
<1> USE DEF DeviceInv, AnswerIn, OnOpenDevice, SuccessCompletes
<1>1. CASE Call
  BY <1>1 DEF Call, TypeOK, Steps
<1>2. CASE OpenDevice
  BY <1>2 DEF OpenDevice, TypeOK, callVars
<1>3. CASE CloseDevice
  BY <1>3 DEF CloseDevice, TypeOK, callVars
<1>4. CASE CmdSelect \/ ReadSelect
  BY <1>4 DEF CmdSelect, ReadSelect, Select, Works, Fails, TypeOK, Steps
<1>5. CASE CmdUnselect
  BY <1>5 DEF CmdUnselect, Unselect, Works, Fails, TypeOK, Steps
<1>6. CASE ReadUnselect
  BY <1>6 DEF ReadUnselect, Unselect, Works, Fails, TypeOK, Steps
<1>7. CASE CmdTransfer
  BY <1>7, BuffersAreTyped DEF CmdTransfer, Works, TypeOK, Steps
<1>8. ASSUME NEW answer \in Answers, ReadTransfer(answer)
      PROVE  DeviceInv'
  <2>1. answer \in Bytes /\ answer.size = DataSize /\ mosi' \in Bytes
    BY <1>8, BuffersAreTyped DEF ReadTransfer
  <2> QED
    BY <1>8, <2>1 DEF ReadTransfer, Works, TypeOK, Steps
<1>9. CASE TransferFails
  BY <1>9 DEF TransferFails, Fails, TypeOK, Steps
<1>10. CASE Return
  BY <1>10, BuffersAreTyped, NewDataIsTyped DEF Return, TypeOK, Steps
<1>11. CASE UNCHANGED vars
  BY <1>11 DEF vars, callVars, TypeOK
<1> QED
  BY <1>1, <1>2, <1>3, <1>4, <1>5, <1>6, <1>7, <1>8, <1>9, <1>10, <1>11
     DEF Next, Library, RequestData

\* The invariant holds of every behaviour of the library and its caller.
LEMMA DeviceInvariant == Spec => []DeviceInv
BY InitInv, StepInv, PTL DEF Spec
-------------------------------------------------------------------------------
\* Every variable has its type.
THEOREM TypeCorrect == Spec => []TypeOK
<1>1. DeviceInv => TypeOK
  BY DEF DeviceInv
<1> QED
  BY <1>1, DeviceInvariant, PTL

\* A request that reports success went through both exchanges, has an answer
\* of the size of a frame, and has left the chip unselected.
THEOREM SuccessIsComplete == Spec => []SuccessCompletes
<1>1. DeviceInv => SuccessCompletes
  BY DEF DeviceInv
<1> QED
  BY <1>1, DeviceInvariant, PTL

\* The caller's data change only by a request that reports success and found a
\* frame that passes every check, and then to what the frame carries.
THEOREM DataFromFrames == Spec => DataFromVerifiedFrame
<1> DEFINE fromFrame == data' # data =>
              /\ step = "Return" /\ status = "OS_SUCCESS"
              /\ \E r \in Readings : miso = Frame(r) /\ data' = r
<1>1. ASSUME TypeOK, Return
      PROVE  fromFrame
  <2> SUFFICES ASSUME data' # data PROVE fromFrame
    OBVIOUS
  <2>1. status = "OS_SUCCESS" /\ Verified(miso) /\ data' = miso.reading
    BY <1>1 DEF Return, NewData
  <2>2. miso.reading \in Readings /\ miso = Frame(miso.reading)
    BY <1>1, <2>1 DEF TypeOK, Bytes, Verified, Frame
  <2> QED
    BY <1>1, <2>1, <2>2 DEF Return
<1>2. ASSUME [Next]_vars, ~Return
      PROVE  UNCHANGED data
  BY <1>2 DEF Next, Library, RequestData, Call, OpenDevice, CloseDevice, CmdSelect, ReadSelect,
              Select, CmdUnselect, ReadUnselect, Unselect, CmdTransfer, ReadTransfer,
              TransferFails, vars
<1>3. TypeOK /\ [Next]_vars => [fromFrame]_vars
  BY <1>1, <1>2
<1> QED
  BY <1>3, TypeCorrect, PTL DEF Spec, DataFromVerifiedFrame
===============================================================================
