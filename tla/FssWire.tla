-------------------------------- MODULE FssWire --------------------------------
(***************************************************************************)
(* What travels between the fine sun sensor and its driver.  A buffer on   *)
(* the SPI bus is abstracted to what either end can tell of it: its size,  *)
(* and whether it is exactly the request, a frame that passes the driver's *)
(* checks (with the reading it carries), the bus idle pattern, zeros, or   *)
(* anything else.  The bytes themselves are the subject of FssFrame.       *)
(***************************************************************************)
CONSTANTS Angles,       \* the pairs <<alpha, beta>> the sensor can measure
          ZeroAngles    \* the pair <<0.0, 0.0>>, which is also what zeroed memory holds

ASSUME AnglesAssumption == ZeroAngles \in Angles

\* The device telemetry: alpha and beta, and ErrorCode 0 when they are valid.
Readings    == [angles : Angles, ErrorCode : {0, 1}]
ZeroReading == [angles |-> ZeroAngles, ErrorCode |-> 0]

\* The calls of the hardware library that use the bus.
SpiCalls == {"spi_select_chip", "spi_transaction", "spi_unselect_chip"}

CmdSize  == 7
DataSize == 16
Sizes    == {0, CmdSize, DataSize}

Bytes == [kind    : {"request", "frame", "idle", "zeros", "other"},
          size    : Sizes,
          reading : Readings]

Buffer(kind, size) == [kind |-> kind, size |-> size, reading |-> ZeroReading]

Request  == Buffer("request", CmdSize)      \* DE AD BE EF 01 01 02
Idle(n)  == Buffer("idle", n)               \* FF FF ... FF
Zeros    == Buffer("zeros", DataSize)       \* 00 00 ... 00
Other(n) == Buffer("other", n)              \* n bytes that are none of these
Empty    == Idle(0)
Frame(r) == [kind |-> "frame", size |-> DataSize, reading |-> r]

\* Header, command code, length and checksum are those of a data frame.
Verified(bytes) == bytes.kind = "frame" /\ bytes.size = DataSize

\* std::vector::resize(n, 0xFF): cut, or fill with the idle pattern.
Resized(bytes, n) ==
    IF bytes.size = n THEN bytes
    ELSE IF bytes.size = 0 THEN Idle(n)
    ELSE Other(n)
===============================================================================
