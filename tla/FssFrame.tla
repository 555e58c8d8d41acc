-------------------------------- MODULE FssFrame --------------------------------
(***************************************************************************)
(* The bytes on the SPI bus: how the driver builds a request and the       *)
(* sensor recognises it, how the sensor builds a frame and the driver      *)
(* takes it apart, and what one byte damaged on the way does to either.    *)
(* A float is its four bytes, numbered from the least significant one: the *)
(* code moves the bits and never computes with them.                       *)
(*                                                                         *)
(* FssWire stands on this module: what it calls a request or a frame is    *)
(* what arrives here as it was sent, anything else is told apart from it.  *)
(***************************************************************************)
EXTENDS Integers

CONSTANTS Words     \* the floats to try, as functions from 0 .. 3 to bytes

Byte == 0 .. 255
Host == {"little", "big"}   \* __BYTE_ORDER__ of the machine a program is built for

ASSUME WordsAssumption == Words \subseteq [0 .. 3 -> Byte]

CmdLength  == 7
DataLength == 16

\* 0xDEADBEEF, GENERIC_FSS_DEVICE_HDR_0 .. GENERIC_FSS_DEVICE_HDR_3
Header == [i \in 0 .. 3 |-> CASE i = 0 -> 222 [] i = 1 -> 173
                              [] i = 2 -> 190 [] i = 3 -> 239]

GENERIC_FSS_DEVICE_REQ_DATA_CMD == 1

\* Mutant: the loop stops one byte early.
compute_checksum_Short(in, starting_byte, number_of_bytes) ==
    LET sum[n \in 0 .. number_of_bytes] ==
            IF n = 0 THEN 0 ELSE sum[n - 1] + in[starting_byte + n - 1]
    IN  sum[number_of_bytes - 1] % 256

\* The low byte of the sum, which 32 bits hold without overflow.
compute_checksum(in, starting_byte, number_of_bytes) ==
    LET sum[n \in 0 .. number_of_bytes] ==
            IF n = 0 THEN 0 ELSE sum[n - 1] + in[starting_byte + n - 1]
    IN  sum[number_of_bytes] % 256

\* The bytes of a message with the checksum of those after the header put last.
Sealed(bytes, last) == [bytes EXCEPT ![last] = compute_checksum(bytes, 4, last - 4)]
-------------------------------------------------------------------------------
\* GENERIC_FSS_CommandDevice, and the sensor's test for a request.

RequestBytes(cmd_code) ==
    Sealed([i \in 0 .. CmdLength - 1 |->
                CASE i < 4 -> Header[i] [] i = 4 -> cmd_code [] i = 5 -> 1 [] i = 6 -> 0],
           CmdLength - 1)

IsRequest(in) ==
    /\ DOMAIN in = 0 .. CmdLength - 1
    /\ \A i \in 0 .. 3 : in[i] = Header[i]
    /\ in[4] = 1 /\ in[5] = 1 /\ in[6] = 2
-------------------------------------------------------------------------------
\* create_generic_fss_data, and the driver's test of what it has read.

\* Mutant: the big-endian branch is taken on every host.
double_to_4bytes_Swapped(host, word) == [i \in 0 .. 3 |-> word[3 - i]]

double_to_4bytes_little_endian(host, word) ==
    IF host = "little" THEN [i \in 0 .. 3 |-> word[i]]
    ELSE [i \in 0 .. 3 |-> word[3 - i]]

FrameBytes(host, reading) ==
    LET alpha == double_to_4bytes_little_endian(host, reading.alpha)
        beta  == double_to_4bytes_little_endian(host, reading.beta)
    IN  Sealed([i \in 0 .. DataLength - 1 |->
                  CASE i < 4        -> Header[i]
                    [] i = 4        -> 1
                    [] i = 5        -> 10
                    [] i \in 6 .. 9   -> alpha[i - 6]
                    [] i \in 10 .. 13 -> beta[i - 10]
                    [] i = 14       -> reading.ErrorCode
                    [] i = 15       -> 0],
               DataLength - 1)

IsFrame(read_data) ==
    /\ \A i \in 0 .. 3 : read_data[i] = Header[i]
    /\ read_data[4] = 1
    /\ read_data[5] = 10
    /\ read_data[15] = compute_checksum(read_data, 4, 11)

\* Byte i of the word that the four bytes from first make.
fourbytes_little_endian_to_float(host, bytes, first) ==
    IF host = "little" THEN [i \in 0 .. 3 |-> bytes[first + i]]
    ELSE [i \in 0 .. 3 |-> bytes[first + 3 - i]]

ParsedReading(host, read_data) ==
    [alpha     |-> fourbytes_little_endian_to_float(host, read_data, 6),
     beta      |-> fourbytes_little_endian_to_float(host, read_data, 10),
     ErrorCode |-> read_data[14]]
-------------------------------------------------------------------------------
(***************************************************************************)
(* One message on the bus: sent whole, and damaged in at most one byte.    *)
(***************************************************************************)
VARIABLES
    sensorHost,     \* the machine of the simulator, which writes the frame
    driverHost,     \* the machine of the flight software, which reads it
    reading,        \* what the sensor measured
    sentBytes, received

vars == <<sensorHost, driverHost, reading, sentBytes, received>>

ReadingsOnWire == [alpha : Words, beta : Words, ErrorCode : {0, 1}]

Init ==
    /\ sensorHost \in Host
    /\ driverHost \in Host
    /\ reading \in ReadingsOnWire
    /\ sentBytes \in {RequestBytes(GENERIC_FSS_DEVICE_REQ_DATA_CMD),
                      FrameBytes(sensorHost, reading)}
    /\ received = sentBytes

\* The bus replaces one byte by another.
Damage ==
    /\ received = sentBytes
    /\ \E position \in DOMAIN sentBytes, value \in Byte :
          received' = [sentBytes EXCEPT ![position] = value]
    /\ UNCHANGED <<sensorHost, driverHost, reading, sentBytes>>

Next == Damage

Spec == Init /\ [][Next]_vars
-------------------------------------------------------------------------------
IsRequestSent == DOMAIN sentBytes = 0 .. CmdLength - 1

Accepted == IF IsRequestSent THEN IsRequest(received) ELSE IsFrame(received)

\* A float as the machine of the other order reads it.
Turned(word) == [i \in 0 .. 3 |-> word[3 - i]]

ReadingThere ==
    IF sensorHost = driverHost THEN reading
    ELSE [reading EXCEPT !.alpha = Turned(@), !.beta = Turned(@)]

(***************************************************************************)
(* A message that arrives as it was sent is taken.  Between machines of    *)
(* one byte order, whichever it is, a frame gives the driver the very bits *)
(* of the sensor's floats and its error code.  Nothing in a frame tells    *)
(* the order: between machines of different order it is taken as well, and *)
(* both floats, but not the error code, are read the wrong way round.      *)
(***************************************************************************)
IntactIsAccepted ==
    received = sentBytes =>
        Accepted /\ (~IsRequestSent => ParsedReading(driverHost, received) = ReadingThere)

(***************************************************************************)
(* A message with any one byte damaged, header, length, data or checksum,  *)
(* is refused: neither a request the sensor answers nor a reading the      *)
(* driver takes.                                                           *)
(***************************************************************************)
DamagedIsRefused == received # sentBytes => ~Accepted

(***************************************************************************)
(* README.md, "Frame Format", gives the frame of 5 degrees (0x40 A0 00 00) *)
(* and 10 degrees (0x41 20 00 00): DE AD BE EF 01 0A 40 A0 00 00 41 20 00  *)
(* 00 00, and the checksum 4C.  It names no machine.  A little-endian one  *)
(* sends each float the other way round, so this does not hold.            *)
(***************************************************************************)
Five == [i \in 0 .. 3 |-> CASE i = 3 -> 64 [] i = 2 -> 160 [] i < 2 -> 0]
Ten  == [i \in 0 .. 3 |-> CASE i = 3 -> 65 [] i = 2 -> 32  [] i < 2 -> 0]

FiveAndTenSent ==
    ~IsRequestSent /\ reading = [alpha |-> Five, beta |-> Ten, ErrorCode |-> 0]

DocumentedBytes ==
    <<222, 173, 190, 239, 1, 10, 64, 160, 0, 0, 65, 32, 0, 0, 0, 76>>

AsDocumented == \A i \in 0 .. DataLength - 1 : sentBytes[i] = DocumentedBytes[i + 1]

DocumentedFrame == FiveAndTenSent => AsDocumented
===============================================================================
