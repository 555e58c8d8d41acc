---------------------------- MODULE FssFrame_proofs ----------------------------
(***************************************************************************)
(* Theorems about the bytes on the SPI bus, for every pair of floats and   *)
(* either byte order at either end: a whole message is taken, as it was    *)
(* meant when the two orders are the same, a message with one byte damaged *)
(* is refused, and which machines send the documented frame.               *)
(***************************************************************************)
EXTENDS FssFrame, TLAPS

(***************************************************************************)
(* The checksum.  The loop of compute_checksum is a recursive function;    *)
(* that there is such a function is shown one step of the loop at a time,  *)
(* and then it unfolds to the plain sum of its two or its eleven bytes.    *)
(***************************************************************************)
Sums(in, first, count, s) ==
    s = [n \in 0 .. count |-> IF n = 0 THEN 0 ELSE s[n - 1] + in[first + n - 1]]

Summable(in, first, count) == \E s : Sums(in, first, count, s)

LEMMA SumExtends ==
    ASSUME NEW in, NEW first \in Nat, NEW k \in Nat, Summable(in, first, k)
    PROVE  Summable(in, first, k + 1)
<1>1. PICK s : Sums(in, first, k, s)
  BY DEF Summable
<1> DEFINE t == [n \in 0 .. k + 1 |-> IF n = k + 1 THEN s[k] + in[first + k] ELSE s[n]]
<1>2. ASSUME NEW n \in 0 .. k + 1
      PROVE  t[n] = IF n = 0 THEN 0 ELSE t[n - 1] + in[first + n - 1]
  <2>1. CASE n = k + 1
    <3>1. t[n] = s[k] + in[first + k] /\ t[n - 1] = s[k]
      BY <2>1
    <3> QED
      BY <2>1, <3>1
  <2>2. CASE n \in 1 .. k
    <3>1. t[n] = s[n] /\ t[n - 1] = s[n - 1]
      BY <2>2
    <3>2. s[n] = s[n - 1] + in[first + n - 1]
      BY <1>1, <2>2 DEF Sums
    <3> QED
      BY <2>2, <3>1, <3>2
  <2>3. CASE n = 0
    <3>1. t[n] = s[0] /\ s[0] = 0
      BY <1>1, <2>3 DEF Sums
    <3> QED
      BY <2>3, <3>1
  <2> QED
    BY <2>1, <2>2, <2>3
<1>3. Sums(in, first, k + 1, t)
  BY <1>2 DEF Sums
<1> QED
  BY <1>3 DEF Summable

LEMMA ElevenSummable ==
    ASSUME NEW in, NEW first \in Nat
    PROVE  Summable(in, first, 2) /\ Summable(in, first, 11)
<1>0. Summable(in, first, 0)
  <2>1. Sums(in, first, 0, [n \in 0 .. 0 |-> 0])
    BY DEF Sums
  <2> QED
    BY <2>1 DEF Summable
<1> HIDE DEF Summable
<1>1. \A k \in Nat : Summable(in, first, k) => Summable(in, first, k + 1)
  BY SumExtends
<1>2. Summable(in, first, 1) /\ Summable(in, first, 2)
  BY <1>0, <1>1, 0 + 1 = 1, 1 + 1 = 2
<1>3. Summable(in, first, 3) /\ Summable(in, first, 4)
  BY <1>1, <1>2, 2 + 1 = 3, 3 + 1 = 4
<1>4. Summable(in, first, 5) /\ Summable(in, first, 6)
  BY <1>1, <1>3, 4 + 1 = 5, 5 + 1 = 6
<1>5. Summable(in, first, 7) /\ Summable(in, first, 8)
  BY <1>1, <1>4, 6 + 1 = 7, 7 + 1 = 8
<1>6. Summable(in, first, 9) /\ Summable(in, first, 10)
  BY <1>1, <1>5, 8 + 1 = 9, 9 + 1 = 10
<1> QED
  BY <1>1, <1>2, <1>6, 10 + 1 = 11

LEMMA ChecksumUnfolds ==
    ASSUME NEW in, NEW first, NEW count, Summable(in, first, count)
    PROVE  \E s : Sums(in, first, count, s) /\ compute_checksum(in, first, count) = s[count] % 256
<1> DEFINE sum == CHOOSE s : Sums(in, first, count, s)
<1>1. Sums(in, first, count, sum)
  BY DEF Summable
<1>2. compute_checksum(in, first, count) = sum[count] % 256
  BY DEF compute_checksum, Sums
<1> QED
  BY <1>1, <1>2

\* The checksum of a request.
LEMMA ChecksumOfTwo ==
    ASSUME NEW in, in[4] \in Nat, in[5] \in Nat
    PROVE  compute_checksum(in, 4, 2) = (in[4] + in[5]) % 256
<1>1. PICK s : Sums(in, 4, 2, s) /\ compute_checksum(in, 4, 2) = s[2] % 256
  BY ElevenSummable, ChecksumUnfolds
<1>2. s[0] = 0 /\ s[1] = s[0] + in[4] /\ s[2] = s[1] + in[5]
  BY <1>1 DEF Sums
<1> QED
  BY <1>1, <1>2

\* The checksum of a frame.
Total(in) ==
    in[4] + in[5] + in[6] + in[7] + in[8] + in[9] + in[10] + in[11] + in[12] + in[13] + in[14]

LEMMA ByteIsNat == \A b \in Byte : b \in Nat
BY DEF Byte

LEMMA ChecksumOfEleven ==
    ASSUME NEW in, \A i \in 4 .. 14 : in[i] \in Byte
    PROVE  /\ compute_checksum(in, 4, 11) = Total(in) % 256
           /\ Total(in) \in Nat
           /\ Total(in) % 256 \in Byte
<1>1. PICK s : Sums(in, 4, 11, s) /\ compute_checksum(in, 4, 11) = s[11] % 256
  BY ElevenSummable, ChecksumUnfolds
<1>2. /\ s[0] = 0 /\ s[1] = s[0] + in[4] /\ s[2] = s[1] + in[5] /\ s[3] = s[2] + in[6]
      /\ s[4] = s[3] + in[7] /\ s[5] = s[4] + in[8] /\ s[6] = s[5] + in[9]
      /\ s[7] = s[6] + in[10] /\ s[8] = s[7] + in[11] /\ s[9] = s[8] + in[12]
      /\ s[10] = s[9] + in[13] /\ s[11] = s[10] + in[14]
  BY <1>1 DEF Sums
<1>3. /\ in[4] \in Nat /\ in[5] \in Nat /\ in[6] \in Nat /\ in[7] \in Nat /\ in[8] \in Nat
      /\ in[9] \in Nat /\ in[10] \in Nat /\ in[11] \in Nat /\ in[12] \in Nat /\ in[13] \in Nat
      /\ in[14] \in Nat
  BY ByteIsNat
<1>4. s[11] = Total(in)
  BY <1>2, <1>3 DEF Total
<1>5. Total(in) \in Nat
  BY <1>3 DEF Total
<1>6. Total(in) % 256 \in Byte
  BY <1>5 DEF Byte
<1> QED
  BY <1>1, <1>4, <1>5, <1>6
-------------------------------------------------------------------------------
(***************************************************************************)
(* The two messages, byte for byte.                                        *)
(***************************************************************************)
LEMMA HeaderBytes == Header[0] = 222 /\ Header[1] = 173 /\ Header[2] = 190 /\ Header[3] = 239
BY DEF Header

LEMMA RequestIs ==
    LET sent == RequestBytes(GENERIC_FSS_DEVICE_REQ_DATA_CMD)
    IN  /\ sent \in [0 .. 6 -> Byte]
        /\ \A i \in 0 .. 3 : sent[i] = Header[i]
        /\ sent[4] = 1 /\ sent[5] = 1 /\ sent[6] = 2
<1> DEFINE bytes == [i \in 0 .. CmdLength - 1 |->
                        CASE i < 4 -> Header[i] [] i = 4 -> GENERIC_FSS_DEVICE_REQ_DATA_CMD
                          [] i = 5 -> 1 [] i = 6 -> 0]
           sent == RequestBytes(GENERIC_FSS_DEVICE_REQ_DATA_CMD)
<1>1. /\ DOMAIN bytes = 0 .. 6
      /\ \A i \in 0 .. 3 : bytes[i] = Header[i]
      /\ bytes[4] = 1 /\ bytes[5] = 1 /\ bytes[6] = 0
  BY DEF CmdLength, GENERIC_FSS_DEVICE_REQ_DATA_CMD
<1>2. sent = [bytes EXCEPT ![6] = compute_checksum(bytes, 4, 2)]
  BY DEF RequestBytes, Sealed, CmdLength
<1> HIDE DEF bytes, sent
<1>3. compute_checksum(bytes, 4, 2) = 2
  BY <1>1, ChecksumOfTwo
<1>4. /\ DOMAIN sent = 0 .. 6
      /\ \A i \in 0 .. 3 : sent[i] = Header[i]
      /\ sent[4] = 1 /\ sent[5] = 1 /\ sent[6] = 2
  BY <1>1, <1>2, <1>3
<1>5. \A i \in 0 .. 6 : sent[i] \in Byte
  BY <1>4, HeaderBytes DEF Byte
<1>6. sent = [i \in 0 .. 6 |-> sent[i]]
  BY <1>1, <1>2
<1> QED
  BY <1>4, <1>5, <1>6 DEF sent

\* The four bytes of a word, in the order of this machine.
LEMMA WordOnWire ==
    ASSUME NEW h \in Host, NEW word \in [0 .. 3 -> Byte]
    PROVE  LET four == double_to_4bytes_little_endian(h, word)
           IN  /\ four \in [0 .. 3 -> Byte]
               /\ \A i \in 0 .. 3 : four[i] = IF h = "little" THEN word[i] ELSE word[3 - i]
<1>1. CASE h = "little"
  BY <1>1 DEF double_to_4bytes_little_endian
<1>2. CASE h # "little"
  <2>1. \A i \in 0 .. 3 : 3 - i \in 0 .. 3
    OBVIOUS
  <2> QED
    BY <1>2, <2>1 DEF double_to_4bytes_little_endian
<1> QED
  BY <1>1, <1>2

LEMMA FrameIs ==
    ASSUME NEW h \in Host, NEW r \in ReadingsOnWire
    PROVE  LET sent  == FrameBytes(h, r)
               alpha == double_to_4bytes_little_endian(h, r.alpha)
               beta  == double_to_4bytes_little_endian(h, r.beta)
           IN  /\ sent \in [0 .. 15 -> Byte]
               /\ \A i \in 0 .. 3 : sent[i] = Header[i]
               /\ sent[4] = 1 /\ sent[5] = 10
               /\ \A i \in 0 .. 3 : sent[6 + i] = alpha[i] /\ sent[10 + i] = beta[i]
               /\ sent[14] = r.ErrorCode
               /\ sent[15] = Total(sent) % 256
<1> DEFINE sent  == FrameBytes(h, r)
           alpha == double_to_4bytes_little_endian(h, r.alpha)
           beta  == double_to_4bytes_little_endian(h, r.beta)
           bytes == [i \in 0 .. DataLength - 1 |->
                       CASE i < 4          -> Header[i]
                         [] i = 4          -> 1
                         [] i = 5          -> 10
                         [] i \in 6 .. 9   -> alpha[i - 6]
                         [] i \in 10 .. 13 -> beta[i - 10]
                         [] i = 14         -> r.ErrorCode
                         [] i = 15         -> 0]
<1>1. alpha \in [0 .. 3 -> Byte] /\ beta \in [0 .. 3 -> Byte] /\ r.ErrorCode \in {0, 1}
  BY WordOnWire, WordsAssumption DEF ReadingsOnWire
<1>2. sent = [bytes EXCEPT ![15] = compute_checksum(bytes, 4, 11)]
  BY DEF FrameBytes, Sealed, DataLength
<1> HIDE DEF alpha, beta, sent
<1>3. /\ DOMAIN bytes = 0 .. 15
      /\ \A i \in 0 .. 3 : bytes[i] = Header[i]
      /\ bytes[4] = 1 /\ bytes[5] = 10 /\ bytes[14] = r.ErrorCode /\ bytes[15] = 0
  BY DEF DataLength
<1>4. ASSUME NEW i \in 0 .. 3
      PROVE  bytes[6 + i] = alpha[i] /\ bytes[10 + i] = beta[i]
  <2>1. /\ 6 + i \in 6 .. 9 /\ 10 + i \in 10 .. 13
        /\ (6 + i) - 6 = i /\ (10 + i) - 10 = i
    OBVIOUS
  <2> QED
    BY <2>1 DEF DataLength
<1> HIDE DEF bytes
<1>5. /\ bytes[6] = alpha[0] /\ bytes[7] = alpha[1] /\ bytes[8] = alpha[2] /\ bytes[9] = alpha[3]
      /\ bytes[10] = beta[0] /\ bytes[11] = beta[1] /\ bytes[12] = beta[2] /\ bytes[13] = beta[3]
  <2>1. bytes[6 + 0] = alpha[0] /\ bytes[10 + 0] = beta[0]
    BY <1>4
  <2>2. bytes[6 + 1] = alpha[1] /\ bytes[10 + 1] = beta[1]
    BY <1>4
  <2>3. bytes[6 + 2] = alpha[2] /\ bytes[10 + 2] = beta[2]
    BY <1>4
  <2>4. bytes[6 + 3] = alpha[3] /\ bytes[10 + 3] = beta[3]
    BY <1>4
  <2> QED
    BY <2>1, <2>2, <2>3, <2>4
<1>6. \A i \in 0 .. 15 : bytes[i] \in Byte
  BY <1>1, <1>3, <1>5, HeaderBytes DEF Byte
<1>7. \A i \in 4 .. 14 : bytes[i] \in Byte
  BY <1>6
<1>8. /\ compute_checksum(bytes, 4, 11) = Total(bytes) % 256
      /\ Total(bytes) % 256 \in Byte
  BY <1>7, ChecksumOfEleven
<1>9. /\ DOMAIN sent = 0 .. 15
      /\ \A i \in 0 .. 14 : sent[i] = bytes[i]
      /\ sent[15] = Total(bytes) % 256
      /\ sent = [i \in 0 .. 15 |-> sent[i]]
  <2>1. 15 \in DOMAIN bytes /\ \A i \in 0 .. 14 : i \in DOMAIN bytes /\ i # 15
    BY <1>3
  <2>2. sent = [i \in DOMAIN bytes |-> IF i = 15 THEN compute_checksum(bytes, 4, 11) ELSE bytes[i]]
    BY <1>2
  <2>3. DOMAIN sent = DOMAIN bytes /\ sent = [i \in DOMAIN bytes |-> sent[i]]
    BY <2>2
  <2>4. sent[15] = compute_checksum(bytes, 4, 11)
    BY <2>1, <2>2
  <2>5. \A i \in 0 .. 14 : sent[i] = bytes[i]
    BY <2>1, <2>2
  <2> QED
    BY <1>3, <1>8, <2>3, <2>4, <2>5
<1>10. Total(sent) = Total(bytes)
  BY <1>9 DEF Total
<1>11. sent \in [0 .. 15 -> Byte]
  <2>1. \A i \in 0 .. 15 : sent[i] \in Byte
    BY <1>6, <1>8, <1>9
  <2> QED
    BY <1>9, <2>1
<1>12. \A i \in 0 .. 3 : sent[6 + i] = alpha[i] /\ sent[10 + i] = beta[i]
  <2>1. \A i \in 0 .. 3 : 6 + i \in 0 .. 14 /\ 10 + i \in 0 .. 14
    OBVIOUS
  <2> QED
    BY <1>4, <1>9, <2>1
<1> QED
  BY <1>3, <1>9, <1>10, <1>11, <1>12 DEF sent, alpha, beta
-------------------------------------------------------------------------------
(***************************************************************************)
(* What the bus can have done: the message is one of the two, and what has *)
(* arrived is that message or differs from it in one byte.                 *)
(***************************************************************************)
Damaged(in, sent) ==
    \E position \in DOMAIN sent, value \in Byte : in = [sent EXCEPT ![position] = value]

BusInv ==
    /\ sensorHost \in Host /\ driverHost \in Host /\ reading \in ReadingsOnWire
    /\ \/ sentBytes = RequestBytes(GENERIC_FSS_DEVICE_REQ_DATA_CMD)
       \/ sentBytes = FrameBytes(sensorHost, reading)
    /\ received = sentBytes \/ Damaged(received, sentBytes)

LEMMA BusInvariant == Spec => []BusInv
<1>1. Init => BusInv
  BY DEF Init, BusInv
<1>2. BusInv /\ [Next]_vars => BusInv'
  <2>1. ASSUME BusInv, Damage
        PROVE  BusInv'
    <3>1. UNCHANGED <<sensorHost, driverHost, reading, sentBytes>>
      BY <2>1 DEF Damage
    <3>2. Damaged(received', sentBytes)
      BY <2>1 DEF Damage, Damaged
    <3> QED
      BY <2>1, <3>1, <3>2 DEF BusInv, Damaged
  <2>2. ASSUME BusInv, UNCHANGED vars
        PROVE  BusInv'
    BY <2>2 DEF BusInv, vars, Damaged
  <2> QED
    BY <2>1, <2>2 DEF Next
<1> QED
  BY <1>1, <1>2, PTL DEF Spec

\* The length tells a request from a frame.
LEMMA LengthTells ==
    ASSUME BusInv
    PROVE  /\ IsRequestSent <=> sentBytes = RequestBytes(GENERIC_FSS_DEVICE_REQ_DATA_CMD)
           /\ ~IsRequestSent => sentBytes = FrameBytes(sensorHost, reading)
<1>1. sentBytes = RequestBytes(GENERIC_FSS_DEVICE_REQ_DATA_CMD) => DOMAIN sentBytes = 0 .. 6
  BY RequestIs
<1>2. sentBytes = FrameBytes(sensorHost, reading) => DOMAIN sentBytes = 0 .. 15
  BY FrameIs DEF BusInv
<1>3. 0 .. 15 # 0 .. 6
  <2>1. 7 \in 0 .. 15 /\ 7 \notin 0 .. 6
    OBVIOUS
  <2> QED
    BY <2>1
<1> QED
  BY <1>1, <1>2, <1>3 DEF BusInv, IsRequestSent, CmdLength
-------------------------------------------------------------------------------
\* A word is read from the wire as it was written if both machines have one
\* byte order, and the other way round if they have not.
LEMMA WordReadBack ==
    ASSUME NEW w \in Host, NEW h \in Host, NEW word \in [0 .. 3 -> Byte],
           NEW in, NEW first \in {6, 10},
           \A i \in 0 .. 3 : in[first + i] = double_to_4bytes_little_endian(w, word)[i]
    PROVE  fourbytes_little_endian_to_float(h, in, first) = IF w = h THEN word ELSE Turned(word)
<1> DEFINE four == double_to_4bytes_little_endian(w, word)
           read == fourbytes_little_endian_to_float(h, in, first)
<1>1. word = [i \in 0 .. 3 |-> word[i]]
  OBVIOUS
<1>2. \A i \in 0 .. 3 : 3 - i \in 0 .. 3 /\ 3 - (3 - i) = i /\ first + (3 - i) = first + 3 - i
  OBVIOUS
<1>3. \A i \in 0 .. 3 : in[first + i] = IF w = "little" THEN word[i] ELSE word[3 - i]
  BY WordOnWire
<1>4. \A i \in 0 .. 3 : in[first + 3 - i] = IF w = "little" THEN word[3 - i] ELSE word[i]
  BY <1>2, <1>3
<1>5. CASE h = "little"
  <2>1. read = [i \in 0 .. 3 |-> in[first + i]]
    BY <1>5 DEF fourbytes_little_endian_to_float
  <2>2. CASE w = h
    BY <1>1, <1>3, <1>5, <2>1, <2>2
  <2>3. CASE w # h
    BY <1>3, <1>5, <2>1, <2>3 DEF Turned
  <2> QED
    BY <2>2, <2>3
<1>6. CASE h # "little"
  <2>1. read = [i \in 0 .. 3 |-> in[first + 3 - i]]
    BY <1>6 DEF fourbytes_little_endian_to_float
  <2>2. CASE w = h
    BY <1>1, <1>4, <1>6, <2>1, <2>2
  <2>3. CASE w # h
    <3>1. w = "little"
      BY <1>6, <2>3 DEF Host
    <3> QED
      BY <1>4, <2>1, <2>3, <3>1 DEF Turned
  <2> QED
    BY <2>2, <2>3
<1> QED
  BY <1>5, <1>6

(***************************************************************************)
(* For every pair of floats and either byte order, a message that arrives  *)
(* as it was sent is taken, and the driver holds the very bits the sensor  *)
(* sent (generic_fss_device.c, create_generic_fss_data).                   *)
(***************************************************************************)
THEOREM WholeMessagesAreTaken == Spec => []IntactIsAccepted
<1>1. BusInv => IntactIsAccepted
  <2> SUFFICES ASSUME BusInv, received = sentBytes
               PROVE  Accepted /\ (~IsRequestSent => ParsedReading(driverHost, received) = ReadingThere)
    BY DEF IntactIsAccepted
  <2>1. CASE IsRequestSent
    <3>1. received = RequestBytes(GENERIC_FSS_DEVICE_REQ_DATA_CMD)
      BY <2>1, LengthTells
    <3>2. IsRequest(received)
      BY <3>1, RequestIs DEF IsRequest, CmdLength
    <3> QED
      BY <2>1, <3>2 DEF Accepted
  <2>2. CASE ~IsRequestSent
    <3>1. received = FrameBytes(sensorHost, reading)
      BY <2>2, LengthTells
    <3> DEFINE alpha == double_to_4bytes_little_endian(sensorHost, reading.alpha)
               beta  == double_to_4bytes_little_endian(sensorHost, reading.beta)
    <3>2. sensorHost \in Host /\ driverHost \in Host /\ reading \in ReadingsOnWire
      BY DEF BusInv
    <3>3. /\ \A i \in 0 .. 3 : received[i] = Header[i]
          /\ received[4] = 1 /\ received[5] = 10
          /\ \A i \in 0 .. 3 : received[6 + i] = alpha[i] /\ received[10 + i] = beta[i]
          /\ received[14] = reading.ErrorCode
          /\ received[15] = Total(received) % 256
          /\ received \in [0 .. 15 -> Byte]
      BY <3>1, <3>2, FrameIs
    <3>4. \A i \in 4 .. 14 : received[i] \in Byte
      BY <3>3
    <3>5. IsFrame(received)
      BY <3>3, <3>4, ChecksumOfEleven DEF IsFrame
    <3>6. /\ reading.alpha \in [0 .. 3 -> Byte] /\ reading.beta \in [0 .. 3 -> Byte]
          /\ reading = [alpha |-> reading.alpha, beta |-> reading.beta,
                        ErrorCode |-> reading.ErrorCode]
      BY <3>2, WordsAssumption DEF ReadingsOnWire
    <3>7. fourbytes_little_endian_to_float(driverHost, received, 6)
             = IF sensorHost = driverHost THEN reading.alpha ELSE Turned(reading.alpha)
      BY <3>2, <3>3, <3>6, WordReadBack
    <3>8. fourbytes_little_endian_to_float(driverHost, received, 10)
             = IF sensorHost = driverHost THEN reading.beta ELSE Turned(reading.beta)
      BY <3>2, <3>3, <3>6, WordReadBack
    <3>9. ParsedReading(driverHost, received) = ReadingThere
      <4>1. CASE sensorHost = driverHost
        BY <3>3, <3>6, <3>7, <3>8, <4>1 DEF ParsedReading, ReadingThere
      <4>2. CASE sensorHost # driverHost
        <5>1. ReadingThere = [alpha |-> Turned(reading.alpha), beta |-> Turned(reading.beta),
                              ErrorCode |-> reading.ErrorCode]
          BY <3>6, <4>2 DEF ReadingThere
        <5> QED
          BY <3>3, <3>7, <3>8, <4>2, <5>1 DEF ParsedReading
      <4> QED
        BY <4>1, <4>2
    <3> QED
      BY <2>2, <3>5, <3>9 DEF Accepted
  <2> QED
    BY <2>1, <2>2
<1> QED
  BY <1>1, BusInvariant, PTL
-------------------------------------------------------------------------------
\* One byte changed of a message whose bytes are numbered by places.
LEMMA OneByteDiffers ==
    ASSUME NEW places, NEW sent \in [places -> Byte], NEW in,
           Damaged(in, sent), in # sent
    PROVE  /\ in \in [places -> Byte]
           /\ \E p \in places : /\ in[p] # sent[p]
                                  /\ \A i \in places : i # p => in[i] = sent[i]
<1>1. PICK p \in places, v \in Byte : in = [sent EXCEPT ![p] = v]
  BY DEF Damaged
<1>2. in \in [places -> Byte]
  BY <1>1
<1>3. \A i \in places : i # p => in[i] = sent[i]
  BY <1>1
<1>4. in[p] # sent[p]
  <2>1. SUFFICES ASSUME in[p] = sent[p]
                 PROVE  FALSE
    OBVIOUS
  <2>2. \A i \in places : in[i] = sent[i]
    BY <1>3, <2>1
  <2>3. in = sent
    BY <1>2, <2>2
  <2> QED
    BY <2>3
<1> QED
  BY <1>2, <1>3, <1>4

\* A byte of the data changed moves the sum, by less than what the checksum drops.
LEMMA ByteMovesChecksum ==
    ASSUME NEW rest \in Nat, NEW a \in Byte, NEW b \in Byte,
           (rest + a) % 256 = (rest + b) % 256
    PROVE  a = b
<1> DEFINE x == rest + a
           y == rest + b
<1>1. x \in Nat /\ y \in Nat /\ a \in 0 .. 255 /\ b \in 0 .. 255
  BY DEF Byte
<1>2. x = 256 * (x \div 256) + (x % 256) /\ x \div 256 \in Nat
  BY <1>1
<1>3. y = 256 * (y \div 256) + (y % 256) /\ y \div 256 \in Nat
  BY <1>1
<1>4. x - y = a - b
  BY <1>1
<1>5. x - y = 256 * ((x \div 256) - (y \div 256))
  BY <1>1, <1>2, <1>3
<1>6. x \div 256 = y \div 256
  BY <1>1, <1>2, <1>3, <1>4, <1>5
<1> QED
  BY <1>1, <1>4, <1>5, <1>6

\* The sum of a frame without the byte at p.
Rest(in, p) == Total([in EXCEPT ![p] = 0])

LEMMA TotalSplits ==
    ASSUME NEW in \in [0 .. 15 -> Byte], NEW p \in 6 .. 14
    PROVE  Rest(in, p) \in Nat /\ Total(in) = Rest(in, p) + in[p]
<1> DEFINE zeroed == [in EXCEPT ![p] = 0]
<1>1. /\ zeroed[p] = 0
      /\ \A i \in 4 .. 14 : i # p => zeroed[i] = in[i]
      /\ \A i \in 4 .. 14 : zeroed[i] \in Byte
  BY DEF Byte
<1>2. \A i \in 4 .. 14 : in[i] \in Nat
  <2>1. \A i \in 4 .. 14 : in[i] \in Byte
    OBVIOUS
  <2> QED
    BY <2>1, ByteIsNat
<1>3. Rest(in, p) = Total(zeroed) /\ Total(zeroed) \in Nat
  BY <1>1, ChecksumOfEleven DEF Rest
<1> HIDE DEF zeroed
<1>4. /\ in[4] \in Nat /\ in[5] \in Nat /\ in[6] \in Nat /\ in[7] \in Nat /\ in[8] \in Nat
      /\ in[9] \in Nat /\ in[10] \in Nat /\ in[11] \in Nat /\ in[12] \in Nat /\ in[13] \in Nat
      /\ in[14] \in Nat
  BY <1>2
<1>5. Total(in) = Total(zeroed) + in[p]
  <2>1. CASE p \in 6 .. 8
    <3>1. \A i \in {4, 5, 9, 10, 11, 12, 13, 14} : zeroed[i] = in[i]
      BY <1>1, <2>1
    <3>2. CASE p = 6
      BY <1>1, <1>4, <3>1, <3>2 DEF Total
    <3>3. CASE p = 7
      BY <1>1, <1>4, <3>1, <3>3 DEF Total
    <3>4. CASE p = 8
      BY <1>1, <1>4, <3>1, <3>4 DEF Total
    <3> QED
      BY <2>1, <3>2, <3>3, <3>4
  <2>2. CASE p \in 9 .. 11
    <3>1. \A i \in {4, 5, 6, 7, 8, 12, 13, 14} : zeroed[i] = in[i]
      BY <1>1, <2>2
    <3>2. CASE p = 9
      BY <1>1, <1>4, <3>1, <3>2 DEF Total
    <3>3. CASE p = 10
      BY <1>1, <1>4, <3>1, <3>3 DEF Total
    <3>4. CASE p = 11
      BY <1>1, <1>4, <3>1, <3>4 DEF Total
    <3> QED
      BY <2>2, <3>2, <3>3, <3>4
  <2>3. CASE p \in 12 .. 14
    <3>1. \A i \in {4, 5, 6, 7, 8, 9, 10, 11} : zeroed[i] = in[i]
      BY <1>1, <2>3
    <3>2. CASE p = 12
      BY <1>1, <1>4, <3>1, <3>2 DEF Total
    <3>3. CASE p = 13
      BY <1>1, <1>4, <3>1, <3>3 DEF Total
    <3>4. CASE p = 14
      BY <1>1, <1>4, <3>1, <3>4 DEF Total
    <3> QED
      BY <2>3, <3>2, <3>3, <3>4
  <2> QED
    BY <2>1, <2>2, <2>3
<1> QED
  BY <1>3, <1>5

LEMMA DamagedFrameIsNone ==
    ASSUME NEW h \in Host, NEW r \in ReadingsOnWire, NEW in,
           Damaged(in, FrameBytes(h, r)), in # FrameBytes(h, r)
    PROVE  ~IsFrame(in)
<1> DEFINE sent == FrameBytes(h, r)
<1>1. /\ sent \in [0 .. 15 -> Byte]
      /\ \A i \in 0 .. 3 : sent[i] = Header[i]
      /\ sent[4] = 1 /\ sent[5] = 10
      /\ sent[15] = Total(sent) % 256
  BY FrameIs
<1> HIDE DEF sent
<1>2. /\ in \in [0 .. 15 -> Byte]
      /\ \E p \in 0 .. 15 : in[p] # sent[p] /\ \A i \in 0 .. 15 : i # p => in[i] = sent[i]
  BY <1>1, OneByteDiffers DEF sent
<1>3. PICK p \in 0 .. 15 : in[p] # sent[p] /\ \A i \in 0 .. 15 : i # p => in[i] = sent[i]
  BY <1>2
<1> SUFFICES ASSUME IsFrame(in)
             PROVE  FALSE
  OBVIOUS
<1>4. \A i \in 4 .. 14 : in[i] \in Byte
  BY <1>2
<1>5. /\ \A i \in 0 .. 3 : in[i] = Header[i]
      /\ in[4] = 1 /\ in[5] = 10
      /\ in[15] = Total(in) % 256
  BY <1>4, ChecksumOfEleven DEF IsFrame
\* The header, the command and the length are fixed.
<1>6. p \notin 0 .. 5
  <2>1. p \notin 0 .. 3
    BY <1>1, <1>3, <1>5
  <2> QED
    BY <1>1, <1>3, <1>5, <2>1
\* The checksum is that of the bytes before it, and those are as sent.
<1>7. p # 15
  <2>1. SUFFICES ASSUME p = 15
                 PROVE  FALSE
    OBVIOUS
  <2>2. \A i \in 4 .. 14 : in[i] = sent[i]
    BY <1>3, <2>1
  <2>3. Total(in) = Total(sent)
    BY <2>2 DEF Total
  <2> QED
    BY <1>1, <1>3, <1>5, <2>1, <2>3
\* A byte of the data changed changes the checksum, which is as sent.
<1>8. p \in 6 .. 14
  BY <1>6, <1>7
<1>9. Rest(in, p) = Rest(sent, p)
  <2>1. [in EXCEPT ![p] = 0] = [sent EXCEPT ![p] = 0]
    BY <1>1, <1>2, <1>3
  <2> QED
    BY <2>1 DEF Rest
<1>10. /\ Rest(sent, p) \in Nat
       /\ Total(in) = Rest(sent, p) + in[p] /\ Total(sent) = Rest(sent, p) + sent[p]
  BY <1>1, <1>2, <1>8, <1>9, TotalSplits
<1>11. in[15] = sent[15] /\ in[p] \in Byte /\ sent[p] \in Byte
  BY <1>1, <1>2, <1>3, <1>7
<1>12. in[p] = sent[p]
  BY <1>1, <1>5, <1>10, <1>11, ByteMovesChecksum
<1> QED
  BY <1>3, <1>12

(***************************************************************************)
(* For every pair of floats and either byte order, a message with one byte *)
(* damaged is refused: the checksum covers the data and the rest is fixed  *)
(* (generic_fss_device.c, determine_spi_response_for_request).             *)
(***************************************************************************)
THEOREM OneDamagedByteIsRefused == Spec => []DamagedIsRefused
<1>1. BusInv => DamagedIsRefused
  <2> SUFFICES ASSUME BusInv, received # sentBytes
               PROVE  ~Accepted
    BY DEF DamagedIsRefused
  <2>1. Damaged(received, sentBytes)
    BY DEF BusInv
  <2>2. CASE IsRequestSent
    <3> DEFINE sent == RequestBytes(GENERIC_FSS_DEVICE_REQ_DATA_CMD)
    <3>1. /\ sent \in [0 .. 6 -> Byte]
          /\ \A i \in 0 .. 3 : sent[i] = Header[i]
          /\ sent[4] = 1 /\ sent[5] = 1 /\ sent[6] = 2
      BY RequestIs
    <3>2. sentBytes = sent
      BY <2>2, LengthTells
    <3> HIDE DEF sent
    <3>3. PICK p \in 0 .. 6 : received[p] # sent[p]
      BY <2>1, <3>1, <3>2, OneByteDiffers
    <3>4. ~IsRequest(received)
      <4>1. CASE p \in 0 .. 3
        BY <3>1, <3>3, <4>1 DEF IsRequest
      <4>2. CASE p \in {4, 5, 6}
        BY <3>1, <3>3, <4>2 DEF IsRequest
      <4> QED
        BY <4>1, <4>2
    <3> QED
      BY <2>2, <3>4 DEF Accepted
  <2>3. CASE ~IsRequestSent
    <3>1. sentBytes = FrameBytes(sensorHost, reading)
      BY <2>3, LengthTells
    <3>2. ~IsFrame(received)
      BY <2>1, <3>1, DamagedFrameIsNone DEF BusInv
    <3> QED
      BY <2>3, <3>2 DEF Accepted
  <2> QED
    BY <2>2, <2>3
<1> QED
  BY <1>1, BusInvariant, PTL
-------------------------------------------------------------------------------
\* The bytes of a frame of 5 and 10 degrees, on a machine of either order.
LEMMA FiveAndTenOnWire ==
    ASSUME NEW h \in Host, NEW r \in ReadingsOnWire,
           r = [alpha |-> Five, beta |-> Ten, ErrorCode |-> 0]
    PROVE  LET sent == FrameBytes(h, r)
           IN  /\ sent[0] = 222 /\ sent[1] = 173 /\ sent[2] = 190 /\ sent[3] = 239
               /\ sent[4] = 1 /\ sent[5] = 10 /\ sent[14] = 0 /\ sent[15] = 76
               /\ h = "little" =>
                     /\ sent[6] = 0 /\ sent[7] = 0 /\ sent[8] = 160 /\ sent[9] = 64
                     /\ sent[10] = 0 /\ sent[11] = 0 /\ sent[12] = 32 /\ sent[13] = 65
               /\ h # "little" =>
                     /\ sent[6] = 64 /\ sent[7] = 160 /\ sent[8] = 0 /\ sent[9] = 0
                     /\ sent[10] = 65 /\ sent[11] = 32 /\ sent[12] = 0 /\ sent[13] = 0
<1> DEFINE sent  == FrameBytes(h, r)
           alpha == double_to_4bytes_little_endian(h, r.alpha)
           beta  == double_to_4bytes_little_endian(h, r.beta)
<1>1. /\ \A i \in 0 .. 3 : sent[i] = Header[i]
      /\ sent[4] = 1 /\ sent[5] = 10
      /\ \A i \in 0 .. 3 : sent[6 + i] = alpha[i] /\ sent[10 + i] = beta[i]
      /\ sent[14] = r.ErrorCode
      /\ sent[15] = Total(sent) % 256
  BY FrameIs
<1>2. /\ r.alpha = Five /\ r.beta = Ten /\ r.ErrorCode = 0
      /\ Five \in [0 .. 3 -> Byte] /\ Ten \in [0 .. 3 -> Byte]
  BY WordsAssumption DEF ReadingsOnWire
<1>3. /\ Five[0] = 0 /\ Five[1] = 0 /\ Five[2] = 160 /\ Five[3] = 64
      /\ Ten[0] = 0 /\ Ten[1] = 0 /\ Ten[2] = 32 /\ Ten[3] = 65
  BY DEF Five, Ten
<1>4. \A i \in 0 .. 3 : /\ alpha[i] = IF h = "little" THEN Five[i] ELSE Five[3 - i]
                        /\ beta[i] = IF h = "little" THEN Ten[i] ELSE Ten[3 - i]
  BY <1>2, WordOnWire
<1> HIDE DEF sent, alpha, beta
<1>5. /\ sent[6] = alpha[0] /\ sent[7] = alpha[1] /\ sent[8] = alpha[2] /\ sent[9] = alpha[3]
      /\ sent[10] = beta[0] /\ sent[11] = beta[1] /\ sent[12] = beta[2] /\ sent[13] = beta[3]
  <2>1. sent[6 + 0] = alpha[0] /\ sent[10 + 0] = beta[0]
    BY <1>1
  <2>2. sent[6 + 1] = alpha[1] /\ sent[10 + 1] = beta[1]
    BY <1>1
  <2>3. sent[6 + 2] = alpha[2] /\ sent[10 + 2] = beta[2]
    BY <1>1
  <2>4. sent[6 + 3] = alpha[3] /\ sent[10 + 3] = beta[3]
    BY <1>1
  <2> QED
    BY <2>1, <2>2, <2>3, <2>4
<1>6. CASE h = "little"
  <2>1. /\ alpha[0] = 0 /\ alpha[1] = 0 /\ alpha[2] = 160 /\ alpha[3] = 64
        /\ beta[0] = 0 /\ beta[1] = 0 /\ beta[2] = 32 /\ beta[3] = 65
    BY <1>3, <1>4, <1>6
  <2>2. Total(sent) = 332
    BY <1>1, <1>2, <1>5, <2>1 DEF Total
  <2> QED
    BY <1>1, <1>2, <1>5, <1>6, <2>1, <2>2, HeaderBytes DEF sent
<1>7. CASE h # "little"
  <2>1. alpha[0] = Five[3] /\ alpha[1] = Five[2] /\ alpha[2] = Five[1] /\ alpha[3] = Five[0]
    BY <1>4, <1>7
  <2>2. beta[0] = Ten[3] /\ beta[1] = Ten[2] /\ beta[2] = Ten[1] /\ beta[3] = Ten[0]
    BY <1>4, <1>7
  <2>3. Total(sent) = 332
    BY <1>1, <1>2, <1>3, <1>5, <2>1, <2>2 DEF Total
  <2> QED
    BY <1>1, <1>2, <1>3, <1>5, <1>7, <2>1, <2>2, <2>3, HeaderBytes DEF sent
<1> QED
  BY <1>6, <1>7

(***************************************************************************)
(* The frame README.md documents for 5 and 10 degrees is what a big-endian *)
(* machine sends, and only a big-endian one (create_generic_fss_data).     *)
(***************************************************************************)
THEOREM OnlyBigEndianAsDocumented ==
    Spec => [](FiveAndTenSent => (AsDocumented <=> sensorHost = "big"))
<1>1. BusInv => (FiveAndTenSent => (AsDocumented <=> sensorHost = "big"))
  <2> SUFFICES ASSUME BusInv, FiveAndTenSent
               PROVE  AsDocumented <=> sensorHost = "big"
    OBVIOUS
  <2>1. /\ sentBytes = FrameBytes(sensorHost, reading)
        /\ sensorHost \in Host /\ reading \in ReadingsOnWire
        /\ reading = [alpha |-> Five, beta |-> Ten, ErrorCode |-> 0]
    BY LengthTells DEF BusInv, FiveAndTenSent
  <2>2. /\ sentBytes[0] = 222 /\ sentBytes[1] = 173 /\ sentBytes[2] = 190 /\ sentBytes[3] = 239
        /\ sentBytes[4] = 1 /\ sentBytes[5] = 10 /\ sentBytes[14] = 0 /\ sentBytes[15] = 76
        /\ sensorHost = "little" => sentBytes[6] = 0
        /\ sensorHost # "little" =>
              /\ sentBytes[6] = 64 /\ sentBytes[7] = 160 /\ sentBytes[8] = 0 /\ sentBytes[9] = 0
              /\ sentBytes[10] = 65 /\ sentBytes[11] = 32 /\ sentBytes[12] = 0 /\ sentBytes[13] = 0
    BY <2>1, FiveAndTenOnWire
  <2>3. CASE sensorHost = "little"
    <3>1. 6 \in 0 .. DataLength - 1 /\ DocumentedBytes[6 + 1] = 64
      BY DEF DataLength, DocumentedBytes
    <3> QED
      BY <2>2, <2>3, <3>1 DEF AsDocumented
  <2>4. CASE sensorHost # "little"
    <3>1. sensorHost = "big"
      BY <2>1, <2>4 DEF Host
    <3>2. \A i \in 0 .. 5 : sentBytes[i] = DocumentedBytes[i + 1]
      BY <2>2 DEF DocumentedBytes
    <3>3. \A i \in 6 .. 10 : sentBytes[i] = DocumentedBytes[i + 1]
      BY <2>2, <2>4 DEF DocumentedBytes
    <3>4. \A i \in 11 .. 15 : sentBytes[i] = DocumentedBytes[i + 1]
      BY <2>2, <2>4 DEF DocumentedBytes
    <3> QED
      BY <3>1, <3>2, <3>3, <3>4 DEF AsDocumented, DataLength
  <2> QED
    BY <2>3, <2>4
<1> QED
  BY <1>1, BusInvariant, PTL
=================================================================================
