# The Generic Fine Sun Sensor, specified

TLA+ specifications of the NOS3 Generic Fine Sun Sensor component: the cFS
application, the device library under it and the simulated sensor at the other
end of the SPI bus, one by one and together; the data providers of the sensor;
the F' component that may take the application's place; the checkout program
that calls the library from a terminal; and the ground library that commands the
application over links that lose packets. TLC checks them on small instances;
TLAPS proves every safety property of the application, the F' component, the device
library, the sensor, the system of the three, the checkout program, the ground
and the frames for every value of the constants.

Paths below are relative to the root of the repository.

## 1. The system

### Components

| component | source | state it keeps | operations |
|---|---|---|---|
| cFS application | `fsw/cfs/src/generic_fss_app.c` | `GENERIC_FSS_AppData`: run status, command pipe, the message in hand, housekeeping packet (four 8-bit counters and `DeviceEnabled`), device packet, SPI device | initialise; loop, receive, dispatch; NOOP, RESET_COUNTERS, ENABLE, DISABLE; request housekeeping, request data; exit |
| device library | `fsw/shared/generic_fss_device.c` | none of its own: the caller's SPI device and data, its buffers on the stack, and the chip select line it leaves behind | `RequestData` = `CommandDevice` then `ReadData`; checksum; float decoding |
| simulated sensor | `sim/src/generic_fss_hardware_model.cpp` | `_enabled`, `_queued_data`, `_spi_out_data`, `_keep_running` | `spi_write`, `spi_read`; the commands HELP, ENABLE, DISABLE, STOP; destruction |
| data point, 42 provider | `sim/src/generic_fss_data_point.cpp`, `generic_fss_42_data_provider.cpp` | a parsed flag, validity, two angles | parse on first access |
| shared memory provider | `sim/src/generic_fss_shmem_data_provider.cpp` | the mapped region that 42 writes | read three values |
| F' component | `fsw/fprime/fss_src/Generic_fss.cpp` | the housekeeping counters, `FSSData`, the SPI device, telemetry channels | two scheduled ports and six commands |
| checkout program | `fsw/standalone/generic_fss_checkout.c` | the SPI device, the last input line | read a line, run a command |
| ground library and tests | `gsw/GENERIC_FSS/lib`, `gsw/GENERIC_FSS/procedures` | the last telemetry received | send a command and confirm it by its count, with two retries |

### How they interact

Ground and other applications send packets; the Software Bus puts those of the
two message ids the application subscribed to into its pipe. The application has
one thread: `FSS_AppMain` initialises, asks Executive Services for permission to
go on (`CFE_ES_RunLoop`), pends on the pipe, handles one message to its end, and
begins again. A request for device data calls `GENERIC_FSS_RequestData` inside
that thread, which makes six hardware calls: select, transfer, unselect for the
request, and again for the answer.

In the simulator, one thread serves the SPI bus and another the command bus.
A transfer is an `spi_write`, which copies the queued answer into the output
buffer and computes what the next transfer shall bring, and an `spi_read`.
Commands change `_enabled` and `_keep_running` at any time, also in the middle of a
write. The provider's truth about the sun changes all the time: the 42 provider
holds the last message of the socket, which a data point parses when it is
asked for a value; the shared memory provider reads three values that 42 writes.

The ground library sends a command, asks for housekeeping, waits for one packet
and compares the command count in it with the one it had before, and sends again
twice at most. The checkout program links the device library and calls it for a
line typed at its prompt.

### What is hard

* The application counts commands in five places and device activity in three,
  and DeviceEnabled has to follow an SPI device whose opening and closing may fail.
* Initialisation may end at five calls; all of them fall through to the
  DISABLE at exit, which decides by DeviceEnabled.
* The request is not atomic. Commands to the sensor, the sensor's end, an exit
  request and new messages may fall between any two of its six calls; any call
  may fail, and a failed transfer may or may not have reached the sensor.
* The sensor answers one transfer late, so a request that fails half way leaves
  an answer for the next one to find.
* "No error" and "a new reading" are different things: an answer that fails the
  driver's checks is a success that changes nothing.
* The F' component shows the ground channels instead of a packet, which each of
  its eight handlers writes in part, and its constructor may fail to open a
  device it already calls enabled.
* A data point says valid before its angles are parsed, and is read from shared
  memory one value at a time and without a lock.
* The ground cannot tell a lost command from a lost answer, takes any housekeeping
  packet for the answer it waits for, and compares a counter that wraps.
* The checkout program does not look at what `fgets` returns, and at the end of its
  input works on with the buffer `strtok` has cut.
* The counters wrap at 256 and the checksum keeps eight bits.
* Both ends order the bytes of a float by their own machine's byte order, and no
  byte of a frame says which it is.

### What makes each component correct

* Application: housekeeping says ENABLED exactly while the device is open; every
  message is counted once and on the right counter; what is rejected has no
  other effect; device counts mean device activity; the device is closed at the
  end; housekeeping requests are answered; an exit is honoured.
* Library: a request ends; success means both exchanges were made and the chip
  released; the caller's data change only to the content of a verified frame.
* Sensor: the answer is computed from the last write; no frame is sampled while
  disabled; a frame goes out once.
* Together: the device stays open under a request; what is accepted was true
  during that very request; the whole implements what the application alone
  promises.
* F' component: an open device can be closed; after the start DeviceEnabled follows
  the device; a channel shows what the component holds; commands are counted once.
* Providers: what is called valid was measured; what is read at rest is current.
* Ground: while no wait has timed out the ground's picture is right, a command is
  never executed twice, and what is confirmed has happened; a call ends.
* Checkout: a request follows a line that asks for one; every line is handled.
* Wire: what is sent is understood where both machines have one byte order, what is
  damaged is refused.

PROJECT.json lists every hazard at its line with the properties that cover it.

## 2. The modules

```
FssHk    counters, housekeeping packet        FssWire  what travels on the bus
   \                                         /    |    \
    +------------ FssApp -------------------+  FssDevice  FssSim
                  |    |                        |    |      |   |
                  |    +------- FssSystem ------+----|------+  FssSensor
              FssGround                          FssCheckout    (implements FssSim)

FssFprime (extends FssHk and FssWire)    the F' component
FssFrame  bytes, checksum, byte order (what FssWire abstracts)
```

**FssHk** — the housekeeping packet and the two things done to its counters: an
increment that wraps at `CounterModulus` (256 in the code) and the reset.

**FssWire** — buffers on the bus, abstracted to what either end can tell of them:
size, and whether they are the request, a frame (with its reading), the idle
pattern, zeros or anything else. `Resized` is `std::vector::resize`, `Verified`
the driver's test of a frame.

**FssApp** — `FSS_AppMain` and all it calls, one action per handler. `pc` is where
the thread is (the five steps of `GENERIC_FSS_AppInit`, the loop, the pend, the
handlers, the exit); `RunStatus`, `hk`, `devicePkt`, `msg` and `spi` are the
fields of `GENERIC_FSS_AppData`; `pipe` and `subscribed` belong to the Software
Bus, `esRequest` to Executive Services. A handler is atomic: nothing else writes
the application's data. `sent` is what the last handler transmitted, for the
properties. `Faults` names the external calls that may fail. Here
`GENERIC_FSS_RequestData` is one step that keeps its promise only: this is the
abstract specification that FssSystem implements.

**FssDevice** — `GENERIC_FSS_RequestData` call by call, under a caller that opens
and closes the device between calls, and a sensor that may answer anything.
`chip` is the select line, which a failed transfer leaves selected. `write_data`
is not initialised when the answer is clocked in: a choice among the buffers
the sensor could tell apart.

**FssSim** — the simulated sensor under a master that transfers anything and
commands that come at any time. `queued` and `spiOut` are `_queued_data` and
`_spi_out_data`; `truth` is what the provider would say now; `computed` is a
history variable: what the last write, taken alone, asks to be queued.

**FssSensor** — the sensor in its steps. `BeginTransfer` is `spi_write` up to the
provider's call: the answer is taken from the queue. A request then reads a data
point, in one step from the 42 provider and in three, in any order, from shared
memory; `FillQueue` is the rest of `create_generic_fss_data`, which looks at
`_enabled`; `EndTransfer` puts the answer where `spi_read` finds it. `do_parsing` gives
what the accessors of a data point return for each form a message may have.
Commands, messages and stores come between any two of these steps. `SimSpec` says
that the whole implements FssSim: the transfer of FssSim happens where the queue
is filled, and every value that is read is a new truth there.

**FssSystem** — FssApp's actions with the data request replaced by FssDevice's
steps, and FssSim on the other side of the two transfers. `callTruths` (the
truths there have been since the call began) and `kept` (the request met a
disabled sensor that kept an old frame) are history variables. A failed
transfer either reached the sensor or did not. STOP is only among the commands
where transfers may fail (`StopAssumption`): a failed transfer is how the driver
learns that the sensor is gone.

**FssFrame** — requests and frames byte by byte, sent whole and then damaged in one
byte. `sensorHost` is the machine of the simulator, which writes the frame,
`driverHost` that of the flight software, which reads it; each is little-endian or
big-endian. A float is four bytes, which the code moves and never computes with.

**FssFprime** — the F' component, one action per handler: `queue` is the active
component's queue, which commands and the rate group fill; `hk`, `spi` and
`FSSData` are its fields; `tlmHk`, `tlmData` and `written` are the channels and
which of them have been written. `outrun` is a history variable: updateData ran
after the last updateTlm. `Request_Counted` is a call of the device library with
the promise that FssDevice checks, on a closed device too.

**FssCheckout** — the checkout program. A line is a sequence of words. `input_buf` is
what `strtok` finds in the input buffer, `num_input_tokens` and `cmd` are main's;
a request is FssDevice's, step by step. `asked` is a history variable: the last
line that was read.

**FssGround** — the ground library against FssApp, over an uplink and a downlink that
keep their order, delay and lose. `at` is where the script is in the library;
`get_fss_hk`, `cmd`, `fss_cmd` and `safe_fss` begin its calls (`enable_fss` and
`disable_fss` are `fss_cmd` with the check of `Shows`). `tlm` is the last housekeeping
packet received. `InvalidCommands` are the commands of a wrong length or an unknown
code with which the application test expects the error count to move. History: `accepted` counts the commands the application accepted
since `fss_cmd` first sent its own, and `astray` says that a wait has timed out and
nothing has put the ground right since. A timeout ends the script, as an error in
it does; the next call may begin with packets still under way.

**FssApp_proofs**, **FssFprime_proofs**, **FssDevice_proofs**, **FssSensor_proofs**,
**FssSystem_proofs**, **FssCheckout_proofs**, **FssGround_proofs**, **FssFrame_proofs** — the
theorems. **MCFss...** — instances for TLC.

Operators named `X_Y` beside a definition `X`, and introduced by "Mutant", are
plausible mistakes in `X`; nothing uses them. With `X` replaced by one of them
the property PROJECT.json pairs it with is violated, which shows that the
property says something of the code.

## 3. What is checked

| run | question | instance |
|---|---|---|
| `app` | Do housekeeping, interface and counters agree whatever arrives and whatever fails; does it answer, end when asked and close the device? | every kind of message a handler tells apart (nine), all seven external calls may fail, pipe of 1, counters modulo 2 |
| `device` | Does a request end, and do success and new data mean what they should? | every bus call may fail, any answer |
| `sensor` | Does the transfer in its steps implement FssSim, and what is a data point worth? | both providers, two positions of the sun, every form of message, all commands, 42 writing at any moment |
| `sim_stale` | *violated:* the queue is what the last write asks for | any master, all commands, two truths |
| `system` | Does the whole implement FssApp, its fairness included; is the device open under a request, is nothing left behind, is what is accepted current? | enable, disable and data requests; transfers fail before or after reaching the sensor, and unselects fail; the sensor is disabled and enabled; two truths, counters modulo 2 |
| `system_uncounted` | *violated:* a disabled sensor's answer is counted as a device error | no faults |
| `fprime` | Do device, DeviceEnabled, channels and counters of the F' component agree? | all commands and ports, every external call may fail, the constructor's too; queue of 1, counters modulo 3 |
| `checkout` | Is every line handled, does a request follow what was typed, and what does the end of the input do? | nine lines, with too many arguments, with none, blank; every call may fail; room for two arguments |
| `ground` | Is the ground's picture right, is nothing executed twice, is what is confirmed true, do calls end? | all commands; opening and closing the device fail; two packets on each link, two calls, pipe of 1, counters modulo 2 |
| `ground_wrap` | *violated:* a command that is confirmed was counted | same |
| `frame` | Are intact messages understood and damaged ones refused? | two floats in either place, either byte order at either end, every position, every byte value |
| `frame_doc` | *violated:* the frame of 5 and 10 degrees is the documented one | the two floats of the README, either byte order |

Bounds. No run needs a state constraint: the pipe is bounded by the code, the
counters wrap, and the two bounds that the code does not have are constants in
the guards of FssGround: `MaxInFlight`, the packets a link holds before it loses
some, and `MaxCalls`, the calls of a session. Two calls are what it takes for the
second to begin with the late answers and late commands of the first; within
one call there are three commands and three requests, and a link of two already
lets a command and an answer of different attempts be under way together.
Counters modulo 3 tell an increment from a reset and from two increments, and
wrap; modulo 2 still shows a double count (as a missing one) and makes every
second command the one at the wrap, and the theorems cover every width.
A pipe of 1 already puts a message behind the one being handled, and fills up; the
order of a longer one is the Software Bus's and no property is about it.
In `fprime` the queue only delays what arrives, and handlers look at nothing but
its head, so a queue of 1 gives every order of handlers.
Two truths let a reading be stale; one of them carries the zero angles with
error code 1, so that the out-of-view case is not confused with zeroed memory.
`system` lets neither selecting the chip nor opening and closing the device fail, and
does not send STOP. A select that fails leaves the sensor as a transfer that fails
before it reaches it, and a simulator that is gone fails every transfer, which
the run contains as transfers that fail for ever; what FssApp does when opening or
closing fails is checked in `app`, and what the sensor does on STOP in `sensor`. The
theorems of FssSystem hold with all of them. In `frame` the bytes of the
second float all differ and add up past 256, so that the sum wraps. A handler depends on nothing but the message and one packet, so
more messages repeat the same states.

Fairness. `FssApp` and `FssSystem` assume weak fairness of the application's
thread, and nothing more: the scheduler runs a ready task, every hardware call
returns, and no message, command, exit or change of the sun need ever happen.
`FssDevice` assumes it of the library in the same thread. When the thread pends
on an empty pipe it is not enabled, so the assumption is void there, and
`ExitHonoured` says so. `FssCheckout` assumes it of the program, not of the user.
`FssGround` assumes it of the library, whose waits end by themselves after
`GENERIC_FSS_RESPONSE_TIMEOUT`, and of nothing else: no packet need arrive.
`FssSim`, `FssSensor`, `FssFrame` and `FssFprime` state safety only and
assume no fairness. Deadlock is not checked where the system may stop: an
application that has ended or that pends, a component that was destroyed, a
sensor that is gone, a message that has arrived, a program or a session that is over.

Reading the properties. A few state more than they seem to:

* `EveryMessageCountedOnce` is about the step that takes the last action of a
  handler: exactly one of the command counters moves, by one, modulo the width,
  except for telemetry requests and resets; the DISABLE at exit counts as one.
* `DeviceActivityCounted` has "exactly when": opening, closing and publishing
  move DeviceCount, and nothing else does.
* `AcceptedIsCurrent` holds across requests that failed with their answer left
  in the sensor: the next request's own first transfer takes the old answer out.
  The exception is the finding of `sim_stale`, and it is the only one.
* `ValidIsMeasured` has two exceptions, and the README's meaning of error code 0
  ("Angles were calculated successfully") fails in both: values read from
  shared memory while 42 was writing, and a message whose angles are no numbers.
* `IntactIsAccepted` covers machines of different byte order: their frames are taken
  like any other, for the checksum is the same, and both angles are turned round.
* `DocumentedFrame` is what `README.md:54-55` says of the bytes on the bus, for any
  machine. `OnlyBigEndianAsDocumented` says which machines it is true of.
* `InStep`, `AtMostOnce`, `ConfirmedOnce` and `ConfirmedDevice` are about sessions in
  which no wait timed out, or in which an answer with nothing behind it has put
  the ground right. After a timeout none of them holds: a late answer is
  taken for a new one, and a command may be sent again that was executed.
* `AppSpec` is the whole of FssApp, with its liveness: a sensor that dies, or a
  bus that fails, never holds up the messages behind.

## 4. What is proved

For every value of the constants that meets the named assumptions of the modules
(any set of messages, any set of failing calls, any depth of the queue, any width
of the counters, any angles; any positions, forms of messages, providers and
commands to the sensor; any lines and any room for arguments; any capacity of the
links and any number of calls; any floats):

| module | theorem | property |
|---|---|---|
| `FssApp_proofs` | `TypeCorrect` | `TypeOK` |
| | `HousekeepingTellsTruth` | `HousekeepingTellsInterface` |
| | `ExitReleases` | `ExitReleasesInterface` |
| | `MessagesCountedOnce` | `EveryMessageCountedOnce` |
| | `ErrorsAreInert` | `RejectedIsInert` |
| | `ActivityIsCounted` | `DeviceActivityCounted` |
| `FssFprime_proofs` | `TypeCorrect` | `TypeOK` |
| | `OpenMeansEnabled` | `OpenIsEnabled` |
| | `AgreementIsKept` | `AgreementLasts` |
| | `ChannelsAreCurrent` | `ChannelsCurrent` |
| | `CommandsAreCountedOnce` | `CommandsCountedOnce` |
| `FssDevice_proofs` | `TypeCorrect` | `TypeOK` |
| | `SuccessIsComplete` | `SuccessCompletes` |
| | `DataFromFrames` | `DataFromVerifiedFrame` |
| `FssSensor_proofs` | `TypeCorrect` | `TypeOK` |
| | `UndisturbedReading` | `UndisturbedIsCurrent` |
| | `ValidReadingsMeasured` | `ValidIsMeasured` |
| | `ImplementsSim` | `SimSpec` |
| | `OnlyDisabledKeeps` | `OnlyDisabledKeepsFrame` |
| | `DisabledIsSilent` | `DisabledMeasuresNothing` |
| `FssSystem_proofs` | `OpenUnderRequest` | `OpenThroughoutRequest` |
| | `SuccessDrains` | `SuccessDrainsSensor` |
| | `AcceptedReadings` | `AcceptedIsCurrent` |
| | `RequestLooksAtomic` | the safety part of `AppSpec` |
| `FssCheckout_proofs` | `TypeCorrect` | `TypeOK` |
| | `InputEndRepeats` | `EndOfInputRepeats` |
| | `RequestsFollowLines` | `RequestsAreAsked` |
| `FssGround_proofs` | `TypeCorrect` | `TypeOK` |
| | `StaysInStep` | `InStep` |
| | `ExecutedAtMostOnce` | `AtMostOnce` |
| | `ConfirmedIsOnce` | `ConfirmedOnce` |
| | `ConfirmedIsSo` | `ConfirmedDevice` |
| `FssFrame_proofs` | `WholeMessagesAreTaken` | `IntactIsAccepted` |
| | `OneDamagedByteIsRefused` | `DamagedIsRefused` |
| | `OnlyBigEndianAsDocumented` | where `DocumentedFrame` holds: on a big-endian sensor and no other |

The application. The inductive invariant is `InterfaceInv`: `TypeOK`,
`HousekeepingTellsInterface`, and that the device is closed while the application
initialises. The last is needed because the end of initialisation writes
DEVICE_DISABLED whatever was there: without knowing that nothing can have
opened the device before, the equivalence of DeviceEnabled and the device is
not preserved. `HousekeepingTellsInterface` is what makes the DISABLE at exit
reach an open device, so the action property `ExitReleasesInterface` follows from it. The proof that `[Next]_vars` preserves the invariant has a
step for each action. The other three action properties follow from the invariant
and the same split; `DeviceActivityCounted` needs `HousekeepingTellsInterface`
(a publication needs DeviceEnabled, which means an open device) and
`TypeOK` together with `CounterModulus > 1` (an increment changes a counter).

The F' component. `InterfaceInv` adds to `OpenIsEnabled` that the device is closed
before construction; `InterfaceSteps` sums up what any handler does to device and
DeviceEnabled, and the agreement follows from it. `ChannelInv` adds to
`ChannelsCurrent` that no channel is written before construction, since the
constructor sets DeviceEnabled and writes nothing. The heart of it is
`WriteKeepsCurrent`: writing a set of channels keeps them all current when what
the handler moved is in the set or excused; each handler is then one instance.

The device library. `DeviceInv` adds to `SuccessCompletes` that a call in its middle
runs on an open device, which holds because the caller acts between calls
only, and that the answer has the size of a frame once it is in.

The sensor. `SensorInv` ties the parts of a reading together: what 42 has written of
the shared memory is its position (`WrittenIsPosition`), what has been read while
42 rested is what is there (`ReadIsSource`), and the answer of a transfer was fixed
by the queue it found (`TransferKept`). From it follow what a data point is worth,
and the refinement: each step is a transfer, a new truth, a command, the end of the model
or a stutter of FssSim. `TransferKept` is what lets FssSim's transfer happen as late
as the filling of the queue. `QueueInv` then adds the content of the queue; only the
two steps that write it disturb it.

The system. `InterfaceInv` is that of the application again, with
`OpenThroughoutRequest`: the request begins because DeviceEnabled says ENABLED, and
`ThreadIsBusy` says that the one thread makes no other step until it ends. `AnswerInv`
follows the answer: what the request has queued in the sensor is a frame of a
truth of this call, what is read of it is the same, and after that the queue is
empty. For the refinement `FrameInv` says that every frame on its way carries a
reading; then the driver's last step is `ReportDeviceTelemetry` of FssApp
(`RequestIsReport`) and all its others stutter.

The checkout program. `LineInv` says that the buffer holds what `strtok` left of the last
line, that a line asking for an exit does not lead back to the prompt, and that
the command in hand is the one of the last line, with its arguments or, after the
end of the input, with none.

The ground. None of its properties is inductive, since each hangs on what may be
under way at each place of a call. `UnderWay` strings together the packet in its
handler, the pipe and the command link, so that handing a packet over leaves it as it was
and handling or losing one takes one away. The invariant `Inv` is `TypedInv` and, as
long as no wait has timed out, `LinksInv` and `CountInv`:

* `TypedInv` is `TypeOK`, what each place of the script says of the call's local
  variables, and that the application's housekeeping tells its device.
* `LinksInv` says that at most one command and one request are under way, in this
  order; that a housekeeping packet on its way shows the application as it is, with
  nothing behind it; and that where the script is not waiting nothing is on its way
  and the last telemetry is true. An answer is the last thing a call's packets bring
  about, and the next call begins after it: that is why it is preserved.
* `CountInv` says that the application has accepted none of the call's commands
  and its count is one behind the expected one, or has accepted one, its count is the
  expected one, and no other is under way. The script sends again only in the first
  case, for it compares the counts when the telemetry is true.

When a wait has timed out nothing of `LinksInv` need hold any more; an answer that
comes with nothing behind it, before a command is sent, restores it (`ReceiveBackInStep`).
`ConfirmedOnce` then follows from arithmetic: a count one behind the expected one
passes the last check (`>=`) at the wrap only. TLC has checked `Inv` with counters
modulo 2 and 3, links of two and three packets and two and three calls.

`GoesOnAssumption` is part of what the theorems say: the pipe of the application does not
fail while a script runs. An application that ended would disable its device and
tell nobody.

The frames. The loop of `compute_checksum` is a recursive function of the
number of bytes added; the sums have fixed lengths (two bytes for a request, eleven
for a frame), so it unfolds step by step (`SumExtends`, `ChecksumOfTwo`,
`ChecksumOfEleven`) and no induction over data is needed. `FrameIs` and `RequestIs` say what is
in each byte. `BusInv` says that what has arrived is one of the two messages or
differs from it in one byte. `WordReadBack` reads a float that a machine of either
order has written on a machine of either order. A damaged data byte moves the sum by less than 256 and by
something (`TotalSplits`, `ByteMovesChecksum`), so the checksum that was sent is no longer
its own; a damaged checksum differs from that of the bytes before it; the other
bytes, and all those of a request, are fixed.

Only model-checked: liveness, which is out of the prover's reach (`RequestEnds`,
`ExitHonoured`, `HousekeepingAnswered`, `LinesAreHandled`, `CallsEnd`), and with it
the fairness half of `AppSpec`. Every other property that a passing run checks is
a theorem.

## 5. Findings

1. `sim_stale` — a disabled sensor that still holds a frame hands it out as the
   answer to a new request (`generic_fss_hardware_model.cpp:144`): `resize` zeroes
   only what it adds. It takes a request whose second exchange failed, a DISABLE
   and another request, and the driver accepts the old reading as new.
2. `system_uncounted` — a disabled sensor's zeros are not a frame, the driver
   changes nothing and returns OS_SUCCESS (`generic_fss_device.c:73`); the
   application counts a success and publishes the old packet. The hardware
   failure test is described as confirming that device errors increase.
3. `ground_wrap` — when the count last received is 255 the expected one is 0 and
   the last check is `CMD_COUNT >= 0` (`generic_fss_lib.py:47`): a NOOP of which all
   three copies were lost is confirmed, although the test that sends it says that it
   confirms that the counter increments. `ConfirmedOnce` says that this is the only
   way, and `ConfirmedDevice` that enable_fss and disable_fss are not affected.

4. `frame_doc` — `README.md:54-55` gives the frame of 5 degrees (0x40 A0 00 00) and 10
   degrees (0x41 20 00 00) as `DE AD BE EF 01 0A 40 A0 00 00 41 20 00 00 00` and names
   no machine. On a little-endian one, `double_to_4bytes_little_endian` sends 00 00 A0 40
   and 00 00 20 41 (`generic_fss_hardware_model.cpp:201`). The checksum is 4C either way.

One remark on a document, of which no run is kept. `README.md:71` says that the master
clocks idle bytes while the answer comes in; the driver sends an uninitialised
buffer (`generic_fss_device.c:29`), which the simulated sensor ignores and which
FssDevice models.

Not a disagreement with any document, but worth knowing: at the end of its input the
checkout program repeats its last command for ever, and executes a request it had
refused for its arguments. An F' component whose
device does not open at construction calls itself enabled and refuses ENABLE;
the remedy is a DISABLE first, if closing a device that is not open succeeds
(`AgreementLasts` says that this is the only way the two can part). And a
housekeeping request to a disabled F' component is refused and counted nowhere.

## 6. What is left out

The framework's reaction to a full queue of the F' component, and the port call
`FSSout_out` with which its updateData hands the reading on
(`Generic_fss.cpp:85`): the component's own state does not depend on it. Events, the system log, performance marks, time stamps, message headers and the
wording of replies: nothing depends on them. The default case of
`GENERIC_FSS_ProcessCommandPacket` has no action, since the pipe
receives the two message ids only. Configuration reading and the construction
of the simulator, of its SPI connection and of the shared memory are its initial
state. The model of the sensor is destroyed between two transfers only, since
its SPI client ends first.

In the checkout program, words longer than their buffer and lines longer than
the input buffer. In the ground library, `confirm_fss_data` and its kin, which compare
angles with the truth of 42 within a tolerance and a time, and the commands to
the simulator. FssGround begins when the application has initialised and has an application that
does not end (`GoesOnAssumption`), its links
keep their order, nobody else commands the application or asks it for
housekeeping, and a packet that arrives between the request and the beginning
of the wait is not waited for, as in `wait_check_packet`.

Command and telemetry definitions, configuration and build files have no state.

## 7. Plan

1. A second source of requests (the scheduler) in FssGround, whose housekeeping
   packets end the ground's waits too early: which of the ground's properties are
   left, and what invariant they need.
2. The exit of the application in FssGround, in place of `GoesOnAssumption`.
3. That FssWire's kinds of buffer are what FssFrame tells apart: zeros, the idle pattern,
   requests and frames, cut short or lengthened.
