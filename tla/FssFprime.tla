------------------------------- MODULE FssFprime -------------------------------
(***************************************************************************)
(* The F' component (fsw/fprime/fss_src/Generic_fss.cpp), the other flight *)
(* software for the sensor.  It is an active component: the commands and   *)
(* the two ports that a rate group drives put a message into its queue,    *)
(* and its one thread handles them in order.  What the ground sees of it   *)
(* is not a packet but channels, which each handler writes as it sees fit. *)
(*                                                                         *)
(* GENERIC_FSS_RequestData is one step here, with the promise that         *)
(* FssDevice checks: on a closed device it fails, and a request that fails *)
(* leaves the data alone.                                                  *)
(***************************************************************************)
EXTENDS FssHk, FssWire, Sequences

CONSTANTS QueueDepth,   \* the depth the deployment gives the component's queue
          Faults        \* the external calls that may fail

Commands == {"NOOP", "RESET_COUNTERS", "ENABLE", "DISABLE",
             "REQUEST_HOUSEKEEPING", "REQUEST_DATA"}
Ports    == {"updateData", "updateTlm"}

ASSUME QueueDepthAssumption == QueueDepth \in Nat \ {0}
ASSUME FaultsAssumption ==
    Faults \subseteq {"spi_init_dev", "spi_close_device", "GENERIC_FSS_RequestData"}

VARIABLES
    component,  \* not yet constructed, running, or destroyed
    queue,      \* the messages of the active component
    hk,         \* HkTelemetryPkt
    spi,        \* the SPI device FssSpi names
    FSSData,    \* the reading the component holds
    tlmHk,      \* the channels of the counters and of DeviceEnabled
    tlmData,    \* the channels ALPHA, BETA and ERRORCODE
    written,    \* the channels that have been written
    outrun      \* history: FSSData or the device counts may have moved since updateTlm

tlm  == <<tlmHk, tlmData, written>>
vars == <<component, queue, hk, spi, FSSData, tlm, outrun>>

CommandChannels == {"CommandCount", "CommandErrorCount"}
DeviceChannels  == {"DeviceCount", "DeviceErrorCount"}
CounterChannels == CommandChannels \cup DeviceChannels
HkChannels      == CounterChannels \cup {"DeviceEnabled"}
Channels        == HkChannels \cup {"FSSData"}

\* FSSData is not initialised: it holds whatever the memory held.
Init ==
    /\ component = "new"
    /\ queue     = << >>
    /\ hk        = ZeroHk
    /\ spi       = "closed"
    /\ FSSData   \in Readings
    /\ tlmHk     = ZeroHk
    /\ tlmData   = ZeroReading
    /\ written   = {}
    /\ outrun    = FALSE
-------------------------------------------------------------------------------
\* The constructor says ENABLED before it opens the device, and does not take it
\* back when that fails.
Construct ==
    /\ component = "new"
    /\ component' = "running"
    /\ hk' = [ZeroHk EXCEPT !.DeviceEnabled = DEVICE_ENABLED]
    /\ spi' = "open" \/ ("spi_init_dev" \in Faults /\ UNCHANGED spi)
    /\ UNCHANGED <<queue, FSSData, tlm, outrun>>

\* The destructor closes the device; the thread has ended before it.
Destroy ==
    /\ component = "running"
    /\ component' = "destroyed"
    /\ spi' = "closed" \/ ("spi_close_device" \in Faults /\ UNCHANGED spi)
    /\ UNCHANGED <<queue, hk, FSSData, tlm, outrun>>

\* A command or a call of a port is queued.  QueueDepth bounds the model: what
\* happens at a full queue is up to the framework.
Invoke(message) ==
    /\ component = "running"
    /\ Len(queue) < QueueDepth
    /\ queue' = Append(queue, message)
    /\ UNCHANGED <<component, hk, spi, FSSData, tlm, outrun>>
-------------------------------------------------------------------------------
\* The handlers.

Handle(message) ==
    /\ component = "running"
    /\ queue # << >>
    /\ Head(queue) = message
    /\ queue' = Tail(queue)
    /\ UNCHANGED component

\* Every command is answered with OK, whatever came of it.
HandleCommand(command) == Handle(command) /\ UNCHANGED outrun

\* Mutant: the channel of DeviceEnabled is not among those written.
Write_Counters(names) ==
    /\ tlmHk' = [hk' EXCEPT !.DeviceEnabled = tlmHk.DeviceEnabled]
    /\ tlmData' = IF "FSSData" \in names THEN FSSData' ELSE tlmData
    /\ written' = written \cup names

Chosen(names, name, new, old) == IF name \in names THEN new ELSE old

\* tlmWrite: the named channels get the component's values.
Write(names) ==
    /\ tlmHk' = [DeviceEnabled     |-> Chosen(names, "DeviceEnabled",
                                              hk'.DeviceEnabled, tlmHk.DeviceEnabled),
                 CommandErrorCount |-> Chosen(names, "CommandErrorCount",
                                              hk'.CommandErrorCount, tlmHk.CommandErrorCount),
                 CommandCount      |-> Chosen(names, "CommandCount",
                                              hk'.CommandCount, tlmHk.CommandCount),
                 DeviceErrorCount  |-> Chosen(names, "DeviceErrorCount",
                                              hk'.DeviceErrorCount, tlmHk.DeviceErrorCount),
                 DeviceCount       |-> Chosen(names, "DeviceCount",
                                              hk'.DeviceCount, tlmHk.DeviceCount)]
    /\ tlmData' = IF "FSSData" \in names THEN FSSData' ELSE tlmData
    /\ written' = written \cup names

\* Mutant: a failure of the device is a command error as well.
Failed_Refuses(h) == [h EXCEPT !.DeviceErrorCount  = Incremented(@),
                               !.CommandErrorCount = Incremented(@)]

\* How the handlers count.
Accepted     == [hk EXCEPT !.CommandCount      = Incremented(@)]
Refused      == [hk EXCEPT !.CommandErrorCount = Incremented(@)]
Worked(h)    == [h EXCEPT !.DeviceCount        = Incremented(@)]
Failed(h)    == [h EXCEPT !.DeviceErrorCount   = Incremented(@)]

\* GENERIC_FSS_RequestData, counted onto h.  It may succeed and change nothing.
Request_Counted(h) ==
    \/ /\ spi = "open"
       /\ FSSData' \in Readings
       /\ hk' = Worked(h)
    \/ /\ spi = "closed" \/ "GENERIC_FSS_RequestData" \in Faults
       /\ UNCHANGED FSSData
       /\ hk' = Failed(h)

updateData ==
    /\ Handle("updateData")
    /\ Request_Counted(hk)
    /\ outrun' = TRUE
    /\ UNCHANGED <<spi, tlm>>

updateTlm ==
    /\ Handle("updateTlm")
    /\ UNCHANGED <<hk, spi, FSSData>>
    /\ Write(CounterChannels \cup {"FSSData"})
    /\ outrun' = FALSE

NOOP ==
    /\ HandleCommand("NOOP")
    /\ hk' = Accepted
    /\ UNCHANGED <<spi, FSSData>>
    /\ Write({"CommandCount", "DeviceEnabled"})

\* Mutant: a failed open is taken for a success.
OpenDevice_Anyway ==
    /\ spi' = "open" \/ ("spi_init_dev" \in Faults /\ UNCHANGED spi)
    /\ hk' = Worked([Accepted EXCEPT !.DeviceEnabled = DEVICE_ENABLED])

OpenDevice ==
    \/ /\ spi' = "open"
       /\ hk' = Worked([Accepted EXCEPT !.DeviceEnabled = DEVICE_ENABLED])
    \/ /\ "spi_init_dev" \in Faults
       /\ UNCHANGED spi
       /\ hk' = Failed(Accepted)

\* Mutant: DeviceEnabled is cleared whether the device closes or not.
CloseDevice_Anyway ==
    /\ spi' = "closed" \/ ("spi_close_device" \in Faults /\ UNCHANGED spi)
    /\ hk' = Worked([Accepted EXCEPT !.DeviceEnabled = DEVICE_DISABLED])

CloseDevice ==
    \/ /\ spi' = "closed"
       /\ hk' = Worked([Accepted EXCEPT !.DeviceEnabled = DEVICE_DISABLED])
    \/ /\ "spi_close_device" \in Faults
       /\ UNCHANGED spi
       /\ hk' = Failed(Accepted)

ENABLE ==
    /\ HandleCommand("ENABLE")
    /\ \/ hk.DeviceEnabled = DEVICE_DISABLED /\ OpenDevice
       \/ hk.DeviceEnabled # DEVICE_DISABLED /\ hk' = Refused /\ UNCHANGED spi
    /\ UNCHANGED FSSData
    /\ Write(HkChannels)

DISABLE ==
    /\ HandleCommand("DISABLE")
    /\ \/ hk.DeviceEnabled = DEVICE_ENABLED /\ CloseDevice
       \/ hk.DeviceEnabled # DEVICE_ENABLED /\ hk' = Refused /\ UNCHANGED spi
    /\ UNCHANGED FSSData
    /\ Write(HkChannels)

\* Refused without being counted when the device is disabled.
REQUEST_HOUSEKEEPING ==
    /\ HandleCommand("REQUEST_HOUSEKEEPING")
    /\ \/ /\ hk.DeviceEnabled = DEVICE_ENABLED
          /\ hk' = Accepted
          /\ UNCHANGED <<spi, FSSData>>
          /\ Write(Channels)
       \/ /\ hk.DeviceEnabled # DEVICE_ENABLED
          /\ UNCHANGED <<hk, spi, FSSData, tlm>>

RESET_COUNTERS ==
    /\ HandleCommand("RESET_COUNTERS")
    /\ hk' = ResetCounters(hk)
    /\ UNCHANGED <<spi, FSSData>>
    /\ Write(CounterChannels)

REQUEST_DATA ==
    /\ HandleCommand("REQUEST_DATA")
    /\ \/ hk.DeviceEnabled = DEVICE_ENABLED /\ Request_Counted(Accepted)
       \/ hk.DeviceEnabled # DEVICE_ENABLED /\ hk' = Refused /\ UNCHANGED FSSData
    /\ UNCHANGED spi
    /\ Write(CounterChannels \cup {"FSSData"})

Command == NOOP \/ RESET_COUNTERS \/ ENABLE \/ DISABLE
               \/ REQUEST_HOUSEKEEPING \/ REQUEST_DATA

Thread == Command \/ updateData \/ updateTlm

Environment == (\E message \in Commands \cup Ports : Invoke(message)) \/ Destroy

Next == Construct \/ Thread \/ Environment

Spec == Init /\ [][Next]_vars
-------------------------------------------------------------------------------
TypeOK ==
    /\ component \in {"new", "running", "destroyed"}
    /\ queue \in Seq(Commands \cup Ports)
    /\ hk \in HkPackets
    /\ spi \in {"open", "closed"}
    /\ FSSData \in Readings
    /\ tlmHk \in HkPackets
    /\ tlmData \in Readings
    /\ written \in SUBSET Channels
    /\ outrun \in BOOLEAN

(***************************************************************************)
(* An open device is said to be enabled, so that DISABLE can always close  *)
(* it.  The converse is false: a component whose device did not open at    *)
(* construction says ENABLED, and ENABLE is refused.                       *)
(***************************************************************************)
OpenIsEnabled ==
    component = "running" /\ spi = "open" => hk.DeviceEnabled = DEVICE_ENABLED

(***************************************************************************)
(* That disagreement comes from the constructor only: once DeviceEnabled   *)
(* and the device agree, no history of commands, failed opens and failed   *)
(* closes makes them disagree, as long as the component runs.              *)
(***************************************************************************)
Agree == hk.DeviceEnabled = DEVICE_ENABLED <=> spi = "open"

AgreementKept ==
    component = "running" /\ component' = "running" /\ Agree => Agree'

AgreementLasts == [][AgreementKept]_vars

(***************************************************************************)
(* No handler but updateData leaves a channel behind: what the ground      *)
(* reads of the commands and of DeviceEnabled is what the component holds, *)
(* and of the device too unless updateData ran after the last updateTlm.   *)
(***************************************************************************)
CurrentChannels ==
    {c \in HkChannels : tlmHk[c] = hk[c]}
        \cup {c \in {"FSSData"} : tlmData = FSSData}

ChannelsCurrent ==
    written \subseteq
        CurrentChannels \cup (IF outrun THEN DeviceChannels \cup {"FSSData"} ELSE {})

(***************************************************************************)
(* Every command moves exactly one of the two command counters, by one,    *)
(* except the reset (both to zero) and a housekeeping request to a         *)
(* disabled component (none, though it is refused); a failure of the       *)
(* device or a call of a port is never counted as a command.               *)
(***************************************************************************)
CountedOnce ==
    \/ /\ Ticks(hk.CommandCount, hk'.CommandCount)
       /\ hk'.CommandErrorCount = hk.CommandErrorCount
    \/ /\ Ticks(hk.CommandErrorCount, hk'.CommandErrorCount)
       /\ hk'.CommandCount = hk.CommandCount

NotCounted == /\ hk'.CommandCount = hk.CommandCount
              /\ hk'.CommandErrorCount = hk.CommandErrorCount

Serves == queue # << >> /\ queue' = Tail(queue)

CommandCounted ==
    component = "running" =>
        IF Serves /\ Head(queue) = "RESET_COUNTERS"
        THEN hk'.CommandCount = 0 /\ hk'.CommandErrorCount = 0
        ELSE IF Serves /\ Head(queue) \in Commands
             THEN \/ CountedOnce
                  \/ /\ Head(queue) = "REQUEST_HOUSEKEEPING"
                     /\ hk.DeviceEnabled = DEVICE_DISABLED
                     /\ NotCounted
        ELSE NotCounted

CommandsCountedOnce == [][CommandCounted]_vars
===============================================================================
