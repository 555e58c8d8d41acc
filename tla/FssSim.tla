--------------------------------- MODULE FssSim ---------------------------------
(***************************************************************************)
(* The simulated sensor (sim/src/generic_fss_hardware_model.cpp).  Two     *)
(* threads of the simulator call it: the SPI bus, when a master transfers, *)
(* and the command bus, when somebody sends the simulator a command.  The  *)
(* data provider gives it the truth, which changes all the time.           *)
(*                                                                         *)
(* A transfer is spi_write, then spi_read: the answer to it was queued by  *)
(* the write before, and what it wrote queues the answer to the next.      *)
(***************************************************************************)
EXTENDS FssWire, Integers

CONSTANTS Truths,       \* what the data provider can report: the sun's position, or
                        \* that it is not in view (then the error code is 1): Readings
          SimCommands   \* the commands sent to the simulator, of AllCommands

GENERIC_FSS_SIM_SUCCESS == 0
GENERIC_FSS_SIM_ERROR   == 1

AllCommands == {"ENABLE", "DISABLE", "STOP"}

VARIABLES
    simEnabled,     \* _enabled
    queued,         \* _queued_data
    spiOut,         \* _spi_out_data of the SPI connection
    simState,       \* running, stopping (_keep_running is false), or gone
    truth,          \* what get_data_point would return now
    computed        \* history: what the last write alone asks to be queued

vars == <<simEnabled, queued, spiOut, simState, truth, computed>>

Init ==
    /\ simEnabled = GENERIC_FSS_SIM_SUCCESS
    /\ queued     = Empty
    /\ spiOut     = Empty
    /\ simState   = "running"
    /\ truth      \in Truths
    /\ computed   = Empty
-------------------------------------------------------------------------------
\* Mutants: the sensor samples the truth whether it is enabled or not; it pads
\* with the idle byte; it samples only when it holds no frame.
GenericFssData_Always == Frame(truth)
GenericFssData_Idles ==
    IF simEnabled = GENERIC_FSS_SIM_SUCCESS THEN Frame(truth)
    ELSE Resized(queued, DataSize)
GenericFssData_Once ==
    IF queued.size = DataSize THEN queued
    ELSE IF simEnabled = GENERIC_FSS_SIM_SUCCESS THEN Frame(truth)
    ELSE Zeros

\* create_generic_fss_data: the queue is resized to a frame, which zeroes an
\* empty queue and keeps a frame that is there, and filled when enabled.
GenericFssData ==
    IF simEnabled = GENERIC_FSS_SIM_SUCCESS THEN Frame(truth)
    ELSE IF queued.size = DataSize THEN queued
    ELSE Zeros

\* Mutant: a write that is not a request leaves the queue alone.
NextQueued_Kept(in) == IF in = Request THEN GenericFssData ELSE queued

\* determine_spi_response_for_request: what the write leaves in the queue.
NextQueued(in) == IF in = Request THEN GenericFssData ELSE Empty

\* spi_write: the answer to this transfer is what was queued before it.
SpiWrite(in) ==
    /\ simState # "gone"
    /\ spiOut' = Resized(queued, in.size)
    /\ queued' = NextQueued(in)
    /\ computed' = IF in # Request THEN Empty
                   ELSE IF simEnabled = GENERIC_FSS_SIM_SUCCESS THEN Frame(truth)
                   ELSE Zeros
    /\ UNCHANGED <<simEnabled, simState, truth>>

\* command_callback.  A command that is unknown, or HELP, is only answered.
command_callback(command) ==
    /\ simState # "gone"
    /\ CASE command = "ENABLE"  -> /\ simEnabled' = GENERIC_FSS_SIM_SUCCESS
                                   /\ UNCHANGED simState
         [] command = "DISABLE" -> /\ simEnabled' = GENERIC_FSS_SIM_ERROR
                                   /\ UNCHANGED simState
         [] command = "STOP"    -> /\ simState' = "stopping"
                                   /\ UNCHANGED simEnabled

Command(command) ==
    /\ command_callback(command)
    /\ UNCHANGED <<queued, spiOut, truth, computed>>

\* The simulator's run loop has seen _keep_running and deletes the model.
Destroy ==
    /\ simState = "stopping"
    /\ simState' = "gone"
    /\ UNCHANGED <<simEnabled, queued, spiOut, truth, computed>>

\* The data provider has a new data point.
Sense(reading) ==
    /\ simState # "gone"
    /\ truth' = reading
    /\ UNCHANGED <<simEnabled, queued, spiOut, simState, computed>>

\* The master may transfer anything of the two sizes the driver uses.
MasterBytes == {Request, Other(CmdSize), Idle(DataSize), Other(DataSize)}

Transfer == \E in \in MasterBytes : SpiWrite(in)

Background ==
    \/ \E command \in SimCommands : Command(command)
    \/ \E reading \in Truths : Sense(reading)
    \/ Destroy

Next == Transfer \/ Background

Spec == Init /\ [][Next]_vars
-------------------------------------------------------------------------------
TypeOK ==
    /\ simEnabled \in {GENERIC_FSS_SIM_SUCCESS, GENERIC_FSS_SIM_ERROR}
    /\ queued \in {Empty, Zeros} \cup {Frame(r) : r \in Truths}
    /\ spiOut \in Bytes
    /\ simState \in {"running", "stopping", "gone"}
    /\ truth \in Truths
    /\ computed \in {Empty, Zeros} \cup {Frame(r) : r \in Truths}

(***************************************************************************)
(* Comment at line 120: "what goes back out depends on computations done   *)
(* based on the last in": the queue holds what the last write asks for.    *)
(* A disabled sensor that still holds a frame nobody read keeps it.        *)
(***************************************************************************)
QueuedIsFromLastWrite == queued = computed

(***************************************************************************)
(* That is the only exception: whatever the master sends and whenever the  *)
(* commands arrive, the queue differs from what the last write asks for    *)
(* only when that was a request to a disabled sensor, and then by a frame. *)
(***************************************************************************)
OnlyDisabledKeepsFrame ==
    queued # computed => computed = Zeros /\ queued.kind = "frame"

(***************************************************************************)
(* A disabled sensor measures nothing: no frame enters the queue that was  *)
(* not already there.  And a frame goes out only in the transfer that      *)
(* follows the request, once.                                              *)
(***************************************************************************)
MeasuresNothing ==
    /\ simEnabled = GENERIC_FSS_SIM_ERROR /\ queued'.kind = "frame" => queued' = queued
    /\ spiOut' # spiOut /\ spiOut'.kind = "frame" => computed # Empty /\ queued' = Empty

DisabledMeasuresNothing == [][MeasuresNothing]_vars
===============================================================================
