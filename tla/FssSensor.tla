------------------------------- MODULE FssSensor -------------------------------
(***************************************************************************)
(* The simulated sensor with its data providers, step by step.  FssSim     *)
(* takes a transfer for one step and the truth for one value.  In fact     *)
(* spi_write runs in the thread of the SPI bus, asks a provider for a data *)
(* point on the way, and commands reach the simulator meanwhile:           *)
(*   - the 42 provider hands out the last message that came through the    *)
(*     socket, whole, and Generic_fssDataPoint parses it when it is asked  *)
(*     for a value (sim/src/generic_fss_data_point.cpp);                   *)
(*   - the shared memory provider reads three values, one by one, that 42  *)
(*     writes into the same memory, one by one, without a lock.            *)
(* SimSpec says that FssSim is still the right description of the sensor.  *)
(***************************************************************************)
EXTENDS FssWire, Integers

CONSTANTS Providers,    \* data-provider.type: "42" or "shmem"
          Positions,    \* where 42 computes the sun to be
          Forms,        \* how a message of 42 may come out
          SimCommands

Fields == {"valid", "alpha", "beta"}

\* "whole"; "no key": a key is missing; "short": there is one angle only;
\* "garbled": the angles are no numbers.
MessageForms == {"whole", "no key", "short", "garbled"}

AngleValues == {angles[1] : angles \in Angles}

ASSUME ProvidersAssumption == Providers \subseteq {"42", "shmem"}
ASSUME PairsAssumption     == Angles = AngleValues \X AngleValues
ASSUME PositionsAssumption ==
    Positions \subseteq [valid : BOOLEAN, alpha : AngleValues, beta : AngleValues]
ASSUME FormsAssumption     == "whole" \in Forms /\ Forms \subseteq MessageForms

VARIABLES
    provider,       \* _generic_fss_dp
    position,       \* where the sun is, as 42 last computed it
    unwritten,      \* the values of it that are not in the shared memory yet
    source,         \* what the provider reads: the last message, or the shared memory
    phase,          \* where spi_write is; "Idle" when there is no transfer
    out,            \* out_data of determine_spi_response_for_request
    point,          \* the data point of create_generic_fss_data
    unread,         \* the values of it that are still to be read
    simEnabled, queued, spiOut, simState, computed,     \* as in FssSim
    undisturbed     \* history: 42 has not written since the transfer began

worldVars    == <<provider, position, unwritten, source>>
transferVars == <<phase, out, point, unread>>
modelVars    == <<simEnabled, queued, spiOut, simState, computed>>
vars         == <<worldVars, transferVars, modelVars, undisturbed>>

Phases == {"Idle", "Read", "Respond"}

Points == [form : MessageForms, valid : BOOLEAN, alpha : AngleValues, beta : AngleValues]

\* Between two transfers there is no data point; this one is never looked at.
NoPoint == [form  |-> "no key", valid |-> FALSE,
            alpha |-> ZeroAngles[1], beta |-> ZeroAngles[2]]

Message(sun, form) ==
    [form |-> form, valid |-> sun.valid, alpha |-> sun.alpha, beta |-> sun.beta]

Reading(valid, angles) ==
    [angles |-> angles, ErrorCode |-> IF valid THEN 0 ELSE 1]

\* Mutant: the number of angles is not looked at.
do_parsing_Unchecked(dp) ==
    CASE dp.form = "whole" -> Reading(dp.valid, <<dp.alpha, dp.beta>>)
      [] dp.form \in {"short", "garbled"} -> Reading(dp.valid, ZeroAngles)
      [] dp.form = "no key" -> Reading(FALSE, ZeroAngles)

\* What the accessors of a data point give.  Values that could not be parsed
\* are those of the constructor; the exception of angles that are no numbers
\* comes after the validity was set.
do_parsing(dp) ==
    CASE dp.form = "whole"   -> Reading(dp.valid, <<dp.alpha, dp.beta>>)
      [] dp.form = "garbled" -> Reading(dp.valid, ZeroAngles)
      [] OTHER               -> Reading(FALSE, ZeroAngles)

\* A transfer looks finished once its answer is known.
Sim == INSTANCE FssSim
         WITH Truths <- Readings,
              truth  <- do_parsing(point),
              spiOut <- IF phase = "Respond" THEN out ELSE spiOut

ASSUME SimCommandsAssumption == SimCommands \subseteq Sim!AllCommands

Init ==
    /\ provider    \in Providers
    /\ position    \in Positions
    /\ unwritten   = {}
    /\ source      = Message(position, "whole")
    /\ phase       = "Idle"
    /\ out         = Empty
    /\ point       = NoPoint
    /\ unread      = {}
    /\ simEnabled  = Sim!GENERIC_FSS_SIM_SUCCESS
    /\ queued      = Empty
    /\ spiOut      = Empty
    /\ simState    = "running"
    /\ computed    = Empty
    /\ undisturbed = TRUE
-------------------------------------------------------------------------------
\* The thread of the SPI bus: spi_write.

\* The answer to this transfer is what is queued.  Anything but a request
\* empties the queue; a request goes on to ask the provider.
BeginTransfer(in) ==
    /\ phase = "Idle"
    /\ simState # "gone"
    /\ out' = Resized(queued, in.size)
    /\ IF in = Request
       THEN /\ phase'  = "Read"
            /\ unread' = Fields
            /\ UNCHANGED <<queued, computed>>
       ELSE /\ phase'    = "Respond"
            /\ queued'   = Sim!NextQueued(in)
            /\ computed' = Empty
            /\ UNCHANGED unread
    /\ undisturbed' = (unwritten = {})
    /\ UNCHANGED <<worldVars, point, simEnabled, spiOut, simState>>

\* Mutant: a provider that updates the angles of a data point it keeps.
ReadMessage_Cached ==
    /\ phase = "Read" /\ unread = Fields
    /\ provider = "42"
    /\ point'  = [source EXCEPT !.valid = point.valid]
    /\ unread' = {}
    /\ UNCHANGED <<worldVars, phase, out, modelVars, undisturbed>>

\* Generic_fss42DataProvider::get_data_point.
ReadMessage ==
    /\ phase = "Read" /\ unread = Fields
    /\ provider = "42"
    /\ point'  = source
    /\ unread' = {}
    /\ UNCHANGED <<worldVars, phase, out, modelVars, undisturbed>>

\* GenericFssShmemDataProvider::get_data_point evaluates three arguments, in
\* the order the compiler likes.
ReadValue(field) ==
    /\ phase = "Read" /\ field \in unread
    /\ provider = "shmem"
    /\ point'  = [point EXCEPT ![field] = source[field], !.form = "whole"]
    /\ unread' = unread \ {field}
    /\ UNCHANGED <<worldVars, phase, out, modelVars, undisturbed>>

\* Mutant: the answer to the request is sent back in the same transfer.
FillQueue_AnswersAtOnce ==
    /\ phase = "Read" /\ unread = {}
    /\ phase' = "Respond"
    /\ queued' = Sim!GenericFssData
    /\ out' = Resized(queued', CmdSize)
    /\ computed' = IF simEnabled = Sim!GENERIC_FSS_SIM_SUCCESS
                   THEN Frame(do_parsing(point)) ELSE Zeros
    /\ UNCHANGED <<worldVars, point, unread, simEnabled, spiOut, simState, undisturbed>>

\* create_generic_fss_data with its data point: _enabled is looked at now.
FillQueue ==
    /\ phase = "Read" /\ unread = {}
    /\ phase' = "Respond"
    /\ queued' = Sim!GenericFssData
    /\ computed' = IF simEnabled = Sim!GENERIC_FSS_SIM_SUCCESS
                   THEN Frame(do_parsing(point)) ELSE Zeros
    /\ UNCHANGED <<worldVars, out, point, unread, simEnabled, spiOut, simState, undisturbed>>

\* The out_data reach _spi_out_data, from where spi_read takes them.
EndTransfer ==
    /\ phase = "Respond"
    /\ phase'  = "Idle"
    /\ spiOut' = out
    /\ out'    = Empty
    /\ point'  = NoPoint
    /\ UNCHANGED <<worldVars, unread, simEnabled, queued, simState, computed, undisturbed>>

SpiThread ==
    \/ \E in \in Sim!MasterBytes : BeginTransfer(in)
    \/ ReadMessage
    \/ \E field \in Fields : ReadValue(field)
    \/ FillQueue
    \/ EndTransfer
-------------------------------------------------------------------------------
\* The thread of the command bus, and the end of the simulator.

Command(command) ==
    /\ Sim!command_callback(command)
    /\ UNCHANGED <<worldVars, transferVars, queued, spiOut, computed, undisturbed>>

\* The model is deleted between two transfers: its SPI client ends first.
Destroy ==
    /\ phase = "Idle"
    /\ simState = "stopping"
    /\ simState' = "gone"
    /\ UNCHANGED <<worldVars, transferVars, simEnabled, queued, spiOut, computed, undisturbed>>
-------------------------------------------------------------------------------
\* 42.

\* A message comes through the socket.
Publish(sun, form) ==
    /\ provider = "42"
    /\ position'    = sun
    /\ source'      = Message(sun, form)
    /\ undisturbed' = FALSE
    /\ UNCHANGED <<provider, unwritten, transferVars, modelVars>>

\* 42 writes the shared memory, one value after the other.
BeginStore(sun) ==
    /\ provider = "shmem"
    /\ unwritten    = {}
    /\ position'    = sun
    /\ unwritten'   = Fields
    /\ undisturbed' = FALSE
    /\ UNCHANGED <<provider, source, transferVars, modelVars>>

Store(field) ==
    /\ field \in unwritten
    /\ source'    = [source EXCEPT ![field] = position[field]]
    /\ unwritten' = unwritten \ {field}
    /\ UNCHANGED <<provider, position, transferVars, modelVars, undisturbed>>

World ==
    \/ \E sun \in Positions, form \in Forms : Publish(sun, form)
    \/ \E sun \in Positions : BeginStore(sun)
    \/ \E field \in Fields : Store(field)

Next ==
    \/ SpiThread
    \/ \E command \in SimCommands : Command(command)
    \/ Destroy
    \/ World

Spec == Init /\ [][Next]_vars
-------------------------------------------------------------------------------
TypeOK ==
    /\ provider \in Providers
    /\ position \in Positions
    /\ unwritten \subseteq Fields
    /\ source \in Points
    /\ phase \in Phases
    /\ out \in Bytes
    /\ point \in Points
    /\ unread \subseteq Fields
    /\ Sim!TypeOK
    /\ undisturbed \in BOOLEAN

(***************************************************************************)
(* The sensor is what FssSim says: although a transfer is many steps, the  *)
(* commands that come in the middle of it and the truth that changes under *)
(* it make no difference that an atomic transfer could not have made.      *)
(***************************************************************************)
SimSpec == Sim!Spec

(***************************************************************************)
(* README.md: error code "0 = No error. Angles were calculated             *)
(* successfully".  A data point that is called valid is a position 42      *)
(* computed, whatever its message lacks, with two exceptions: values read  *)
(* from the shared memory while 42 was writing, and a message whose angles *)
(* are no numbers, which is called valid with angles of zero.              *)
(***************************************************************************)
Measured == {do_parsing(Message(sun, "whole")) : sun \in Positions}

ValidIsMeasured ==
    phase = "Read" /\ unread = {} /\ do_parsing(point).ErrorCode = 0 =>
        \/ do_parsing(point) \in Measured
        \/ provider = "shmem" /\ ~undisturbed
        \/ point.form = "garbled" /\ do_parsing(point).angles = ZeroAngles

(***************************************************************************)
(* A data point taken while 42 was at rest is the last thing 42 said, from *)
(* either provider: nothing of an earlier message or position is in it.    *)
(***************************************************************************)
UndisturbedIsCurrent ==
    phase = "Read" /\ unread = {} /\ undisturbed =>
        /\ point = source
        /\ source = Message(position, source.form)

(***************************************************************************)
(* What FssSim promises of the queue, with the transfer step by step.      *)
(***************************************************************************)
OnlyDisabledKeepsFrame  == Sim!OnlyDisabledKeepsFrame
DisabledMeasuresNothing == Sim!DisabledMeasuresNothing
===============================================================================
