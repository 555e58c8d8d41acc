------------------------------- MODULE FssGround -------------------------------
(***************************************************************************)
(* The ground (gsw/GENERIC_FSS/lib/generic_fss_lib.py, and the same in     *)
(* Ruby) commanding the cFS application (FssApp) over a command link and a *)
(* telemetry link that delay and lose packets but keep their order.        *)
(*                                                                         *)
(* fss_cmd sends a command, asks for housekeeping and compares the command *)
(* count with the one it expects; it sends again twice at most.  When an   *)
(* answer does not come the wait raises an error, which ends the script;   *)
(* the next one (the teardown of the suite, for example) begins with       *)
(* whatever is still under way.                                            *)
(***************************************************************************)
EXTENDS FssHk, FssWire, Sequences

CONSTANTS PipeDepth, Messages, Faults,
          MaxInFlight,      \* bound: the packets a link holds; more are lost
          MaxCalls          \* bound: the calls a session makes

ASSUME MaxInFlightAssumption == MaxInFlight \in Nat \ {0}
ASSUME MaxCallsAssumption    == MaxCalls \in Nat

\* The session is with an application that goes on: nobody ends it, and the one
\* failure that would does not happen.  Its initialisation is over, so what else
\* may fail is the opening and the closing of the device.
ASSUME GoesOnAssumption == "CFE_SB_ReceiveBuffer" \notin Faults

VARIABLES
    pc, RunStatus, esRequest, subscribed, pipe, msg, hk, sent, spi, devicePkt,
    uplink,         \* commands and requests on their way
    downlink,       \* housekeeping packets on their way
    at,             \* where the script is in the library
    goal,           \* the library function the script has called
    command,        \* the command fss_cmd sends
    expected,       \* count
    attempts,       \* how often fss_cmd has sent the command
    tlm,            \* the last housekeeping packet received
    verdict,        \* how the last call ended
    calls,          \* how many calls the session has made
    accepted,       \* history: the commands the app accepted since fss_cmd first sent its own
    astray          \* history: a wait timed out, and no answer has put it right since

App == INSTANCE FssApp

appVars     == <<pc, RunStatus, esRequest, subscribed, pipe, msg, hk, sent, spi, devicePkt>>
links       == <<uplink, downlink>>
callVars    == <<goal, command, expected, attempts>>
groundVars  == <<at, callVars, tlm, verdict, calls>>
history     == <<accepted, astray>>
vars        == <<appVars, links, groundVars, history>>

MaxAttempts == 3

Places == {"Idle", "Send", "AskHk", "Asked", "Waiting", "Answered", "Check"}

Command(code) == [MsgId |-> "CMD_MID", code |-> code, wellSized |-> TRUE]
HkRequest     == [MsgId |-> "REQ_HK_MID", code |-> REQ_HK_TLM, wellSized |-> TRUE]

\* The codes of the commands sent with fss_cmd.
ConfirmedCommands == {NOOP_CC, ENABLE_CC, DISABLE_CC}

\* What the application test sends to be rejected: a command of a wrong length,
\* and the first of its codes that mean nothing.
InvalidCommands == {[Command(NOOP_CC) EXCEPT !.wellSized = FALSE], Command(7)}

\* The commands the tests send without fss_cmd.
PlainCommands ==
    {Command(code) : code \in {RESET_COUNTERS_CC, ENABLE_CC, DISABLE_CC}} \cup InvalidCommands

\* What the library puts on the command link is among what may be sent to the app.
LibraryMessages ==
    {Command(code) : code \in ConfirmedCommands} \cup PlainCommands \cup {HkRequest}

ASSUME LibraryMessagesAssumption == LibraryMessages \subseteq Messages

\* A packet put on a link arrives after those before it, or is lost.
OnLink(link, packet) ==
    IF Len(link) < MaxInFlight THEN Append(link, packet) ELSE link

\* The session begins when the application is up and waits for its first message.
Init ==
    /\ pc         = "RunLoop"
    /\ RunStatus  = "APP_RUN"
    /\ esRequest  = "APP_RUN"
    /\ subscribed = App!MsgIds
    /\ pipe       = << >>
    /\ msg        = App!NoMessage
    /\ hk         = ZeroHk
    /\ spi        = "closed"
    /\ devicePkt  = ZeroReading
    /\ sent       = "none"
    /\ uplink     = << >>
    /\ downlink   = << >>
    /\ at         = "Idle"
    /\ goal       = "get_fss_hk"
    /\ command    = NOOP_CC
    /\ expected   = 0
    /\ attempts   = 0
    /\ tlm        = ZeroHk
    /\ verdict    = "none"
    /\ calls      = 0
    /\ accepted   = 0
    /\ astray     = FALSE
-------------------------------------------------------------------------------
\* The library.  A script calls one function at a time.

Calls(function) ==
    /\ at = "Idle"
    /\ calls < MaxCalls
    /\ calls'    = calls + 1
    /\ goal'     = function
    /\ verdict'  = "none"
    /\ UNCHANGED <<appVars, downlink, attempts, tlm, history>>

\* The call is over, with its local variables.
Ends(how) ==
    /\ at'       = "Idle"
    /\ verdict'  = how
    /\ goal'     = "get_fss_hk"
    /\ command'  = NOOP_CC
    /\ expected' = 0
    /\ attempts' = 0
    /\ accepted' = 0

get_fss_hk ==
    /\ Calls("get_fss_hk")
    /\ at' = "AskHk"
    /\ UNCHANGED <<uplink, command, expected>>

\* A command without confirmation, as the tests send them before get_fss_hk.
cmd(packet) ==
    /\ Calls("get_fss_hk")
    /\ at' = "AskHk"
    /\ uplink' = OnLink(uplink, packet)
    /\ UNCHANGED <<command, expected>>

\* Mutant: the wrap of the counter is forgotten.
NextCount_Unwrapped == tlm.CommandCount + 1

\* One more than the count last received, which wraps as the counter does.
NextCount == Incremented(tlm.CommandCount)

\* fss_cmd, enable_fss and disable_fss.
fss_cmd(code) ==
    /\ Calls("fss_cmd")
    /\ at'       = "Send"
    /\ command'  = code
    /\ expected' = NextCount
    /\ UNCHANGED uplink

safe_fss ==
    /\ Calls("safe_fss")
    /\ at' = "AskHk"
    /\ UNCHANGED <<uplink, command, expected>>

Send ==
    /\ at = "Send"
    /\ uplink'   = OnLink(uplink, Command(command))
    /\ attempts' = attempts + 1
    /\ at'       = "AskHk"
    /\ UNCHANGED <<appVars, downlink, goal, command, expected, tlm, verdict, calls, history>>

AskHk ==
    /\ at = "AskHk"
    /\ uplink' = OnLink(uplink, HkRequest)
    /\ at'     = "Asked"
    /\ UNCHANGED <<appVars, downlink, callVars, tlm, verdict, calls, history>>

\* Mutant: the answer is not waited for.
BeginWait_Skips ==
    /\ at = "Asked"
    /\ at' = "Answered"
    /\ UNCHANGED <<appVars, links, callVars, tlm, verdict, calls, history>>

\* wait_check_packet counts the packets that come after it has begun.
BeginWait ==
    /\ at = "Asked"
    /\ at' = "Waiting"
    /\ UNCHANGED <<appVars, links, callVars, tlm, verdict, calls, history>>

\* Mutant: the wait has no timeout.
Timeout_Never == at = "Waiting" /\ UNCHANGED vars

\* No packet within GENERIC_FSS_RESPONSE_TIMEOUT: the script ends with an error.
Timeout ==
    /\ at = "Waiting"
    /\ Ends("timeout")
    /\ astray' = TRUE
    /\ UNCHANGED <<appVars, links, tlm, calls>>
-------------------------------------------------------------------------------
\* fss_cmd after its housekeeping packet.

\* Mutant: the command is sent three times whatever the count says.
AgainIfNotCounted_Blind == attempts < MaxAttempts

AgainIfNotCounted == tlm.CommandCount # expected /\ attempts < MaxAttempts

AnswerToCommand ==
    /\ attempts > 0
    /\ at' = IF AgainIfNotCounted THEN "Send" ELSE "Check"
    /\ UNCHANGED <<callVars, verdict, accepted>>

AnswerToRequest ==
    /\ goal = "get_fss_hk"
    /\ Ends("answered")

\* safe_fss disables a component that is not DISABLED.
AnswerToSafe ==
    /\ goal = "safe_fss"
    /\ attempts = 0
    /\ IF tlm.DeviceEnabled = DEVICE_DISABLED
       THEN Ends("confirmed")
       ELSE /\ at'       = "Send"
            /\ command'  = DISABLE_CC
            /\ expected' = NextCount
            /\ UNCHANGED <<goal, attempts, verdict, accepted>>

Answered ==
    /\ at = "Answered"
    /\ AnswerToCommand \/ AnswerToRequest \/ AnswerToSafe
    /\ UNCHANGED <<appVars, links, tlm, calls, astray>>

\* Mutant: enable_fss and disable_fss trust the count.
Shows_Nothing(code) == TRUE

\* enable_fss and disable_fss confirm the state as well as the count.
Shows(code) ==
    /\ code = ENABLE_CC  => tlm.DeviceEnabled = DEVICE_ENABLED
    /\ code = DISABLE_CC => tlm.DeviceEnabled = DEVICE_DISABLED

\* Mutant: the count is not checked at the end.
CountChecks_Never == TRUE

CountChecks == tlm.CommandCount >= expected

Check ==
    /\ at = "Check"
    /\ Ends(IF CountChecks /\ Shows(command) THEN "confirmed" ELSE "failed")
    /\ UNCHANGED <<appVars, links, tlm, calls, astray>>
-------------------------------------------------------------------------------
\* The links.

\* The command link hands a packet to the Software Bus, which drops it when
\* nobody is subscribed or the pipe is full.
Deliver ==
    /\ uplink # << >>
    /\ uplink' = Tail(uplink)
    /\ \/ App!Send(Head(uplink))
       \/ /\ \/ Head(uplink).MsgId \notin subscribed
             \/ Len(pipe) >= PipeDepth
          /\ UNCHANGED appVars
    /\ UNCHANGED <<downlink, groundVars, history>>

\* Nothing is under way, and nothing is being handled.
Quiet == /\ uplink = << >> /\ downlink = << >>
         /\ pipe = << >> /\ pc # "Process"

\* A housekeeping packet arrives: the wait ends if there is one.  Before a
\* command is sent, an answer with nothing behind it puts the ground right.
Receive ==
    /\ downlink # << >>
    /\ UNCHANGED <<appVars, uplink, callVars, verdict, calls, accepted>>
    /\ downlink' = Tail(downlink)
    /\ tlm'      = Head(downlink)
    /\ at'       = IF at = "Waiting" THEN "Answered" ELSE at
    /\ astray'   = IF at = "Waiting" /\ attempts = 0 /\ Quiet' /\ tlm' = hk
                   THEN FALSE ELSE astray

Lose ==
    /\ \/ uplink # << >> /\ uplink' = Tail(uplink) /\ UNCHANGED downlink
       \/ downlink # << >> /\ downlink' = Tail(downlink) /\ UNCHANGED uplink
    /\ UNCHANGED <<appVars, groundVars, history>>
-------------------------------------------------------------------------------
\* The application.

Report ==
    /\ App!ReportHousekeeping
    /\ downlink' = OnLink(downlink, hk)
    /\ UNCHANGED <<uplink, groundVars, history>>

Fly ==
    /\ \/ App!RunLoop
       \/ App!ReceiveBuffer
       \/ App!ProcessGroundCommand
    /\ accepted' = IF attempts > 0 /\ hk'.CommandCount # hk.CommandCount
                   THEN accepted + 1 ELSE accepted
    /\ UNCHANGED <<links, groundVars, astray>>

Script ==
    \/ get_fss_hk
    \/ \E packet \in PlainCommands : cmd(packet)
    \/ \E code \in ConfirmedCommands : fss_cmd(code)
    \/ safe_fss

Library == Send \/ AskHk \/ BeginWait \/ Timeout \/ Answered \/ Check

Next == Script \/ Library \/ Deliver \/ Receive \/ Lose \/ Report \/ Fly

\* The ground's computer runs the script; no packet need ever arrive.
Spec == Init /\ [][Next]_vars /\ WF_vars(Library)
-------------------------------------------------------------------------------
TypeOK ==
    /\ App!TypeOK
    /\ uplink \in Seq(Messages)
    /\ downlink \in Seq(HkPackets)
    /\ at \in Places
    /\ goal \in {"get_fss_hk", "fss_cmd", "safe_fss"}
    /\ command \in ConfirmedCommands
    /\ expected \in Counter
    /\ attempts \in 0 .. MaxAttempts
    /\ tlm \in HkPackets
    /\ verdict \in {"none", "answered", "confirmed", "failed", "timeout"}
    /\ calls \in 0 .. MaxCalls
    /\ accepted \in Nat
    /\ astray \in BOOLEAN

(***************************************************************************)
(* As long as no wait has timed out, the ground is in step with the        *)
(* application between two calls, whatever the links lost: nothing is      *)
(* under way and the last telemetry is the application's housekeeping.  A  *)
(* loss shows as an error of the script, never as a wrong picture.         *)
(***************************************************************************)
InStep == at = "Idle" /\ ~astray => Quiet /\ tlm = hk

(***************************************************************************)
(* A call that begins in step never has its command executed twice, for    *)
(* all its retries: only an answer that came late can do that.             *)
(***************************************************************************)
AtMostOnce == attempts > 0 /\ ~astray => accepted <= 1

(***************************************************************************)
(* A call that begins in step and is confirmed has had its command         *)
(* executed once, unless the expected count is the wrap to zero: any       *)
(* count is then good enough (see ConfirmedIncrements).                    *)
(***************************************************************************)
ConfirmedOnce ==
    [][ at = "Check" /\ verdict' = "confirmed" /\ ~astray =>
            accepted = 1 \/ expected = 0 ]_vars

(***************************************************************************)
(* enable_fss, disable_fss and safe_fss that began in step and succeeded   *)
(* leave the device as they say, the wrap of the counter included, and     *)
(* although opening and closing the device may fail.                       *)
(***************************************************************************)
Claims == IF goal = "safe_fss" THEN {"closed"}
          ELSE IF command = ENABLE_CC THEN {"open"}
          ELSE IF command = DISABLE_CC THEN {"closed"}
          ELSE {"open", "closed"}

ConfirmedDevice ==
    [][ verdict' = "confirmed" /\ verdict # "confirmed" /\ ~astray => spi \in Claims ]_vars

\* However packets fare, a call of the library ends.
CallsEnd == (at # "Idle") ~> (at = "Idle")

(***************************************************************************)
(* generic_fss_app_test.py: "NOOP, no operation but confirm correct        *)
(* counters increment".  A command that fss_cmd confirms was counted.      *)
(***************************************************************************)
ConfirmedIncrements ==
    [][ at = "Check" /\ verdict' = "confirmed" /\ ~astray => accepted > 0 ]_vars
===============================================================================
