------------------------------ MODULE FssCheckout ------------------------------
(***************************************************************************)
(* The checkout program (fsw/standalone/generic_fss_checkout.c), which     *)
(* reads lines from a terminal and calls the device library (FssDevice)    *)
(* without the flight software.                                            *)
(*                                                                         *)
(* A line is the sequence of its words, in whatever case they are typed.   *)
(* The result of fgets is not looked at: at the end of the input the loop  *)
(* goes on with what strtok has left of the line before, which is its      *)
(* first word, and before any line with an uninitialised buffer.           *)
(***************************************************************************)
EXTENDS FssWire, Sequences, Integers

CONSTANTS Lines,                \* what can be typed; blank lines are << >>
          MAX_INPUT_TOKENS,     \* the arguments there is room for
          SpiFaults,            \* as in FssDevice
          DeviceFaults          \* of spi_init_dev and spi_close_device, those that may fail

ASSUME LinesAssumption  == Lines \subseteq Seq(STRING)
ASSUME TokensAssumption == MAX_INPUT_TOKENS \in Nat \ {0}
ASSUME DeviceFaultsAssumption ==
    DeviceFaults \subseteq {"spi_init_dev", "spi_close_device"}

CMD_UNKNOWN     == -1
CMD_HELP        == 0
CMD_EXIT        == 1
CMD_GENERIC_FSS == 4

VARIABLES
    place,              \* where main is
    input_buf,          \* what strtok finds in it
    cmd,
    num_input_tokens,
    eof,                \* the input has ended
    step, status, chip, mosi, miso, data, spi,      \* the library, FSSData and FssSpi
    asked               \* history: the last line that was read

Driver == INSTANCE FssDevice

requestVars == <<step, status, chip, mosi, miso, data>>
lineVars    == <<input_buf, cmd, num_input_tokens, eof, asked>>
vars        == <<place, lineVars, requestVars, spi>>

Places == {"Open", "Prompt", "Process", "Request", "Close", "Done"}

\* No line has been read yet.
NoLine == <<"nothing">>

Init ==
    /\ place = "Open"
    /\ input_buf \in Lines
    /\ cmd = CMD_UNKNOWN
    /\ num_input_tokens = -1
    /\ eof = FALSE
    /\ Driver!Init
    /\ asked = NoLine
-------------------------------------------------------------------------------
\* The device is opened, and without it the loop is skipped.
OpenDevice ==
    /\ place = "Open"
    /\ \/ spi' = "open" /\ place' = "Prompt"
       \/ "spi_init_dev" \in DeviceFaults /\ place' = "Close" /\ UNCHANGED spi
    /\ UNCHANGED <<lineVars, requestVars>>

fss_get_command(word) ==
    CASE word = "help"         -> CMD_HELP
      [] word = "exit"         -> CMD_EXIT
      [] word \in {"fss", "f"} -> CMD_GENERIC_FSS
      [] OTHER                 -> CMD_UNKNOWN

\* Mutant: strtok does not change the buffer.
Left_Whole(line) == line

\* What strtok leaves: a NUL comes after the first word.
Left(line) == IF line = << >> THEN << >> ELSE <<Head(line)>>

\* Mutant: one token more than there is room for.
Tokens_OneMore(line) ==
    IF Len(line) - 1 <= MAX_INPUT_TOKENS THEN Len(line) - 1 ELSE MAX_INPUT_TOKENS + 1

\* num_input_tokens: the words after the command; -1 when there is no word.
Tokens(line) ==
    IF Len(line) - 1 <= MAX_INPUT_TOKENS THEN Len(line) - 1 ELSE MAX_INPUT_TOKENS

\* The line buffer is taken apart, and a blank one is passed over.
Tokenize(line) ==
    /\ num_input_tokens' = Tokens(line)
    /\ cmd'       = IF line = << >> THEN CMD_UNKNOWN ELSE fss_get_command(Head(line))
    /\ input_buf' = Left(line)
    /\ place'     = IF line = << >> THEN "Prompt" ELSE "Process"
    /\ UNCHANGED <<requestVars, spi>>

\* fgets brings a line.
ReadLine(line) ==
    /\ place = "Prompt"
    /\ ~eof
    /\ Tokenize(line)
    /\ asked' = line
    /\ UNCHANGED eof

\* fgets is at the end of the input and leaves the buffer as it is.
EndOfInput ==
    /\ place = "Prompt"
    /\ ~eof
    /\ eof' = TRUE
    /\ Tokenize(input_buf)
    /\ UNCHANGED asked

ReadNothing ==
    /\ place = "Prompt"
    /\ eof
    /\ Tokenize(input_buf)
    /\ UNCHANGED <<eof, asked>>
-------------------------------------------------------------------------------
\* fss_process_command.

\* Help, or a complaint.
PrintOnly ==
    /\ place = "Process"
    /\ cmd \in {CMD_HELP, CMD_UNKNOWN}
    /\ place' = "Prompt"
    /\ UNCHANGED <<lineVars, requestVars, spi>>

Exit ==
    /\ place = "Process"
    /\ cmd = CMD_EXIT
    /\ place' = "Close"
    /\ UNCHANGED <<lineVars, requestVars, spi>>

\* Mutant: the arguments are not looked at.
fss_check_number_arguments_Never(actual, expected) == TRUE

fss_check_number_arguments(actual, expected) == actual = expected

RefuseRequest ==
    /\ place = "Process"
    /\ cmd = CMD_GENERIC_FSS
    /\ ~fss_check_number_arguments(num_input_tokens, 0)
    /\ place' = "Prompt"
    /\ UNCHANGED <<lineVars, requestVars, spi>>

BeginRequest ==
    /\ place = "Process"
    /\ cmd = CMD_GENERIC_FSS
    /\ fss_check_number_arguments(num_input_tokens, 0)
    /\ Driver!Call
    /\ place' = "Request"
    /\ UNCHANGED lineVars

\* GENERIC_FSS_RequestData; whether it worked is only printed.
RunRequest ==
    /\ place = "Request"
    /\ Driver!Library
    /\ place' = IF step' = "Idle" THEN "Prompt" ELSE "Request"
    /\ UNCHANGED lineVars

\* After the loop the device is closed, opened or not.
CloseDevice ==
    /\ place = "Close"
    /\ place' = "Done"
    /\ \/ spi' = "closed"
       \/ "spi_close_device" \in DeviceFaults /\ UNCHANGED spi
    /\ UNCHANGED <<lineVars, requestVars>>

Program ==
    \/ OpenDevice
    \/ ReadNothing
    \/ PrintOnly \/ Exit \/ RefuseRequest \/ BeginRequest
    \/ RunRequest
    \/ CloseDevice

User == (\E line \in Lines : ReadLine(line)) \/ EndOfInput

Next == Program \/ User

\* The program runs; nobody need type anything.
Spec == Init /\ [][Next]_vars /\ WF_vars(Program)
-------------------------------------------------------------------------------
TypeOK ==
    /\ place \in Places
    /\ input_buf \in Seq(STRING)
    /\ cmd \in {CMD_UNKNOWN, CMD_HELP, CMD_EXIT, CMD_GENERIC_FSS}
    /\ num_input_tokens \in -1 .. MAX_INPUT_TOKENS
    /\ eof \in BOOLEAN
    /\ Driver!TypeOK
    /\ asked = NoLine \/ asked \in Seq(STRING)

(***************************************************************************)
(* The sensor is asked for nothing that was not typed: while there is      *)
(* input, a request follows a line with that command alone.  After the end *)
(* of the input the last line counts again, and its arguments do not, so   *)
(* that a line refused before is executed; with no line ever read, the     *)
(* buffer may hold anything.                                               *)
(***************************************************************************)
RequestsAreAsked ==
    [][ step = "Idle" /\ step' # "Idle" =>
          \/ asked = NoLine /\ eof
          \/ /\ Len(asked) > 0
             /\ fss_get_command(Head(asked)) = CMD_GENERIC_FSS
             /\ Len(asked) = 1 \/ eof ]_vars

(***************************************************************************)
(* At the end of the input the program neither stops nor takes a command   *)
(* for another: it repeats the first word of the last line, without its    *)
(* arguments, for ever.                                                    *)
(***************************************************************************)
EndOfInputRepeats ==
    eof /\ place = "Process" /\ asked # NoLine =>
        /\ Len(asked) > 0
        /\ cmd # CMD_EXIT
        /\ cmd = fss_get_command(Head(asked))
        /\ num_input_tokens = 0

(***************************************************************************)
(* However the bus fails, a line is dealt with: an exit ends the program,  *)
(* with the device told to close, and after any other the prompt returns.  *)
(***************************************************************************)
LinesAreHandled ==
    /\ (place = "Process" /\ cmd = CMD_EXIT) ~> (place = "Done")
    /\ (place = "Process" /\ cmd # CMD_EXIT) ~> (place = "Prompt")
===============================================================================
