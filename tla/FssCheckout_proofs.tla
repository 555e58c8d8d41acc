-------------------------- MODULE FssCheckout_proofs --------------------------
(***************************************************************************)
(* Theorems about the checkout program, for every set of lines, every      *)
(* number of arguments there is room for and every fault of the bus: the   *)
(* bound of the tokens, what a request follows, and what the end of the    *)
(* input does.                                                             *)
(***************************************************************************)
EXTENDS FssCheckout, TLAPS

\* A line, what strtok leaves of it, and the count of its arguments.
LEMMA TokenFacts ==
    ASSUME NEW line \in Seq(STRING)
    PROVE  /\ Left(line) \in Seq(STRING)
           /\ Left(line) = << >> <=> line = << >>
           /\ Left(Left(line)) = Left(line)
           /\ Tokens(line) \in -1 .. MAX_INPUT_TOKENS
           /\ line # << >> => /\ Len(line) > 0
                              /\ Head(Left(line)) = Head(line)
                              /\ Tokens(Left(line)) = 0
                              /\ Tokens(line) = 0 => Len(line) = 1
<1>1. Len(line) \in Nat /\ (line = << >> <=> Len(line) = 0)
  OBVIOUS
<1>2. CASE line = << >>
  BY <1>2, TokensAssumption DEF Left, Tokens
<1>3. CASE line # << >>
  <2>1. Head(line) \in STRING
    BY <1>3
  <2>2. /\ Left(line) = <<Head(line)>> /\ Left(line) \in Seq(STRING)
        /\ Len(Left(line)) = 1 /\ Head(Left(line)) = Head(line) /\ Left(line) # << >>
    BY <1>3, <2>1 DEF Left
  <2>3. Left(Left(line)) = Left(line)
    BY <2>2 DEF Left
  <2>4. /\ Tokens(Left(line)) = 0 /\ Tokens(line) \in -1 .. MAX_INPUT_TOKENS
        /\ Tokens(line) = 0 => Len(line) = 1
    BY <1>1, <1>3, <2>2, TokensAssumption DEF Tokens
  <2> QED
    BY <1>1, <1>3, <2>2, <2>3, <2>4
<1> QED
  BY <1>2, <1>3

(***************************************************************************)
(* The inductive invariant.  The buffer holds what strtok left of the last *)
(* line; a line that asked for an exit does not lead back to the prompt;   *)
(* a command that is about to be processed is the one of the last line,    *)
(* with the arguments of that line, or with none after the end of input.   *)
(***************************************************************************)
LineTyped ==
    /\ place \in Places
    /\ input_buf \in Seq(STRING)
    /\ cmd \in {CMD_UNKNOWN, CMD_HELP, CMD_EXIT, CMD_GENERIC_FSS}
    /\ num_input_tokens \in -1 .. MAX_INPUT_TOKENS
    /\ eof \in BOOLEAN
    /\ asked = NoLine \/ asked \in Seq(STRING)

NoExitPending ==
    place \in {"Prompt", "Request"} /\ asked # << >> => fss_get_command(Head(asked)) # CMD_EXIT

CommandIsAsked ==
    place = "Process" =>
        \/ asked = NoLine /\ eof
        \/ /\ asked # << >>
           /\ cmd = fss_get_command(Head(asked))
           /\ num_input_tokens = IF eof THEN 0 ELSE Tokens(asked)
           /\ eof => cmd # CMD_EXIT

LineInv ==
    /\ LineTyped
    /\ asked # NoLine => input_buf = Left(asked)
    /\ place = "Open" => asked = NoLine
    /\ NoExitPending
    /\ CommandIsAsked

LEMMA LineInit == Init => LineInv
<1> SUFFICES ASSUME Init PROVE LineInv
  OBVIOUS
<1>1. -1 \in -1 .. MAX_INPUT_TOKENS
  BY TokensAssumption
<1>2. LineTyped
  BY <1>1, LinesAssumption DEF Init, LineTyped, Places
<1> QED
  BY <1>2 DEF Init, LineInv, NoExitPending, CommandIsAsked

LEMMA CommandsAreTyped ==
    \A word : fss_get_command(word) \in {CMD_UNKNOWN, CMD_HELP, CMD_EXIT, CMD_GENERIC_FSS}
BY DEF fss_get_command

LEMMA LineStep == LineInv /\ [Next]_vars => LineInv'
<1> SUFFICES ASSUME LineInv, [Next]_vars PROVE LineInv'
  OBVIOUS
<1> USE DEF LineInv
<1>1. ASSUME NEW line \in Lines, ReadLine(line)
      PROVE  LineInv'
  <2>1. line \in Seq(STRING)
    BY LinesAssumption
  <2>2. /\ Left(line) \in Seq(STRING) /\ Tokens(line) \in -1 .. MAX_INPUT_TOKENS
    BY <2>1, TokenFacts
  <2>3. LineTyped'
    BY <1>1, <2>1, <2>2, CommandsAreTyped DEF ReadLine, Tokenize, LineTyped, Places
  <2> QED
    BY <1>1, <2>3 DEF ReadLine, Tokenize, NoExitPending, CommandIsAsked, LineTyped
<1>2. ASSUME EndOfInput \/ ReadNothing
      PROVE  LineInv'
  <2>1. /\ place = "Prompt" /\ Tokenize(input_buf) /\ asked' = asked /\ eof' = TRUE
        /\ place' \in {"Prompt", "Process"}
    BY <1>2 DEF EndOfInput, ReadNothing, Tokenize, LineTyped
  <2>2. /\ Left(input_buf) \in Seq(STRING) /\ Tokens(input_buf) \in -1 .. MAX_INPUT_TOKENS
    BY TokenFacts DEF LineTyped
  <2>3. LineTyped'
    BY <2>1, <2>2, CommandsAreTyped DEF Tokenize, LineTyped, Places
  <2>4. CASE asked = NoLine
    <3>1. fss_get_command(Head(NoLine)) # CMD_EXIT
      BY DEF NoLine, fss_get_command, CMD_EXIT, CMD_UNKNOWN
    <3> QED
      BY <2>1, <2>3, <2>4, <3>1 DEF NoExitPending, CommandIsAsked
  <2>5. CASE asked # NoLine /\ asked = << >>
    <3>1. input_buf = << >>
      BY <2>5 DEF Left
    <3> QED
      BY <2>1, <2>3, <2>5, <3>1 DEF Tokenize, NoExitPending, CommandIsAsked, Left
  <2>6. CASE asked # NoLine /\ asked # << >>
    <3>1. /\ input_buf = Left(asked) /\ input_buf # << >>
          /\ Left(input_buf) = input_buf /\ Head(input_buf) = Head(asked)
          /\ Tokens(input_buf) = 0
      BY <2>6, TokenFacts DEF LineTyped
    <3>2. fss_get_command(Head(asked)) # CMD_EXIT
      BY <2>1, <2>6 DEF NoExitPending
    <3> QED
      BY <2>1, <2>3, <2>6, <3>1, <3>2 DEF Tokenize, NoExitPending, CommandIsAsked
  <2> QED
    BY <2>4, <2>5, <2>6
<1>3. ASSUME OpenDevice
      PROVE  LineInv'
  <2>1. fss_get_command(Head(NoLine)) # CMD_EXIT
    BY DEF NoLine, fss_get_command, CMD_EXIT, CMD_UNKNOWN
  <2> QED
    BY <1>3, <2>1 DEF OpenDevice, lineVars, LineTyped, NoExitPending, CommandIsAsked, Places
<1>4. ASSUME PrintOnly \/ RefuseRequest \/ BeginRequest
      PROVE  LineInv'
  <2>1. /\ place = "Process" /\ cmd # CMD_EXIT /\ UNCHANGED lineVars
        /\ place' \in {"Prompt", "Request"}
    BY <1>4 DEF PrintOnly, RefuseRequest, BeginRequest, CMD_EXIT, CMD_HELP, CMD_UNKNOWN,
                CMD_GENERIC_FSS
  <2>2. fss_get_command(Head(NoLine)) # CMD_EXIT
    BY DEF NoLine, fss_get_command, CMD_EXIT, CMD_UNKNOWN
  <2>3. LineTyped'
    BY <2>1 DEF lineVars, LineTyped, Places
  <2>4. asked # << >> => fss_get_command(Head(asked)) # CMD_EXIT
    BY <2>1, <2>2 DEF CommandIsAsked
  <2> QED
    BY <2>1, <2>3, <2>4 DEF lineVars, NoExitPending, CommandIsAsked
<1>5. ASSUME RunRequest
      PROVE  LineInv'
  BY <1>5 DEF RunRequest, lineVars, LineTyped, NoExitPending, CommandIsAsked, Places
<1>6. ASSUME Exit \/ CloseDevice \/ UNCHANGED vars
      PROVE  LineInv'
  BY <1>6 DEF Exit, CloseDevice, vars, lineVars, LineTyped, NoExitPending, CommandIsAsked,
              Places
<1> QED
  BY <1>1, <1>2, <1>3, <1>4, <1>5, <1>6 DEF Next, Program, User

LEMMA LineInvariant == Spec => []LineInv
BY LineInit, LineStep, PTL DEF Spec
-------------------------------------------------------------------------------
\* After the end of the input the last line counts again without its
\* arguments, and is never an exit.
THEOREM InputEndRepeats == Spec => []EndOfInputRepeats
<1>1. LineInv => EndOfInputRepeats
  <2> SUFFICES ASSUME LineInv, eof, place = "Process", asked # NoLine
               PROVE  /\ Len(asked) > 0 /\ cmd # CMD_EXIT
                      /\ cmd = fss_get_command(Head(asked)) /\ num_input_tokens = 0
    BY DEF EndOfInputRepeats
  <2> QED
    BY TokenFacts DEF LineInv, LineTyped, CommandIsAsked
<1> QED
  BY <1>1, LineInvariant, PTL

\* The sensor is asked only for a line with that command alone, or, after the
\* end of the input, for the last line once more.
THEOREM RequestsFollowLines == Spec => RequestsAreAsked
<1> DEFINE follows == step = "Idle" /\ step' # "Idle" =>
              \/ asked = NoLine /\ eof
              \/ /\ Len(asked) > 0
                 /\ fss_get_command(Head(asked)) = CMD_GENERIC_FSS
                 /\ Len(asked) = 1 \/ eof
<1>1. ASSUME LineInv, BeginRequest
      PROVE  follows
  <2>1. /\ place = "Process" /\ cmd = CMD_GENERIC_FSS /\ num_input_tokens = 0
    BY <1>1 DEF BeginRequest, fss_check_number_arguments
  <2>2. fss_get_command(Head(NoLine)) # CMD_GENERIC_FSS
    BY DEF NoLine, fss_get_command, CMD_GENERIC_FSS, CMD_UNKNOWN
  <2> QED
    BY <1>1, <2>1, <2>2, TokenFacts DEF LineInv, LineTyped, CommandIsAsked
<1>2. RunRequest => step # "Idle"
  BY DEF RunRequest, Driver!Library, Driver!RequestData, Driver!CmdSelect, Driver!ReadSelect,
         Driver!Select, Driver!CmdUnselect, Driver!ReadUnselect, Driver!Unselect,
         Driver!CmdTransfer, Driver!ReadTransfer, Driver!TransferFails, Driver!Return
<1>3. [Next]_vars => BeginRequest \/ RunRequest \/ UNCHANGED step
  BY DEF Next, Program, User, OpenDevice, ReadLine, EndOfInput, ReadNothing, Tokenize,
         PrintOnly, Exit, RefuseRequest, CloseDevice, requestVars, vars
<1>4. LineInv /\ [Next]_vars => [follows]_vars
  BY <1>1, <1>2, <1>3
<1> QED
  BY <1>4, LineInvariant, PTL DEF Spec, RequestsAreAsked
-------------------------------------------------------------------------------
(***************************************************************************)
(* The types.  The library keeps its own, whatever the sensor answers; the *)
(* program opens and closes its device only.                               *)
(***************************************************************************)
LEMMA BuffersAreTyped ==
    /\ Driver!Empty \in Driver!Bytes /\ Driver!Request \in Driver!Bytes
    /\ Driver!UninitialisedBuffer \subseteq Driver!Bytes
    /\ Driver!Answers \subseteq Driver!Bytes
<1>1. Driver!ZeroReading \in Driver!Readings
  BY AnglesAssumption DEF Driver!ZeroReading, Driver!Readings
<1>2. \A kind \in {"request", "idle", "zeros", "other"}, n \in Driver!Sizes :
        Driver!Buffer(kind, n) \in Driver!Bytes
  BY <1>1 DEF Driver!Buffer, Driver!Bytes
<1>3. \A r \in Driver!Readings : Driver!Frame(r) \in Driver!Bytes
  BY DEF Driver!Frame, Driver!Bytes, Driver!Sizes
<1> QED
  BY <1>2, <1>3 DEF Driver!Answers, Driver!UninitialisedBuffer, Driver!Empty, Driver!Request,
                    Driver!Idle, Driver!Zeros, Driver!Other, Driver!Sizes

LEMMA LibraryTyped ==
    ASSUME Driver!TypeOK, Driver!Call \/ Driver!Library
    PROVE  Driver!TypeOK'
<1> USE DEF Driver!TypeOK, Driver!Steps, Driver!Works, Driver!Fails
<1>1. CASE Driver!Call
  BY <1>1 DEF Driver!Call
<1>2. CASE Driver!CmdSelect \/ Driver!ReadSelect
  BY <1>2 DEF Driver!CmdSelect, Driver!ReadSelect, Driver!Select
<1>3. CASE Driver!CmdUnselect \/ Driver!ReadUnselect
  BY <1>3 DEF Driver!CmdUnselect, Driver!ReadUnselect, Driver!Unselect
<1>4. CASE Driver!CmdTransfer \/ Driver!TransferFails
  BY <1>4, BuffersAreTyped DEF Driver!CmdTransfer, Driver!TransferFails
<1>5. ASSUME NEW answer \in Driver!Answers, Driver!ReadTransfer(answer)
      PROVE  Driver!TypeOK'
  <2>1. answer \in Driver!Bytes /\ mosi' \in Driver!Bytes
    BY <1>5, BuffersAreTyped DEF Driver!ReadTransfer
  <2> QED
    BY <1>5, <2>1 DEF Driver!ReadTransfer
<1>6. CASE Driver!Return
  <2>1. Driver!NewData \in Driver!Readings
    BY DEF Driver!NewData, Driver!Bytes
  <2> QED
    BY <1>6, <2>1, BuffersAreTyped DEF Driver!Return
<1> QED
  BY <1>1, <1>2, <1>3, <1>4, <1>5, <1>6 DEF Driver!Library, Driver!RequestData

LEMMA DriverTypeOK == Driver!TypeOK /\ [Next]_vars => Driver!TypeOK'
<1> SUFFICES ASSUME Driver!TypeOK, [Next]_vars PROVE Driver!TypeOK'
  OBVIOUS
<1>1. CASE BeginRequest \/ RunRequest
  BY <1>1, LibraryTyped DEF BeginRequest, RunRequest
<1>2. CASE OpenDevice \/ CloseDevice
  BY <1>2 DEF OpenDevice, CloseDevice, requestVars, Driver!TypeOK
<1>3. CASE ReadNothing \/ EndOfInput \/ (\E line \in Lines : ReadLine(line))
  BY <1>3 DEF ReadNothing, EndOfInput, ReadLine, Tokenize, requestVars, Driver!TypeOK
<1>4. CASE PrintOnly \/ Exit \/ RefuseRequest \/ UNCHANGED vars
  BY <1>4 DEF PrintOnly, Exit, RefuseRequest, vars, requestVars, Driver!TypeOK
<1> QED
  BY <1>1, <1>2, <1>3, <1>4 DEF Next, Program, User

\* Every variable has its type; above all, the tokens never outgrow the array
\* they are stored in, however long the line.
THEOREM TypeCorrect == Spec => []TypeOK
<1>1. Init => Driver!TypeOK
  BY BuffersAreTyped, AnglesAssumption
     DEF Init, Driver!Init, Driver!TypeOK, Driver!Steps, Driver!ZeroReading, Driver!Readings
<1>2. LineInv /\ Driver!TypeOK => TypeOK
  BY DEF LineInv, LineTyped, TypeOK
<1> QED
  BY <1>1, <1>2, DriverTypeOK, LineInvariant, PTL DEF Spec
===============================================================================
