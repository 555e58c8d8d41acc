--------------------------------- MODULE FssHk ---------------------------------
(***************************************************************************)
(* The command codes of the fine sun sensor component and its housekeeping *)
(* telemetry, the one piece of state that the cFS application keeps about  *)
(* itself and about the device, and the only one the ground sees           *)
(* (fsw/cfs/src/generic_fss_msg.h).                                        *)
(***************************************************************************)
EXTENDS Integers

CONSTANT CounterModulus     \* 2^8 in the code: the counters are uint8

ASSUME CounterModulusAssumption == CounterModulus \in Nat \ {0, 1}

NOOP_CC           == 0
RESET_COUNTERS_CC == 1
ENABLE_CC         == 2
DISABLE_CC        == 3

REQ_HK_TLM   == 0
REQ_DATA_TLM == 1

DEVICE_DISABLED == 0
DEVICE_ENABLED  == 1

Counter == 0 .. (CounterModulus - 1)

\* Mutant: a counter that does not wrap.
Incremented_Unbounded(count) == count + 1

\* The effect of ++ on a counter of the packet.
Incremented(count) == (count + 1) % CounterModulus

HkPackets == [DeviceEnabled     : {DEVICE_DISABLED, DEVICE_ENABLED},
              CommandErrorCount : Counter,
              CommandCount      : Counter,
              DeviceErrorCount  : Counter,
              DeviceCount       : Counter]

\* The application data is a global variable: all zero when the app is loaded.
ZeroHk == [DeviceEnabled     |-> DEVICE_DISABLED,
           CommandErrorCount |-> 0,
           CommandCount      |-> 0,
           DeviceErrorCount  |-> 0,
           DeviceCount       |-> 0]

\* Mutant: the command error count survives the reset.
ResetCounters_KeepsErrors(packet) ==
    [ZeroHk EXCEPT !.DeviceEnabled     = packet.DeviceEnabled,
                   !.CommandErrorCount = packet.CommandErrorCount]

ResetCounters(packet) ==
    [ZeroHk EXCEPT !.DeviceEnabled = packet.DeviceEnabled]

\* Used by the properties: how a step moves one counter.
Ticks(before, after) == after = Incremented(before)
===============================================================================
