------------------------------- MODULE AdcLtc2311 -------------------------------
(***************************************************************************)
(* The driver of the LTC2311 converters against the clocks of its IP core: *)
(* power modes, trigger modes, updates of the parameters and the software  *)
(* reset.  An action of the driver is one access to the registers, with    *)
(* the statements up to the next one.                                      *)
(***************************************************************************)
EXTENDS AdcLtc2311Core

CONSTANTS
    Calls,          \* the functions the application calls
    MaxAttempts,    \* the values of max_attempts
    Tested,         \* the masters all_masked_bits_set_in_value looks at
    Initialised     \* the masters mz_adcLtc2311_init sets the parameters of

PowerCalls == {"enter", "leave"} \X {"nap", "sleep"}
TriggerModes == {"pl_trigger", "software_trigger", "continuous_trigger"}
AllCalls == PowerCalls \union ({"update"} \X Parameters)
            \union ({"change_trigger_mode"} \X TriggerModes)
            \union ({"software"} \X {"trigger", "reset"})

ASSUME AdcAssumption ==
    /\ Calls \subseteq AllCalls
    /\ MaxAttempts \subseteq Nat
    /\ Tested \subseteq Master /\ Initialised \subseteq Master

VARIABLES
    powered_down,    \* napping_spi_masters and sleeping_spi_masters
    master_select, max_attempts,
    call, pc,        \* the function called last and its next access
    write,           \* what the next write to the control register changes
    cr,              \* the control register as it was read
    attempts,        \* polls left
    line,            \* the next write of the pulses
    return_value,    \* MZ_SUCCESS, or MZ_FAILURE with this bit of error_code
    clocked,         \* the core had a clock since the last access
    forgotten,       \* history: masters a reset found powered down, not yet woken by a call
    disturbed        \* history: masters whose pulses something came between

config == <<powered_down, master_select, max_attempts>>
locals == <<call, write, cr, attempts, line, return_value>>
history == <<forgotten, disturbed>>
vars == <<axi, core, config, locals, pc, clocked, history>>

Modes  == {"nap", "sleep"}
Writes == {"triggered", "continuous", "software_trigger", "pl_trigger",
           "trigger", "reset", "value_valid"}
Labels == {"idle", "read_cr", "write_cr", "write_channel", "write_value", "default_lines",
           "activate", "wait_set", "lines", "available", "deactivate", "wait_reset",
           "wait_value", "return"}
Errors == {"NO_SELECTION", "ALREADY_IN_MODE", "NOT_IN_MODE",
           "MAN_MODE_EN_FAILED", "MAN_MODE_DIS_FAILED", "NO_ACKNOWLEDGEMENT"}

MaxLine == 2 * SleepPulses + 1

\* What the call is between calls
NoCall == <<"software", "reset">>

Init ==
    /\ powered_down = [mode \in Modes |-> {}]
    /\ master_select = {}
    /\ CoreInit(Initialised)
    /\ max_attempts \in MaxAttempts
    /\ call = NoCall /\ write = "reset" /\ cr = {}
    /\ attempts = 0 /\ line = 1 /\ return_value = "MZ_SUCCESS"
    /\ pc = "idle"
    /\ clocked = FALSE /\ forgotten = {} /\ disturbed = {}

-----------------------------------------------------------------------------
(* A clock of the core *)

Down == powered_down["nap"] \union powered_down["sleep"]

\* A reset makes the converters available, which the driver goes on to remember as
\* powered down, and cuts off conversions.
Clock(edges, ended) ==
    /\ clocked' = TRUE
    /\ UNCHANGED <<config, locals, pc>>
    /\ \/ Running(edges, ended) /\ UNCHANGED history
       \/ /\ Resetting(ended)
          /\ forgotten' = Down
          /\ disturbed' = disturbed \union Down \union busy

-----------------------------------------------------------------------------
(* The accesses *)

Access(from, to) ==
    /\ pc = from /\ pc' = to
    /\ clocked /\ clocked' = FALSE
    /\ UNCHANGED <<fsm, setting>>

IsPowerCall == call \in PowerCalls
Mode == call[2]

\* What a write to the control register does to the bits that were read
Written(bits, w) ==
    CASE w = "triggered"        -> bits \ {"MODE"}
      [] w = "continuous"       -> bits \union {"MODE"}
      [] w = "software_trigger" -> bits \union {"SW_TRIGGER_MODE"}
      [] w = "pl_trigger"       -> bits \ {"SW_TRIGGER_MODE"}
      [] w = "trigger"          -> bits \union {"TRIGGER"}
      [] w = "reset"            -> bits \union {"SW_RESET"}
      [] w = "value_valid"      -> bits \union {"CONV_VALUE_VALID"}

\* A control register is read and written back, here and in the steps of a call.
ReadCr ==
    /\ Access("read_cr", IF call[1] = "update" THEN "write_channel" ELSE "write_cr")
    /\ cr' = adc_cr
    /\ UNCHANGED <<axi, wrong, config, call, write, attempts, line, return_value, history>>

\* Two trigger modes are set by a second write.
SecondWrite ==
    call[1] = "change_trigger_mode" /\ call[2] # "continuous_trigger" /\ write = "triggered"

AfterWriteCr ==
    CASE SecondWrite            -> "read_cr"
      [] IsPowerCall            -> "write_channel"
      [] call[1] = "update"     -> "wait_value"
      [] OTHER                  -> "return"

WriteCr ==
    /\ Access("write_cr", AfterWriteCr)
    /\ adc_cr' = Written(cr, write)
    /\ write' = IF SecondWrite THEN call[2] ELSE write
    /\ config_value' = IF call[1] = "update" THEN call[2] ELSE config_value
    /\ cr' = {} /\ attempts' = max_attempts
    /\ UNCHANGED <<spi_cr, master_channel, adc_available, conv_value, wrong, config, call,
                   line, return_value, history>>

\* The masters the next accesses are about
WriteChannel ==
    /\ Access("write_channel", CASE IsPowerCall        -> "default_lines"
                                 [] call[1] = "update" -> "write_value"
                                 [] OTHER              -> "read_cr")
    /\ master_channel' = master_select
    /\ UNCHANGED <<adc_cr, spi_cr, adc_available, config_value, conv_value, wrong, config,
                   locals, history>>

\* From here on the selected masters are to hold the new value.
WriteValue ==
    /\ Access("write_value", "write_cr")
    /\ conv_value' = {call[2]} \X master_select
    /\ wrong' = wrong \union conv_value'
    /\ UNCHANGED <<adc_cr, spi_cr, master_channel, adc_available, config_value, config, locals, history>>

-----------------------------------------------------------------------------
(* Waiting for the core: max_attempts polls, or as many as it takes *)

Return(result) == pc' = "return" /\ return_value' = result

\* Faulty variant: the polls are not counted.
PollForEver ==
    /\ attempts # 1
    /\ UNCHANGED <<attempts, pc, return_value>>

PollAgain ==
    /\ attempts # 1
    /\ attempts' = IF attempts = 0 THEN 0 ELSE attempts - 1
    /\ pc' = pc
    /\ UNCHANGED return_value

GiveUp(error) == attempts = 1 /\ attempts' = 0 /\ Return(error)

Poll(from) ==
    /\ pc = from
    /\ clocked /\ clocked' = FALSE
    /\ UNCHANGED <<core, axi, config, call, write, cr>>

wait_for_value_acknowledgement ==
    /\ Poll("wait_value")
    /\ \/ "CONV_VALUE_VALID" \in adc_cr /\ (PollAgain \/ GiveUp("NO_ACKNOWLEDGEMENT"))
       \/ /\ "CONV_VALUE_VALID" \notin adc_cr
          /\ Return("MZ_SUCCESS")
          /\ attempts' = 0
    /\ UNCHANGED <<line, history>>

\* Faulty variant: the pulses are sent although the core did not answer.
CarriesOn ==
    /\ Poll("wait_set")
    /\ pc' = "lines" /\ attempts' = 0 /\ line' = 1
    /\ disturbed' = disturbed \union (busy \intersect master_select)
    /\ UNCHANGED <<return_value, forgotten>>

wait_for_control_set_acknowledgement ==
    /\ Poll("wait_set")
    /\ \/ /\ "CONTROL_STATUS" \notin spi_cr
          /\ PollAgain \/ GiveUp("MAN_MODE_EN_FAILED")
          /\ UNCHANGED disturbed
       \/ /\ "CONTROL_STATUS" \in spi_cr
          /\ pc' = "lines"
          /\ disturbed' = disturbed \union (busy \intersect master_select)
          /\ attempts' = 0
          /\ UNCHANGED return_value
    /\ line' = 1
    /\ UNCHANGED forgotten

\* Faulty variant: the first poll is the last, whatever it reads.
NotAwaited ==
    /\ Poll("wait_reset")
    /\ Return("MZ_SUCCESS") /\ attempts' = 0
    /\ UNCHANGED <<line, history>>

wait_for_control_reset_acknowledgement ==
    /\ Poll("wait_reset")
    /\ \/ "CONTROL_STATUS" \in spi_cr /\ (PollAgain \/ GiveUp("MAN_MODE_DIS_FAILED"))
       \/ /\ "CONTROL_STATUS" \notin spi_cr
          /\ Return("MZ_SUCCESS")
          /\ attempts' = 0
    /\ UNCHANGED <<line, history>>

-----------------------------------------------------------------------------
(* Manual operation *)

WriteSpi(from, to, bits) ==
    /\ Access(from, to)
    /\ spi_cr' = bits
    /\ UNCHANGED <<adc_cr, master_channel, adc_available, config_value, conv_value, wrong,
                   config, call, write, cr, return_value, history>>

prepare_manual_operation ==
    \/ WriteSpi("default_lines", "activate", spi_cr \union {"SS_N", "SCLK"})
       /\ UNCHANGED <<line, attempts>>
    \/ WriteSpi("activate", "wait_set", spi_cr \union {"CONTROL"})
       /\ line' = line /\ attempts' = max_attempts

\* Faulty variant: a pulse too few.
LineWritesShort ==
    CASE call = <<"enter", "nap">>   -> 2 * NapPulses - 1
      [] call = <<"enter", "sleep">> -> 2 * SleepPulses - 1
      [] OTHER                       -> 2

\* How often the call writes the lines: twice for each pulse, starting and ending high
LineWrites ==
    CASE call = <<"enter", "nap">>   -> 2 * NapPulses + 1
      [] call = <<"enter", "sleep">> -> 2 * SleepPulses + 1
      [] OTHER                       -> 2

Line == IF call = <<"leave", "nap">> THEN "SCLK" ELSE "SS_N"

IsLow(n) == IF call[1] = "enter" THEN n % 2 = 0 ELSE n = 1

WriteLine ==
    LET last == line >= LineWrites
    IN  /\ WriteSpi("lines", IF last THEN "available" ELSE "lines",
                    IF IsLow(line) THEN spi_cr \ {Line} ELSE spi_cr \union {Line})
        /\ line' = IF last THEN 1 ELSE line + 1
        /\ UNCHANGED attempts

\* The masters are remembered, and the core told, in this order.
WriteAvailable ==
    /\ Access("available", "deactivate")
    /\ \/ /\ call[1] = "enter"
          /\ powered_down' = [powered_down EXCEPT ![Mode] = @ \union master_select]
          /\ adc_available' = adc_available \ master_select
          /\ UNCHANGED forgotten
       \/ /\ call[1] = "leave"
          /\ powered_down' = [powered_down EXCEPT ![Mode] = @ \ master_select]
          /\ adc_available' = adc_available \union master_select
          /\ forgotten' = forgotten \ master_select
    /\ UNCHANGED <<adc_cr, spi_cr, master_channel, config_value, conv_value, wrong,
                   master_select, max_attempts, locals, disturbed>>

disable_manual_mode ==
    /\ WriteSpi("deactivate", "wait_reset", spi_cr \ {"CONTROL"})
    /\ line' = line /\ attempts' = max_attempts

-----------------------------------------------------------------------------
(* The calls *)

InOtherMode(mode, masters) ==
    masters \intersect powered_down[CHOOSE m \in Modes : m # mode]

all_masked_bits_set_in_value(value, mask) == mask \intersect Tested \subseteq value

\* Faulty variant: a master may enter a mode while it is in the other one.
RefusesOwnMode(c, masters, error) ==
    \/ error = "NO_SELECTION" /\ masters = {}
    \/ /\ error = "ALREADY_IN_MODE" /\ c[1] = "enter"
       /\ masters \intersect powered_down[c[2]] # {}
    \/ /\ error = "NOT_IN_MODE" /\ c[1] = "leave" /\ masters # {}
       /\ ~all_masked_bits_set_in_value(powered_down[c[2]], masters)

\* Why a call refuses the selected masters
Refuses(c, masters, error) ==
    \/ error = "NO_SELECTION" /\ masters = {}
    \/ /\ error = "ALREADY_IN_MODE" /\ c[1] = "enter"
       /\ masters \intersect (powered_down["nap"] \union powered_down["sleep"]) # {}
    \/ /\ error = "NOT_IN_MODE" /\ c[1] = "leave" /\ masters # {}
       /\ \/ InOtherMode(c[2], masters) # {}
          \/ ~all_masked_bits_set_in_value(powered_down[c[2]], masters)

Begin(c, masters) ==
    /\ pc = "idle"
    /\ call' = c /\ master_select' = masters
    /\ UNCHANGED <<axi, core, powered_down, max_attempts, cr, attempts, line, clocked, history>>

PowerCall(c, masters) ==
    /\ c \in PowerCalls
    /\ Begin(c, masters)
    /\ write' = "triggered"
    /\ \/ \E error \in Errors : Refuses(c, masters, error) /\ Return(error)
       \/ /\ \A error \in Errors : ~Refuses(c, masters, error)
          /\ pc' = "read_cr"
          /\ UNCHANGED return_value

IsAboutMasters(c) == c[1] = "update" \/ c = <<"software", "trigger">>

OtherCall(c, masters) ==
    /\ c \notin PowerCalls
    /\ IsAboutMasters(c) \/ masters = {}
    /\ Begin(c, masters)
    /\ pc' = IF c = <<"software", "trigger">> THEN "write_channel" ELSE "read_cr"
    /\ write' = CASE c[1] = "update" -> "value_valid"
                  [] c[1] = "software" -> c[2]
                  [] c[2] = "continuous_trigger" -> "continuous"
                  [] OTHER -> "triggered"
    /\ UNCHANGED return_value

\* The next call comes with its own selection of masters.
End ==
    /\ pc = "return" /\ pc' = "idle"
    /\ call' = NoCall /\ write' = "reset" /\ cr' = {}
    /\ attempts' = 0 /\ line' = 1 /\ return_value' = "MZ_SUCCESS"
    /\ master_select' = {}
    /\ UNCHANGED <<axi, core, powered_down, max_attempts, clocked, history>>

Begins == \E c \in Calls, masters \in SUBSET Master : PowerCall(c, masters) \/ OtherCall(c, masters)

Continues ==
    \/ ReadCr \/ WriteCr \/ WriteChannel \/ WriteValue
    \/ prepare_manual_operation \/ WriteLine \/ WriteAvailable \/ disable_manual_mode
    \/ wait_for_value_acknowledgement
    \/ wait_for_control_set_acknowledgement
    \/ wait_for_control_reset_acknowledgement
    \/ End

Clocks == \E edges, ended \in SUBSET Master : Clock(edges, ended)

Next == Clocks \/ Begins \/ Continues

Spec == Init /\ [][Next]_vars

\* The core has its clock and the processor goes on with a call; triggers, the ends of
\* conversions and calls need not come.
FairSpec == Spec /\ WF_vars(Clocks) /\ WF_vars(Continues)

-----------------------------------------------------------------------------
(* Properties *)

\* Type invariant of the driver and of the core (mz_adcLtc2311_config_t, the locals
\* of the calls and the registers).
TypeOK ==
    /\ CoreTypeOK
    /\ powered_down \in [Modes -> SUBSET Master]
    /\ master_select \subseteq Master /\ max_attempts \in Nat
    /\ call \in AllCalls /\ pc \in Labels /\ write \in Writes /\ cr \subseteq CrBits
    /\ attempts \in Nat /\ line \in 1..MaxLine
    /\ return_value \in Errors \union {"MZ_SUCCESS"}
    /\ clocked \in BOOLEAN /\ forgotten \subseteq Master /\ disturbed \subseteq Master

\* A master is remembered in one power mode at most, and it may be triggered exactly
\* when it is in none, whichever calls came before and whichever of them gave up: but
\* for the masters a software reset found powered down (the driver goes on to remember
\* them, mz_adcLtc2311.c:54, the core does not), until a call leaves their mode.
AvailableMatchesPower ==
    /\ powered_down["nap"] \intersect powered_down["sleep"] = {}
    /\ forgotten \subseteq Down
    /\ adc_available = (Master \ Down) \union forgotten

\* A master that naps or sleeps is not told to convert, which would wake it, unless a
\* software reset came after it was put to sleep.
AsleepNotStarted == enable \intersect Down \subseteq forgotten

Remembered(m) == IF m \in powered_down["nap"] THEN "nap"
                 ELSE IF m \in powered_down["sleep"] THEN "sleep" ELSE "on"

\* Between calls every converter all_masked_bits_set_in_value looks at is in the power
\* mode the driver remembers, unless a conversion came in the clock before the core
\* went to manual mode, or a software reset while it was powered down or converting.
PowerAgrees ==
    pc = "idle" => \A m \in Tested \ disturbed : Power(m) = Remembered(m)

\* A power call that succeeds leaves the core out of manual mode, with its request gone.
SuccessLeavesManual ==
    pc = "return" /\ IsPowerCall /\ return_value = "MZ_SUCCESS" =>
        /\ curstate # "SPI_MANUAL"
        /\ spi_cr \intersect {"CONTROL", "CONTROL_STATUS"} = {}

\* An update that was acknowledged has reached the parameter of every selected master.
AcknowledgedIsTaken ==
    pc = "return" /\ call[1] = "update" /\ return_value = "MZ_SUCCESS" =>
        wrong \intersect ({call[2]} \X master_select) = {}

\* What is remembered of the power modes changes only in manual mode, with no
\* conversion enabled, and only for selected masters: a call that gave up changes nothing.
RecordedOnlyInManual ==
    [][powered_down' # powered_down =>
          /\ curstate = "SPI_MANUAL" /\ enable = {}
          /\ \A mode \in Modes : (powered_down[mode] \ powered_down'[mode])
                \union (powered_down'[mode] \ powered_down[mode]) \subseteq master_channel]_vars

\* A call with a bound on its polls returns, whatever the core does.
CallEnds == max_attempts > 0 /\ pc # "idle" ~> pc = "idle"

\* "Update the offset of the indicated channels" (mz_adcLtc2311.h): between calls every
\* parameter holds the value it was last given.
UpdatesAreKept == pc = "idle" => wrong = {}

===============================================================================
