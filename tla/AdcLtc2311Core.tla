---------------------------- MODULE AdcLtc2311Core ----------------------------
(***************************************************************************)
(* The registers and the state machines of the IP core MZ_ADC_LTC2311, one *)
(* clock of its AXI clock at a time, with the converters behind it.  A     *)
(* register is the set of its bits that are 1, a vector the set of the SPI *)
(* masters whose bit is 1.                                                 *)
(***************************************************************************)
EXTENDS Integers

CONSTANTS
    Master,          \* the SPI masters of the core
    NapPulses,       \* pulses that make a converter nap, and sleep
    SleepPulses

ASSUME PulseAssumption ==
    NapPulses \in Nat /\ SleepPulses \in Nat /\ 0 < NapPulses /\ NapPulses < SleepPulses

\* What the configuration value can be
Parameters == {"conversion_factor", "offset", "samples", "sample_time"}

\* The parameters the core keeps: one of each kind for each master (the channels of
\* a master are not told apart).
Settings == Parameters \X Master

VARIABLES
    adc_cr,          \* control register
    spi_cr,          \* SPI control register
    master_channel,  \* which masters the registers are about
    adc_available,   \* which masters may be triggered
    config_value,    \* the field CONFIG_VALUE of the control register: what the value is
    conv_value,      \* the settings the content of the value register was written for
    curstate,
    adc_cr_in,       \* S_ADC_CR_IN: a 0 clears the bit of adc_cr
    enable,          \* S_ENABLE: masters told to convert
    spi_manual,      \* S_SPI_MANUAL: masters told to follow the SPI control register
    busy,            \* masters whose controller is not idle
    manual,          \* masters that do follow the SPI control register
    ss_low, sclk_low,  \* masters that follow it and whose line it holds low
    setting,         \* S_SET_...: settings that take the content of the value register
    wrong,           \* settings that do not hold the value last requested for them
    pulses           \* for each converter: SS_N pulses without SCLK since it last woke

axi   == <<adc_cr, spi_cr, master_channel, adc_available, config_value, conv_value>>
fsm   == <<curstate, adc_cr_in, enable, spi_manual, busy, manual, ss_low, sclk_low, pulses>>
core  == <<fsm, setting, wrong>>

Handshakes == {"TRIGGER", "CONV_VALUE_VALID"}
CrBits     == {"MODE", "SW_TRIGGER_MODE", "SW_RESET"} \union Handshakes
SpiCrBits  == {"CONTROL", "CONTROL_STATUS", "SS_N", "SCLK"}
States     == {"TRIGGERED", "CONTINUOUS", "SPI_MANUAL"}

CoreTypeOK ==
    /\ adc_cr \subseteq CrBits /\ spi_cr \subseteq SpiCrBits
    /\ adc_cr_in \subseteq Handshakes
    /\ curstate \in States
    /\ {master_channel, adc_available, enable, spi_manual, busy, manual, ss_low, sclk_low}
           \subseteq SUBSET Master
    /\ config_value \in Parameters
    /\ {conv_value, setting, wrong} \subseteq SUBSET Settings
    /\ pulses \in [Master -> 0..SleepPulses]

\* After mz_adcLtc2311_init for the given masters, which ends with the sample time.
CoreInit(masters) ==
    /\ adc_cr = {} /\ spi_cr = {} /\ master_channel = masters /\ adc_available = Master
    /\ config_value = "sample_time" /\ conv_value = {"sample_time"} \X masters
    /\ curstate = "TRIGGERED" /\ adc_cr_in = Handshakes
    /\ enable = {} /\ spi_manual = {} /\ busy = {} /\ manual = {}
    /\ ss_low = {} /\ sclk_low = {}
    /\ setting = {"sample_time"} \X masters /\ wrong = {}
    /\ pulses = [m \in Master |-> 0]

-----------------------------------------------------------------------------
(* The converters: some pulses are a nap, more a sleep; a clock ends a nap, a
   pulse a sleep. *)

Power(m) == IF pulses[m] < NapPulses THEN "on"
            ELSE IF pulses[m] < SleepPulses THEN "nap" ELSE "sleep"

\* Faulty variant: a pulse does not end a sleep.
PulseInSleep(n) == n + 1

Pulse(n)   == IF n = SleepPulses THEN 0 ELSE n + 1
ClockOf(n) == IF n = SleepPulses THEN n ELSE 0

-----------------------------------------------------------------------------
(* The core *)

IsBusy(masters) == busy \intersect masters # {}

\* Manual mode is entered from triggered mode, by masters that do not convert.
nxtstate ==
    IF /\ "CONTROL" \in spi_cr
       /\ \/ curstate = "SPI_MANUAL"
          \/ curstate = "TRIGGERED" /\ ~IsBusy(master_channel)
    THEN "SPI_MANUAL"
    ELSE IF "MODE" \in adc_cr THEN "CONTINUOUS" ELSE "TRIGGERED"

\* The trigger of the register is taken.  Its acknowledgement is never withdrawn.
TakesTrigger ==
    /\ nxtstate = "TRIGGERED" /\ {"SW_TRIGGER_MODE", "TRIGGER"} \subseteq adc_cr
    /\ ~IsBusy(master_channel)

\* Faulty variant: a master that is not available is triggered too.
HardwareTriggerAll(edges) ==
    /\ nxtstate = "TRIGGERED" /\ "SW_TRIGGER_MODE" \notin adc_cr
    /\ enable' = edges

\* The masters at whose pin the trigger rises
HardwareTrigger(edges) ==
    /\ nxtstate = "TRIGGERED" /\ "SW_TRIGGER_MODE" \notin adc_cr
    /\ enable' = edges \intersect adc_available

SoftwareTrigger ==
    /\ nxtstate = "TRIGGERED" /\ "SW_TRIGGER_MODE" \in adc_cr
    /\ \/ TakesTrigger /\ enable' = master_channel \intersect adc_available
       \/ "TRIGGER" \in adc_cr /\ IsBusy(master_channel) /\ enable' = enable
       \/ "TRIGGER" \notin adc_cr /\ enable' = {}

Continuous ==
    /\ nxtstate = "CONTINUOUS"
    /\ enable' = master_channel \intersect adc_available

Manual ==
    /\ nxtstate = "SPI_MANUAL"
    /\ enable' = {}

\* A controller converts when it is enabled, and ends, some clocks later, when it
\* no longer is.  It follows the SPI control register only while it is idle.
Controllers(ended) ==
    /\ ended \subseteq busy \ enable
    /\ busy' = (busy \union enable) \ ended
    /\ manual' = spi_manual \ busy'

\* The lines of the masters, as the converters see them.  A conversion is one pulse
\* with its clocks.
Converters ==
    /\ ss_low' = IF "SS_N" \in spi_cr THEN {} ELSE manual'
    /\ sclk_low' = IF "SCLK" \in spi_cr THEN {} ELSE manual'
    /\ pulses' = [m \in Master |->
                    IF m \in busy' \ busy THEN 0
                    ELSE IF m \in ss_low' \ ss_low THEN Pulse(pulses[m])
                    ELSE IF m \in sclk_low' \ sclk_low THEN ClockOf(pulses[m])
                    ELSE pulses[m]]

IsRequest == "CONV_VALUE_VALID" \in adc_cr

\* Faulty variant: a request is cleared in the clock that sees it.
RegistersAtOnce ==
    /\ adc_cr' = adc_cr \ (Handshakes \ (adc_cr_in \ {"CONV_VALUE_VALID"}))
    /\ spi_cr' = IF curstate = "SPI_MANUAL" THEN spi_cr \union {"CONTROL_STATUS"}
                                            ELSE spi_cr \ {"CONTROL_STATUS"}
    /\ UNCHANGED <<master_channel, adc_available, config_value, conv_value>>

\* What the core writes into the registers: it clears what it has seen, and shows
\* the state it was in.
Registers ==
    /\ adc_cr' = adc_cr \ (Handshakes \ adc_cr_in)
    /\ spi_cr' = IF curstate = "SPI_MANUAL" THEN spi_cr \union {"CONTROL_STATUS"}
                                            ELSE spi_cr \ {"CONTROL_STATUS"}
    /\ UNCHANGED <<master_channel, adc_available, config_value, conv_value>>

\* proc_set_conversion: a request is passed on for one clock, that of a sample time
\* for ever, because only the next one of a sample time replaces it.
Passed ==
    {s \in setting : s[1] = "sample_time" /\ (IsRequest => config_value # "sample_time")}
    \union (IF IsRequest THEN {config_value} \X master_channel ELSE {})

\* The settings that take the value: the sample time comes last.
Taken == {s \in setting : s[1] = "sample_time" =>
                            \A p \in Parameters \ {"sample_time"} : <<p, s[2]>> \notin setting}

Configuration ==
    /\ setting' = Passed
    /\ wrong' = (wrong \ Taken) \union (Taken \ conv_value)

Running(edges, ended) ==
    /\ "SW_RESET" \notin adc_cr
    /\ \/ HardwareTrigger(edges)
       \/ SoftwareTrigger
       \/ Continuous
       \/ Manual
    /\ curstate' = nxtstate
    /\ spi_manual' = IF nxtstate = "SPI_MANUAL" THEN master_channel ELSE {}
    /\ adc_cr_in' = (adc_cr_in \ (IF TakesTrigger THEN Handshakes ELSE {"CONV_VALUE_VALID"}))
                    \union ({"CONV_VALUE_VALID"} \ adc_cr)
    /\ Controllers(ended)
    /\ Converters
    /\ Configuration
    /\ Registers

\* The software reset lasts one clock: the bus registers are reset with the core, the
\* bit that asked for it included, and every master becomes available again.  What the
\* converters are in, the lines of the masters and the requests of samples and of a
\* sample time are not reset.  A conversion that is cut off may leave its converter
\* with a pulse that had no clocks yet.
Resetting(cut) ==
    /\ "SW_RESET" \in adc_cr
    /\ adc_cr' = {} /\ spi_cr' = {} /\ master_channel' = {} /\ adc_available' = Master
    /\ config_value' = "offset" /\ conv_value' = {}
    /\ curstate' = "TRIGGERED"
    /\ adc_cr_in' = Handshakes
    /\ enable' = {} /\ spi_manual' = {} /\ busy' = {}
    /\ sclk_low' = {}
    /\ UNCHANGED <<manual, ss_low>>
    /\ setting' = {s \in setting : s[1] \in {"samples", "sample_time"}}
    /\ wrong' = wrong \union {s \in Settings : s[1] # "sample_time"}
    /\ cut \subseteq busy
    /\ pulses' = [m \in Master |-> IF m \in cut THEN 1 ELSE pulses[m]]

===============================================================================
