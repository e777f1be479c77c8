---------------------------- MODULE AdcLtc2311Proofs ----------------------------
(***************************************************************************)
(* Proofs about AdcLtc2311, for any number of masters and of polls, any    *)
(* calls, and whichever masters all_masked_bits_set_in_value looks at.     *)
(***************************************************************************)
EXTENDS AdcLtc2311, TLAPS

\* Before the first access of a call (a software trigger writes the masters first)
First == pc \in {"return", "idle", "read_cr"} \/ (pc = "write_channel" /\ call[1] = "software")

\* Between the first accesses of a power call and its last
Working == {"read_cr", "write_cr", "write_channel", "default_lines", "activate", "wait_set",
            "lines", "available"}
PowerOnly == {"default_lines", "activate", "wait_set", "lines", "available", "deactivate",
              "wait_reset"}
OnChannel == {"default_lines", "activate", "wait_set", "lines", "available"}

\* The status bit shows manual mode, but for the clock in which the core leaves it.
StatusTold ==
    "CONTROL_STATUS" \in spi_cr /\ curstate # "SPI_MANUAL" =>
        \/ pc = "wait_reset"
        \/ ~clocked /\ (First \/ pc \in {"write_cr", "write_channel"})

\* Manual mode is kept as long as it is requested, and enables no conversion.
ManualKept ==
    curstate = "SPI_MANUAL" =>
        /\ "CONTROL" \notin spi_cr => pc = "wait_reset" /\ ~clocked
        /\ enable = {}

\* Only the software reset sets its bit, and the next clock clears it: no access finds
\* it set, and no call has succeeded meanwhile but the reset.
ResetBrief ==
    /\ "SW_RESET" \notin cr
    /\ write = "reset" => call[1] = "software"
    /\ "SW_RESET" \in adc_cr =>
          /\ ~clocked /\ First
          /\ pc = "return" => call[1] = "software" \/ return_value # "MZ_SUCCESS"

\* The pulses are sent in manual mode only.
PulsesInManual ==
    pc \in {"lines", "available"} => /\ curstate = "SPI_MANUAL"
                                     /\ "CONTROL" \in spi_cr

\* What the selection of a call is about while the call runs
SelectionKept ==
    /\ pc \in PowerOnly => call \in PowerCalls
    /\ pc \in {"write_value", "wait_value"} => call[1] = "update"
    /\ pc \in OnChannel => master_channel = master_select
    /\ pc \in Working /\ call[1] = "enter" => master_select \intersect Down = {}
    /\ pc \in Working /\ call[1] = "leave" => InOtherMode(call[2], master_select) = {}

ControlGone == pc = "wait_reset" => "CONTROL" \notin spi_cr

Control ==
    StatusTold /\ ManualKept /\ ResetBrief /\ PulsesInManual /\ ControlGone /\ SuccessLeavesManual

IInv == Control /\ SelectionKept /\ AvailableMatchesPower /\ AsleepNotStarted

-----------------------------------------------------------------------------
(* Types *)

LEMMA TypeInit == Init => TypeOK
<1> SUFFICES ASSUME Init PROVE TypeOK
    OBVIOUS
<1>1. /\ "sample_time" \in Parameters /\ {"sample_time"} \X Initialised \subseteq Settings
      /\ 0 \in 0..SleepPulses /\ 1 \in 1..MaxLine
    BY AdcAssumption, PulseAssumption, SMT DEF Settings, Parameters, MaxLine
<1>2. CoreTypeOK
    BY <1>1, AdcAssumption, SMT DEF Init, CoreInit, CoreTypeOK, Handshakes, States
<1>3. NoCall \in AllCalls
    BY DEF NoCall, AllCalls
<1>4. powered_down \in [Modes -> SUBSET Master] /\ master_select \subseteq Master
    BY DEF Init
<1>5. max_attempts \in Nat /\ attempts \in Nat
    BY AdcAssumption DEF Init
<1>6. pc \in Labels /\ write \in Writes /\ return_value \in Errors \union {"MZ_SUCCESS"}
    BY DEF Init, Labels, Writes
<1> QED
    BY <1>1, <1>2, <1>3, <1>4, <1>5, <1>6 DEF Init, TypeOK

\* The converters count the pulses of a sleep.
LEMMA PulsesBounded ==
    ASSUME CoreTypeOK, Converters
    PROVE  pulses' \in [Master -> 0..SleepPulses]
<1>1. ASSUME NEW n \in 0..SleepPulses PROVE Pulse(n) \in 0..SleepPulses /\ ClockOf(n) \in 0..SleepPulses
    BY <1>1, PulseAssumption, SMT DEF Pulse, ClockOf
<1>2. 0 \in 0..SleepPulses
    BY PulseAssumption, SMT
<1> QED
    BY <1>1, <1>2 DEF Converters, CoreTypeOK

LEMMA RegistersType ==
    ASSUME CoreTypeOK, Registers
    PROVE  /\ adc_cr' \subseteq CrBits /\ spi_cr' \subseteq SpiCrBits
           /\ master_channel' \subseteq Master /\ adc_available' \subseteq Master
           /\ config_value' \in Parameters /\ conv_value' \subseteq Settings
BY SMT DEF CoreTypeOK, Registers, SpiCrBits

LEMMA ConfigurationType ==
    ASSUME CoreTypeOK, Configuration
    PROVE  setting' \subseteq Settings /\ wrong' \subseteq Settings
BY SMT DEF CoreTypeOK, Configuration, Passed, Taken, Settings

LEMMA StartsType ==
    ASSUME CoreTypeOK, NEW edges \in SUBSET Master,
           HardwareTrigger(edges) \/ SoftwareTrigger \/ Continuous \/ Manual
    PROVE  enable' \subseteq Master
BY SMT DEF CoreTypeOK, HardwareTrigger, SoftwareTrigger, Continuous, Manual

LEMMA ClockType == TypeOK /\ Clocks => TypeOK'
<1> SUFFICES ASSUME TypeOK, NEW edges \in SUBSET Master, NEW ended \in SUBSET Master,
                    Clock(edges, ended)
             PROVE  TypeOK'
    BY DEF Clocks
<1>0. CoreTypeOK
    BY DEF TypeOK
<1>1. CoreTypeOK'
    <2>1. CASE Running(edges, ended)
        <3>1. pulses' \in [Master -> 0..SleepPulses]
            BY <1>0, <2>1, PulsesBounded DEF Running
        <3>2. /\ adc_cr' \subseteq CrBits /\ spi_cr' \subseteq SpiCrBits
              /\ master_channel' \subseteq Master /\ adc_available' \subseteq Master
              /\ config_value' \in Parameters /\ conv_value' \subseteq Settings
            BY <1>0, <2>1, RegistersType DEF Running
        <3>3. setting' \subseteq Settings /\ wrong' \subseteq Settings
            BY <1>0, <2>1, ConfigurationType DEF Running
        <3>4. enable' \subseteq Master
            BY <1>0, <2>1, StartsType DEF Running
        <3>5. curstate' \in States /\ spi_manual' \subseteq Master
            BY <1>0, <2>1, SMT DEF Running, nxtstate, States, CoreTypeOK
        <3>5a. adc_cr_in' \subseteq Handshakes
            <4> DEFINE cleared == IF TakesTrigger THEN Handshakes ELSE {"CONV_VALUE_VALID"}
            <4>1. adc_cr_in' = (adc_cr_in \ cleared) \union ({"CONV_VALUE_VALID"} \ adc_cr)
                BY <2>1 DEF Running
            <4>2. {"CONV_VALUE_VALID"} \subseteq Handshakes
                BY DEF Handshakes
            <4> HIDE DEF cleared
            <4> QED
                BY <1>0, <4>1, <4>2 DEF CoreTypeOK
        <3>6. busy' \subseteq Master /\ manual' \subseteq Master
            BY <1>0, <2>1, SMT DEF Running, Controllers, CoreTypeOK
        <3>7. ss_low' \subseteq Master /\ sclk_low' \subseteq Master
            BY <3>6, <2>1, SMT DEF Running, Converters
        <3> QED
            BY <3>1, <3>2, <3>3, <3>4, <3>5, <3>5a, <3>6, <3>7 DEF CoreTypeOK
    <2>2. CASE Resetting(ended)
        <3>1. pulses' \in [Master -> 0..SleepPulses]
            <4>1. 1 \in 0..SleepPulses
                BY PulseAssumption, SMT
            <4> QED
                BY <1>0, <2>2, <4>1 DEF Resetting, CoreTypeOK
        <3>2. setting' \subseteq Settings /\ wrong' \subseteq Settings
            BY <1>0, <2>2, SMT DEF Resetting, CoreTypeOK
        <3>3. /\ config_value' \in Parameters /\ curstate' \in States
              /\ adc_cr_in' \subseteq Handshakes
            BY <2>2 DEF Resetting, Parameters, States
        <3>4. manual' \subseteq Master /\ ss_low' \subseteq Master
            BY <1>0, <2>2, SMT DEF Resetting, CoreTypeOK
        <3>5. /\ adc_cr' = {} /\ spi_cr' = {} /\ master_channel' = {} /\ adc_available' = Master
              /\ conv_value' = {} /\ enable' = {} /\ spi_manual' = {} /\ busy' = {}
              /\ sclk_low' = {}
            BY <2>2 DEF Resetting
        <3> QED
            BY <3>1, <3>2, <3>3, <3>4, <3>5, SMT DEF CoreTypeOK
    <2> QED
        BY <2>1, <2>2 DEF Clock
<1>2. forgotten' \subseteq Master /\ disturbed' \subseteq Master
    <2>1. Down \subseteq Master
        BY DEF TypeOK, Down, Modes
    <2> QED
        BY <1>0, <2>1 DEF Clock, history, TypeOK, CoreTypeOK
<1>3. clocked' = TRUE /\ UNCHANGED <<config, locals, pc>>
    BY DEF Clock
<1> QED
    BY <1>1, <1>2, <1>3 DEF TypeOK, config, locals

LEMMA CallParts ==
    ASSUME call \in AllCalls
    PROVE  /\ call \in PowerCalls => call[2] \in Modes
           /\ call[1] = "update" => call[2] \in Parameters
           /\ call[1] = "change_trigger_mode" => call[2] \in Writes \union {"continuous_trigger"}
BY SMT DEF AllCalls, PowerCalls, Modes, TriggerModes, Parameters, Writes

\* What the accesses of a call leave alone
LEMMA AccessType == TypeOK /\ SelectionKept /\ (ReadCr \/ WriteCr \/ WriteChannel \/ WriteValue) => TypeOK'
<1> SUFFICES ASSUME TypeOK, SelectionKept, ReadCr \/ WriteCr \/ WriteChannel \/ WriteValue
             PROVE  TypeOK'
    OBVIOUS
<1>1. /\ clocked' = FALSE
      /\ UNCHANGED <<fsm, setting, spi_cr, adc_available, config, call, line, return_value,
                     history>>
    BY DEF ReadCr, WriteCr, WriteChannel, WriteValue, Access, axi, locals
<1>2. /\ pc' \in Labels /\ write' \in Writes /\ cr' \subseteq CrBits /\ attempts' \in Nat
      /\ adc_cr' \subseteq CrBits /\ config_value' \in Parameters
    <2> USE DEF TypeOK, CoreTypeOK
    <2>1. CASE ReadCr
        BY <2>1 DEF ReadCr, Access, Labels, axi
    <2>2. CASE WriteCr
        <3>1. write \in Writes /\ cr \subseteq CrBits
            OBVIOUS
        <3>2. Written(cr, write) \subseteq CrBits
            BY <3>1, SMT DEF Written, Writes, CrBits, Handshakes
        <3>3. write' \in Writes /\ config_value' \in Parameters
            <4>1. /\ write' = IF SecondWrite THEN call[2] ELSE write
                  /\ config_value' = IF call[1] = "update" THEN call[2] ELSE config_value
                BY <2>2 DEF WriteCr
            <4>2. SecondWrite => call[2] \in Writes
                BY <2>2, CallParts DEF SecondWrite
            <4> QED
                BY <4>1, <4>2, CallParts
        <3>4. pc' \in Labels
            BY <2>2 DEF WriteCr, AfterWriteCr, Access, Labels
        <3> QED
            BY <2>2, <3>2, <3>3, <3>4 DEF WriteCr, config
    <2>3. CASE WriteChannel
        BY <2>3 DEF WriteChannel, Access, Labels, locals
    <2>4. CASE WriteValue
        BY <2>4 DEF WriteValue, Access, Labels, locals
    <2> QED
        BY <2>1, <2>2, <2>3, <2>4
<1>3. master_channel' \subseteq Master
    BY DEF TypeOK, CoreTypeOK, ReadCr, WriteCr, WriteChannel, WriteValue, axi
<1>4. conv_value' \subseteq Settings /\ wrong' \subseteq Settings
    <2>1. CASE WriteValue
        <3>1. call[1] = "update"
            BY <2>1 DEF WriteValue, Access, SelectionKept
        <3> QED
            BY <2>1, <3>1, CallParts, SMT DEF WriteValue, TypeOK, CoreTypeOK, Settings
    <2> QED
        BY <2>1 DEF TypeOK, CoreTypeOK, ReadCr, WriteCr, WriteChannel, axi
<1>5. CoreTypeOK'
    BY <1>1, <1>2, <1>3, <1>4, SMT DEF TypeOK, CoreTypeOK, fsm
<1> QED
    BY <1>1, <1>2, <1>5 DEF TypeOK, config, history

LEMMA WaitType ==
    TypeOK /\ (\/ wait_for_value_acknowledgement
               \/ wait_for_control_set_acknowledgement
               \/ wait_for_control_reset_acknowledgement) => TypeOK'
<1> SUFFICES ASSUME TypeOK, \/ wait_for_value_acknowledgement
                            \/ wait_for_control_set_acknowledgement
                            \/ wait_for_control_reset_acknowledgement
             PROVE  TypeOK'
    OBVIOUS
<1>1. attempts' \in Nat /\ pc' \in Labels /\ return_value' \in Errors \union {"MZ_SUCCESS"}
    BY SMT DEF TypeOK, wait_for_value_acknowledgement, wait_for_control_set_acknowledgement,
           wait_for_control_reset_acknowledgement, Poll, PollAgain, GiveUp, Return, Labels, Errors
<1>2. forgotten' \subseteq Master /\ disturbed' \subseteq Master
    BY DEF TypeOK, CoreTypeOK, wait_for_value_acknowledgement,
       wait_for_control_set_acknowledgement, wait_for_control_reset_acknowledgement, history
<1>3. line' \in 1..MaxLine
    BY PulseAssumption, SMT DEF TypeOK, wait_for_value_acknowledgement,
       wait_for_control_set_acknowledgement, wait_for_control_reset_acknowledgement, MaxLine
<1>4. /\ clocked' = FALSE
      /\ UNCHANGED <<core, axi, config, call, write, cr>>
    BY DEF wait_for_value_acknowledgement, wait_for_control_set_acknowledgement,
       wait_for_control_reset_acknowledgement, Poll
<1>5. CoreTypeOK'
    BY <1>4, SMT DEF TypeOK, CoreTypeOK, core, fsm, axi
<1> QED
    BY <1>1, <1>2, <1>3, <1>4, <1>5 DEF TypeOK, config

LEMMA ManualType ==
    TypeOK /\ (prepare_manual_operation \/ WriteLine \/ disable_manual_mode) => TypeOK'
<1> SUFFICES ASSUME TypeOK, prepare_manual_operation \/ WriteLine \/ disable_manual_mode
             PROVE  TypeOK'
    OBVIOUS
<1>1. LineWrites <= MaxLine /\ LineWrites \in Nat
    BY PulseAssumption, SMT DEF LineWrites, MaxLine
<1>2. line' \in 1..MaxLine
    <2>1. line \in 1..MaxLine /\ 1 \in 1..MaxLine
        BY PulseAssumption, SMT DEF TypeOK, MaxLine
    <2>2. CASE WriteLine
        <3> HIDE DEF MaxLine, LineWrites
        <3>1. line' = IF line >= LineWrites THEN 1 ELSE line + 1
            BY <2>2 DEF WriteLine
        <3>2. MaxLine \in Nat
            BY PulseAssumption, SMT DEF MaxLine
        <3> QED
            BY <1>1, <2>1, <3>1, <3>2, SMT
    <2> QED
        BY <2>1, <2>2 DEF prepare_manual_operation, disable_manual_mode
<1>3. attempts' \in Nat /\ pc' \in Labels
    <2>1. CASE prepare_manual_operation
        BY <2>1 DEF TypeOK, prepare_manual_operation, WriteSpi, Access, Labels
    <2>2. CASE WriteLine
        BY <2>2 DEF TypeOK, WriteLine, WriteSpi, Access, Labels
    <2>3. CASE disable_manual_mode
        BY <2>3 DEF TypeOK, disable_manual_mode, WriteSpi, Access, Labels
    <2> QED
        BY <2>1, <2>2, <2>3
<1>4. spi_cr' \subseteq SpiCrBits
    <2>1. CASE prepare_manual_operation
        <3>1. spi_cr' \subseteq spi_cr \union {"SS_N", "SCLK", "CONTROL"}
            BY <2>1 DEF prepare_manual_operation, WriteSpi
        <3> QED
            BY <3>1, SMT DEF TypeOK, CoreTypeOK, SpiCrBits
    <2>2. CASE WriteLine
        <3>1. Line \in SpiCrBits
            BY DEF Line, SpiCrBits
        <3>2. spi_cr' = IF IsLow(line) THEN spi_cr \ {Line} ELSE spi_cr \union {Line}
            BY <2>2 DEF WriteLine, WriteSpi
        <3> HIDE DEF Line, IsLow
        <3> QED
            BY <3>1, <3>2, SMT DEF TypeOK, CoreTypeOK
    <2>3. CASE disable_manual_mode
        BY <2>3, SMT DEF TypeOK, CoreTypeOK, disable_manual_mode, WriteSpi
    <2> QED
        BY <2>1, <2>2, <2>3
<1>5. /\ clocked' = FALSE
      /\ UNCHANGED <<fsm, setting, adc_cr, master_channel, adc_available, config_value, conv_value,
                     wrong, config, call, write, cr, return_value, history>>
    BY DEF prepare_manual_operation, WriteLine, disable_manual_mode, WriteSpi, Access
<1>6. CoreTypeOK'
    BY <1>4, <1>5, SMT DEF TypeOK, CoreTypeOK, fsm
<1> QED
    BY <1>2, <1>3, <1>5, <1>6 DEF TypeOK, config, history

LEMMA AvailableType == TypeOK /\ SelectionKept /\ WriteAvailable => TypeOK'
<1> SUFFICES ASSUME TypeOK, SelectionKept, WriteAvailable PROVE TypeOK'
    OBVIOUS
<1>1. call \in PowerCalls /\ Mode \in Modes
    BY CallParts, SMT DEF WriteAvailable, Access, SelectionKept, PowerOnly, TypeOK, Mode
<1>2. powered_down' \in [Modes -> SUBSET Master] /\ adc_available' \subseteq Master
    <2> HIDE DEF Mode, Modes
    <2> QED
        BY <1>1 DEF WriteAvailable, TypeOK, CoreTypeOK
<1>3. pc' \in Labels /\ forgotten' \subseteq Master
    BY DEF WriteAvailable, Access, Labels, TypeOK
<1>4. /\ clocked' = FALSE
      /\ UNCHANGED <<fsm, setting, adc_cr, spi_cr, master_channel, config_value, conv_value, wrong,
                     master_select, max_attempts, locals, disturbed>>
    BY DEF WriteAvailable, Access
<1>5. CoreTypeOK'
    BY <1>2, <1>4, SMT DEF TypeOK, CoreTypeOK, fsm
<1> QED
    BY <1>2, <1>3, <1>4, <1>5 DEF TypeOK, locals

LEMMA CallType == TypeOK /\ (Begins \/ End) => TypeOK'
<1> SUFFICES ASSUME TypeOK, Begins \/ End PROVE TypeOK'
    OBVIOUS
<1>1. UNCHANGED <<axi, core, powered_down, max_attempts, clocked, history>>
    BY DEF Begins, PowerCall, OtherCall, Begin, End
<1>2. CoreTypeOK'
    BY <1>1, SMT DEF TypeOK, CoreTypeOK, axi, core, fsm
<1> DEFINE Kept ==
      /\ master_select' \subseteq Master /\ call' \in AllCalls /\ pc' \in Labels
      /\ write' \in Writes /\ cr' \subseteq CrBits /\ attempts' \in Nat /\ line' \in 1..MaxLine
      /\ return_value' \in Errors \union {"MZ_SUCCESS"}
<1>3. Kept
    <2>1. ASSUME NEW c \in Calls, NEW masters \in SUBSET Master, PowerCall(c, masters)
          PROVE  Kept
        BY <2>1, AdcAssumption, SMT DEF TypeOK, PowerCall, Begin, Return, Labels, Writes
    <2>2. ASSUME NEW c \in Calls, NEW masters \in SUBSET Master, OtherCall(c, masters)
          PROVE  Kept
        <3>1. c \in AllCalls /\ (c[1] = "software" => c[2] \in Writes)
            BY AdcAssumption, <2>2, SMT DEF AllCalls, OtherCall, PowerCalls, TriggerModes, Writes
        <3> QED
            BY <2>2, <3>1, SMT DEF TypeOK, OtherCall, Begin, Labels, Writes
    <2>3. CASE End
        <3>1. 1 \in 1..MaxLine /\ NoCall \in AllCalls
            BY PulseAssumption, SMT DEF MaxLine, NoCall, AllCalls
        <3> QED
            BY <2>3, <3>1 DEF End, Labels, Writes
    <2> QED
        BY <2>1, <2>2, <2>3 DEF Begins
<1> QED
    BY <1>1, <1>2, <1>3 DEF TypeOK, history

LEMMA TypeStep == TypeOK /\ SelectionKept /\ [Next]_vars => TypeOK'
<1> SUFFICES ASSUME TypeOK, SelectionKept, [Next]_vars PROVE TypeOK'
    OBVIOUS
<1>1. CASE UNCHANGED vars
    BY <1>1, SMT DEF TypeOK, CoreTypeOK, vars, axi, core, fsm, config, locals, history
<1>2. CASE Next
    BY <1>2, ClockType, AccessType, WaitType, ManualType, AvailableType, CallType
       DEF Next, Continues
<1> QED
    BY <1>1, <1>2

-----------------------------------------------------------------------------
(* Manual mode *)

\* What a clock does to the requests and to the state, and the reset, which is one clock
LEMMA ClockEffect ==
    ASSUME Clocks
    PROVE  /\ UNCHANGED <<config, locals, pc>> /\ clocked' = TRUE
           /\ "SW_RESET" \notin adc_cr'
           /\ "SW_RESET" \notin adc_cr =>
                 /\ UNCHANGED <<history, master_channel, adc_available>>
                 /\ "CONTROL" \in spi_cr' <=> "CONTROL" \in spi_cr
                 /\ "CONTROL_STATUS" \in spi_cr' <=> curstate = "SPI_MANUAL"
                 /\ curstate' = "SPI_MANUAL" => "CONTROL" \in spi_cr /\ enable' = {}
                 /\ curstate = "SPI_MANUAL" /\ "CONTROL" \in spi_cr => curstate' = "SPI_MANUAL"
                 /\ enable' \subseteq enable \union adc_available
           /\ "SW_RESET" \in adc_cr =>
                 /\ forgotten' = Down /\ adc_available' = Master
                 /\ spi_cr' = {} /\ curstate' = "TRIGGERED" /\ enable' = {}
<1> PICK edges \in SUBSET Master, ended \in SUBSET Master : Clock(edges, ended)
    BY DEF Clocks
<1>1. UNCHANGED <<config, locals, pc>> /\ clocked' = TRUE
    BY DEF Clock
<1>2. CASE Running(edges, ended) /\ UNCHANGED history
    <2>1. curstate' = nxtstate /\ "SW_RESET" \notin adc_cr /\ Registers
        BY <1>2 DEF Running
    <2>2. nxtstate = "SPI_MANUAL" => "CONTROL" \in spi_cr
        BY DEF nxtstate
    <2>3. curstate = "SPI_MANUAL" /\ "CONTROL" \in spi_cr => nxtstate = "SPI_MANUAL"
        BY DEF nxtstate
    <2>4. HardwareTrigger(edges) \/ SoftwareTrigger \/ Continuous \/ Manual
        BY <1>2 DEF Running
    <2>5. nxtstate = "SPI_MANUAL" => enable' = {}
        BY <2>4 DEF HardwareTrigger, SoftwareTrigger, Continuous, Manual
    <2>6. enable' \subseteq enable \union adc_available
        BY <2>4, SMT DEF HardwareTrigger, SoftwareTrigger, Continuous, Manual
    <2>7. /\ UNCHANGED <<master_channel, adc_available>>
          /\ "CONTROL" \in spi_cr' <=> "CONTROL" \in spi_cr
          /\ "CONTROL_STATUS" \in spi_cr' <=> curstate = "SPI_MANUAL"
          /\ "SW_RESET" \in adc_cr' <=> "SW_RESET" \in adc_cr
        BY <2>1, SMT DEF Registers, Handshakes
    <2> QED
        BY <1>1, <1>2, <2>1, <2>2, <2>3, <2>5, <2>6, <2>7
<1>3. CASE Resetting(ended) /\ forgotten' = Down
    BY <1>1, <1>3 DEF Resetting
<1> QED
    BY <1>2, <1>3 DEF Clock

LEMMA ControlClock == TypeOK /\ IInv /\ Clocks => Control'
<1> SUFFICES ASSUME TypeOK, IInv, Clocks PROVE Control'
    OBVIOUS
<1> USE ClockEffect DEF IInv, Control, locals
<1>1. StatusTold'
    BY DEF StatusTold, ManualKept
<1>2. ManualKept'
    BY DEF ManualKept
<1>3. ResetBrief' /\ ControlGone'
    BY DEF ResetBrief, ControlGone
<1>4. PulsesInManual'
    BY DEF PulsesInManual, ResetBrief, First
<1>5. SuccessLeavesManual'
    BY SMT DEF SuccessLeavesManual, IsPowerCall
<1> QED
    BY <1>1, <1>2, <1>3, <1>4, <1>5

LEMMA ControlAccess ==
    TypeOK /\ IInv /\ (ReadCr \/ WriteCr \/ WriteChannel \/ WriteValue) => Control'
<1> SUFFICES ASSUME TypeOK, IInv, ReadCr \/ WriteCr \/ WriteChannel \/ WriteValue PROVE Control'
    OBVIOUS
<1>1. /\ clocked /\ clocked' = FALSE
      /\ UNCHANGED <<curstate, enable, spi_cr, call, return_value>>
    BY DEF ReadCr, WriteCr, WriteChannel, WriteValue, Access, fsm, axi, locals
<1>2. CASE ReadCr
    BY <1>1, <1>2 DEF ReadCr, Access, axi, IInv, Control, StatusTold, ManualKept, ResetBrief,
       PulsesInManual, ControlGone, SuccessLeavesManual, First
<1>3. CASE WriteCr
    <2>1. /\ pc = "write_cr" /\ pc' \in {"read_cr", "write_channel", "wait_value", "return"}
          /\ (pc' = "return" => ~IsPowerCall) /\ cr' = {}
        BY <1>3 DEF WriteCr, Access, AfterWriteCr
    <2>2. UNCHANGED <<curstate, enable, spi_cr>> /\ ~clocked'
        BY <1>1
    <2>3. ManualKept'
        BY <1>1, <2>1, <2>2 DEF IInv, Control, ManualKept
    <2>4. ResetBrief'
        <3>1. write' = IF SecondWrite THEN call[2] ELSE write
            BY <1>3 DEF WriteCr
        <3>2. SecondWrite => call[2] # "reset"
            BY DEF SecondWrite, TypeOK, AllCalls, PowerCalls, TriggerModes
        <3>3. "SW_RESET" \in adc_cr' => pc' = "return" /\ call[1] = "software"
            <4>1. "SW_RESET" \in adc_cr' => write = "reset"
                BY <1>3 DEF WriteCr, IInv, Control, ResetBrief, TypeOK, Written, Writes
            <4>2. write = "reset" => call[1] = "software"
                BY DEF IInv, Control, ResetBrief
            <4>3. call[1] = "software" => pc' = "return"
                <5>1. call[1] = "software" => call \notin PowerCalls
                    BY DEF PowerCalls
                <5> QED
                    BY <1>3, <5>1 DEF WriteCr, Access, AfterWriteCr, SecondWrite, IsPowerCall
            <4> QED
                BY <4>1, <4>2, <4>3
        <3> QED
            BY <1>1, <2>1, <3>1, <3>2, <3>3 DEF IInv, Control, ResetBrief, First
    <2> QED
        BY <1>1, <2>1, <2>3, <2>4 DEF IInv, Control, StatusTold, PulsesInManual, ControlGone,
           SuccessLeavesManual, First, IsPowerCall
<1>4. CASE WriteChannel
    <2>1. /\ pc = "write_channel" /\ pc' \in {"default_lines", "write_value", "read_cr"}
          /\ UNCHANGED <<adc_cr, cr, write>>
        BY <1>4 DEF WriteChannel, Access, locals
    <2>2. call[1] = "software" => pc' = "read_cr"
        BY <1>4 DEF WriteChannel, Access, IsPowerCall, PowerCalls
    <2> QED
        BY <1>1, <2>1, <2>2 DEF IInv, Control, StatusTold, ManualKept, ResetBrief, PulsesInManual,
           ControlGone, SuccessLeavesManual, First
<1>5. CASE WriteValue
    BY <1>1, <1>5 DEF WriteValue, Access, locals, IInv, Control, StatusTold, ManualKept,
       ResetBrief, PulsesInManual, ControlGone, SuccessLeavesManual, First
<1> QED
    BY <1>2, <1>3, <1>4, <1>5

LEMMA ControlWait ==
    TypeOK /\ IInv /\ (\/ wait_for_value_acknowledgement
                       \/ wait_for_control_set_acknowledgement
                       \/ wait_for_control_reset_acknowledgement) => Control'
<1> SUFFICES ASSUME TypeOK, IInv, \/ wait_for_value_acknowledgement
                                  \/ wait_for_control_set_acknowledgement
                                  \/ wait_for_control_reset_acknowledgement
             PROVE  Control'
    OBVIOUS
<1>1. /\ clocked /\ clocked' = FALSE
      /\ UNCHANGED <<curstate, enable, spi_cr, adc_cr, call, cr, write>>
    BY DEF wait_for_value_acknowledgement, wait_for_control_set_acknowledgement,
       wait_for_control_reset_acknowledgement, Poll, core, fsm, axi
<1>2. /\ pc \in {"wait_value", "wait_set", "wait_reset"}
      /\ pc' \in {pc, "return", "lines"}
      /\ pc' = "lines" => pc = "wait_set" /\ "CONTROL_STATUS" \in spi_cr
      /\ pc' = "return" /\ return_value' = "MZ_SUCCESS" =>
             pc = "wait_value" \/ (pc = "wait_reset" /\ "CONTROL_STATUS" \notin spi_cr)
    BY DEF wait_for_value_acknowledgement, wait_for_control_set_acknowledgement,
       wait_for_control_reset_acknowledgement, Poll, PollAgain, GiveUp, Return
<1>3. /\ curstate = "SPI_MANUAL" => "CONTROL" \in spi_cr /\ enable = {}
      /\ "SW_RESET" \notin adc_cr
    BY <1>1, <1>2 DEF IInv, Control, ManualKept, ResetBrief, First
<1>4. "CONTROL_STATUS" \in spi_cr /\ curstate # "SPI_MANUAL" => pc = "wait_reset"
    BY <1>1, <1>2 DEF IInv, Control, StatusTold, First
<1>5. StatusTold' /\ ManualKept' /\ ResetBrief' /\ ControlGone' /\ PulsesInManual'
    BY <1>1, <1>2, <1>3, <1>4
       DEF IInv, Control, StatusTold, ManualKept, ResetBrief, ControlGone, PulsesInManual, First
<1>6. SuccessLeavesManual'
    <2>1. pc = "wait_value" => ~IsPowerCall
        BY DEF IInv, SelectionKept, IsPowerCall, PowerCalls
    <2> QED
        BY <1>1, <1>2, <1>3, <2>1
           DEF IInv, Control, ControlGone, SuccessLeavesManual, IsPowerCall
<1> QED
    BY <1>5, <1>6 DEF Control

LEMMA ControlManual ==
    TypeOK /\ IInv /\ (prepare_manual_operation \/ WriteLine \/ WriteAvailable \/ disable_manual_mode)
    => Control'
<1> SUFFICES ASSUME TypeOK, IInv, \/ prepare_manual_operation \/ WriteLine
                                  \/ WriteAvailable \/ disable_manual_mode
             PROVE  Control'
    OBVIOUS
<1>1. /\ clocked /\ clocked' = FALSE
      /\ UNCHANGED <<curstate, enable, adc_cr, call, cr, write>>
    BY DEF prepare_manual_operation, WriteLine, WriteAvailable, disable_manual_mode, WriteSpi,
       Access, fsm, locals
<1>2. /\ pc \in {"default_lines", "activate", "lines", "available", "deactivate"}
      /\ pc' \in {"activate", "wait_set", "lines", "available", "deactivate", "wait_reset"}
      /\ pc' \in {"lines", "available"} => pc = "lines"
      /\ pc' = "wait_reset" <=> pc = "deactivate"
    BY DEF prepare_manual_operation, WriteLine, WriteAvailable, disable_manual_mode, WriteSpi, Access
<1>3. /\ "CONTROL_STATUS" \in spi_cr' <=> "CONTROL_STATUS" \in spi_cr
      /\ pc # "deactivate" => ("CONTROL" \in spi_cr => "CONTROL" \in spi_cr')
      /\ pc = "deactivate" => "CONTROL" \notin spi_cr'
    BY DEF prepare_manual_operation, WriteLine, WriteAvailable, disable_manual_mode, WriteSpi,
       Access, Line
<1>4. /\ curstate = "SPI_MANUAL" => "CONTROL" \in spi_cr /\ enable = {}
      /\ "SW_RESET" \notin adc_cr
    BY <1>1, <1>2 DEF IInv, Control, ManualKept, ResetBrief, First
<1>5. "CONTROL_STATUS" \in spi_cr => curstate = "SPI_MANUAL"
    BY <1>1, <1>2 DEF IInv, Control, StatusTold, First
<1> QED
    BY <1>1, <1>2, <1>3, <1>4, <1>5
       DEF IInv, Control, StatusTold, ManualKept, ResetBrief, ControlGone, PulsesInManual,
           SuccessLeavesManual, First

LEMMA ControlCall == TypeOK /\ IInv /\ (Begins \/ End) => Control'
<1> SUFFICES ASSUME TypeOK, IInv, Begins \/ End PROVE Control'
    OBVIOUS
<1>1. UNCHANGED <<curstate, enable, spi_cr, adc_cr, clocked>>
    BY DEF Begins, PowerCall, OtherCall, Begin, End, axi, core, fsm
<1> DEFINE Effect ==
      /\ pc \in {"idle", "return"}
      /\ pc' \in {"idle", "return", "read_cr", "write_channel"}
      /\ pc' = "write_channel" => call'[1] = "software"
      /\ pc' = "return" => return_value' # "MZ_SUCCESS"
      /\ cr' \in {cr, {}}
      /\ write' = "reset" => call'[1] = "software"
<1>2. Effect
    <2>1. ASSUME NEW c \in Calls, NEW masters \in SUBSET Master, PowerCall(c, masters)
          PROVE  Effect
        BY <2>1 DEF PowerCall, Begin, Return, Errors
    <2>2. ASSUME NEW c \in Calls, NEW masters \in SUBSET Master, OtherCall(c, masters)
          PROVE  Effect
        BY <2>2 DEF OtherCall, Begin
    <2>3. CASE End
        BY <2>3 DEF End, NoCall
    <2> QED
        BY <2>1, <2>2, <2>3 DEF Begins
<1> QED
    BY <1>1, <1>2 DEF IInv, Control, StatusTold, ManualKept, ResetBrief, ControlGone,
       PulsesInManual, SuccessLeavesManual, First

-----------------------------------------------------------------------------
(* The selected masters *)

LEMMA SelectionStep == TypeOK /\ IInv /\ Next => SelectionKept'
<1> SUFFICES ASSUME TypeOK, IInv, Next PROVE SelectionKept'
    OBVIOUS
<1> DEFINE Steps == {"lines", "available", "deactivate", "wait_reset"}
<1>0. SelectionKept
    BY DEF IInv
<1>1. CASE Clocks
    <2>1. pc \in OnChannel => "SW_RESET" \notin adc_cr
        BY DEF IInv, Control, ResetBrief, First, OnChannel
    <2> QED
        BY <1>0, <1>1, <2>1, ClockEffect
           DEF SelectionKept, config, locals, InOtherMode, Down
<1>2. CASE ReadCr \/ WriteCr \/ WriteValue
    <2>1. /\ UNCHANGED <<call, config, master_channel>>
          /\ pc \in {"read_cr", "write_cr", "write_value"}
          /\ pc' \in {"write_cr", "write_channel", "read_cr", "wait_value", "return"}
          /\ pc' = "wait_value" => call[1] = "update"
          /\ pc = "write_value" => pc' = "write_cr"
        BY <1>2 DEF ReadCr, WriteCr, WriteValue, Access, AfterWriteCr, axi, locals
    <2>2. pc' \in Working /\ call \in PowerCalls => pc \in Working
        BY <1>0, <2>1 DEF SelectionKept, Working, PowerCalls
    <2>3. call[1] \in {"enter", "leave"} => call \in PowerCalls
        BY DEF TypeOK, AllCalls, PowerCalls
    <2> QED
        BY <1>0, <2>1, <2>2, <2>3 DEF SelectionKept, PowerOnly, OnChannel, config, InOtherMode, Down
<1>3. CASE WriteChannel
    <2>1. /\ UNCHANGED <<call, config>> /\ master_channel' = master_select
          /\ pc = "write_channel" /\ pc' \in {"default_lines", "write_value", "read_cr"}
          /\ pc' = "default_lines" => call \in PowerCalls
          /\ pc' = "write_value" => call[1] = "update"
        BY <1>3 DEF WriteChannel, Access, locals, IsPowerCall
    <2> QED
        BY <1>0, <2>1 DEF SelectionKept, Working, PowerOnly, OnChannel, config, InOtherMode, Down
<1>4. CASE \/ wait_for_value_acknowledgement \/ wait_for_control_set_acknowledgement
           \/ wait_for_control_reset_acknowledgement
    <2>1. /\ UNCHANGED <<call, config, master_channel>>
          /\ pc \in {"wait_value", "wait_set", "wait_reset"}
          /\ pc' \in {pc, "return", "lines"}
          /\ pc' = "lines" => pc = "wait_set"
        BY <1>4 DEF wait_for_value_acknowledgement, wait_for_control_set_acknowledgement,
           wait_for_control_reset_acknowledgement, Poll, PollAgain, GiveUp, Return, axi
    <2> QED
        BY <1>0, <2>1 DEF SelectionKept, Working, PowerOnly, OnChannel, config, InOtherMode, Down
<1>5. CASE prepare_manual_operation \/ WriteLine \/ disable_manual_mode
    <2>1. /\ UNCHANGED <<call, config, master_channel>>
          /\ pc \in {"default_lines", "activate", "lines", "deactivate"}
          /\ pc' \in {"activate", "wait_set", "lines", "available", "wait_reset"}
          /\ pc = "deactivate" => pc' = "wait_reset"
        BY <1>5 DEF prepare_manual_operation, WriteLine, disable_manual_mode, WriteSpi, Access
    <2> QED
        BY <1>0, <2>1 DEF SelectionKept, Working, PowerOnly, OnChannel, config, InOtherMode, Down
<1>6. CASE WriteAvailable
    <2>1. UNCHANGED <<call, master_channel>> /\ pc = "available" /\ pc' = "deactivate"
        BY <1>6 DEF WriteAvailable, Access, locals
    <2> QED
        BY <1>0, <2>1 DEF SelectionKept, Working, PowerOnly, OnChannel
<1>7. ASSUME NEW c \in Calls, NEW masters \in SUBSET Master, PowerCall(c, masters)
      PROVE  SelectionKept'
    <2>1. /\ call' = c /\ master_select' = masters /\ UNCHANGED powered_down
          /\ pc' \in {"return", "read_cr"}
          /\ pc' = "read_cr" => \A error \in Errors : ~Refuses(c, masters, error)
        BY <1>7 DEF PowerCall, Begin, Return
    <2>2. ASSUME pc' = "read_cr", c[1] = "enter" PROVE masters \intersect Down = {}
        BY <2>1, <2>2 DEF Refuses, Errors, Down
    <2>3. ASSUME pc' = "read_cr", c[1] = "leave" PROVE InOtherMode(c[2], masters) = {}
        <3>1. ~Refuses(c, masters, "NO_SELECTION") /\ ~Refuses(c, masters, "NOT_IN_MODE")
            BY <2>1, <2>3 DEF Errors
        <3> QED
            BY <2>3, <3>1 DEF Refuses
    <2> QED
        BY <2>1, <2>2, <2>3
           DEF SelectionKept, Working, PowerOnly, OnChannel, InOtherMode, Down
<1>8. ASSUME NEW c \in Calls, NEW masters \in SUBSET Master, OtherCall(c, masters)
      PROVE  SelectionKept'
    <2>1. call' = c /\ c \in AllCalls /\ c \notin PowerCalls
          /\ pc' \in {"write_channel", "read_cr"}
        BY <1>8, AdcAssumption DEF OtherCall, Begin
    <2>2. c[1] \notin {"enter", "leave"}
        BY <2>1 DEF AllCalls, PowerCalls
    <2> QED
        BY <2>1, <2>2 DEF SelectionKept, PowerOnly, OnChannel
<1>9. CASE End
    BY <1>9 DEF End, SelectionKept, Working, PowerOnly, OnChannel
<1> QED
    BY <1>1, <1>2, <1>3, <1>4, <1>5, <1>6, <1>7, <1>8, <1>9 DEF Next, Begins, Continues

LEMMA PowerStep == TypeOK /\ IInv /\ Next => AvailableMatchesPower' /\ AsleepNotStarted'
<1> SUFFICES ASSUME TypeOK, IInv, Next PROVE AvailableMatchesPower' /\ AsleepNotStarted'
    OBVIOUS
<1> USE DEF IInv
<1>1. CASE Clocks
    <2>1. UNCHANGED powered_down
        BY <1>1, ClockEffect DEF config
    <2>2. CASE "SW_RESET" \notin adc_cr
        <3>1. /\ UNCHANGED <<forgotten, adc_available>>
              /\ enable' \subseteq enable \union adc_available
            BY <1>1, <2>2, ClockEffect DEF history
        <3> QED
            BY <2>1, <3>1 DEF AvailableMatchesPower, AsleepNotStarted, Down
    <2>3. CASE "SW_RESET" \in adc_cr
        <3>1. forgotten' = Down /\ adc_available' = Master /\ enable' = {}
            BY <1>1, <2>3, ClockEffect
        <3>2. Down \subseteq Master
            BY DEF Down, TypeOK, Modes
        <3> QED
            BY <2>1, <3>1, <3>2 DEF AvailableMatchesPower, AsleepNotStarted, Down
    <2> QED
        BY <2>2, <2>3
<1>2. CASE WriteAvailable
    <2>1. pc = "available" /\ UNCHANGED enable
        BY <1>2 DEF WriteAvailable, Access, fsm
    <2>2. enable = {}
        BY <2>1 DEF Control, PulsesInManual, ManualKept
    <2>3. call \in PowerCalls /\ Mode \in Modes
        BY <2>1, CallParts DEF SelectionKept, PowerOnly, TypeOK, Mode
    <2>4. powered_down \in [Modes -> SUBSET Master] /\ master_select \subseteq Master
        BY DEF TypeOK
    <2>5. CASE call[1] = "enter"
        <3>1. master_select \intersect Down = {}
            BY <2>1, <2>5 DEF SelectionKept, Working
        <3>2. /\ powered_down' = [powered_down EXCEPT ![Mode] = @ \union master_select]
              /\ adc_available' = adc_available \ master_select
              /\ UNCHANGED forgotten
            BY <1>2, <2>5 DEF WriteAvailable
        <3> HIDE DEF Mode
        <3>3. ASSUME Mode = "nap" PROVE AvailableMatchesPower'
            <4>1. /\ powered_down'["nap"] = powered_down["nap"] \union master_select
                  /\ powered_down'["sleep"] = powered_down["sleep"]
                BY <2>4, <3>2, <3>3 DEF Modes
            <4> QED
                BY <3>1, <3>2, <4>1 DEF AvailableMatchesPower, Down
        <3>4. ASSUME Mode = "sleep" PROVE AvailableMatchesPower'
            <4>1. /\ powered_down'["sleep"] = powered_down["sleep"] \union master_select
                  /\ powered_down'["nap"] = powered_down["nap"]
                BY <2>4, <3>2, <3>4 DEF Modes
            <4> QED
                BY <3>1, <3>2, <4>1 DEF AvailableMatchesPower, Down
        <3> QED
            BY <2>1, <2>2, <2>3, <3>3, <3>4 DEF Modes, AsleepNotStarted
    <2>6. CASE call[1] = "leave"
        <3>1. InOtherMode(Mode, master_select) = {}
            BY <2>1, <2>6 DEF SelectionKept, Working, Mode
        <3>2. /\ powered_down' = [powered_down EXCEPT ![Mode] = @ \ master_select]
              /\ adc_available' = adc_available \union master_select
              /\ forgotten' = forgotten \ master_select
            BY <1>2, <2>6 DEF WriteAvailable
        <3> HIDE DEF Mode
        <3>3. ASSUME Mode = "nap" PROVE AvailableMatchesPower'
            <4>1. (CHOOSE m \in Modes : m # "nap") = "sleep"
                BY DEF Modes
            <4>2. master_select \intersect powered_down["sleep"] = {}
                BY <3>1, <3>3, <4>1 DEF InOtherMode
            <4>3. /\ powered_down'["nap"] = powered_down["nap"] \ master_select
                  /\ powered_down'["sleep"] = powered_down["sleep"]
                BY <2>4, <3>2, <3>3 DEF Modes
            <4> QED
                BY <2>4, <3>2, <4>2, <4>3 DEF AvailableMatchesPower, Down
        <3>4. ASSUME Mode = "sleep" PROVE AvailableMatchesPower'
            <4>1. (CHOOSE m \in Modes : m # "sleep") = "nap"
                BY DEF Modes
            <4>2. master_select \intersect powered_down["nap"] = {}
                BY <3>1, <3>4, <4>1 DEF InOtherMode
            <4>3. /\ powered_down'["sleep"] = powered_down["sleep"] \ master_select
                  /\ powered_down'["nap"] = powered_down["nap"]
                BY <2>4, <3>2, <3>4 DEF Modes
            <4> QED
                BY <2>4, <3>2, <4>2, <4>3 DEF AvailableMatchesPower, Down
        <3> QED
            BY <2>1, <2>2, <2>3, <3>3, <3>4 DEF Modes, AsleepNotStarted
    <2> QED
        BY <2>3, <2>5, <2>6 DEF PowerCalls
<1>3. CASE Begins \/ (Continues /\ ~WriteAvailable)
    <2>1. UNCHANGED <<powered_down, adc_available, enable, forgotten>>
        BY <1>3 DEF Begins, PowerCall, OtherCall, Begin, Continues, ReadCr, WriteCr, WriteChannel,
           WriteValue, prepare_manual_operation, WriteLine, disable_manual_mode, WriteSpi,
           wait_for_value_acknowledgement, wait_for_control_set_acknowledgement,
           wait_for_control_reset_acknowledgement, Poll, End, Access, axi, core, fsm, config,
           history
    <2> QED
        BY <2>1 DEF AvailableMatchesPower, AsleepNotStarted, Down
<1> QED
    BY <1>1, <1>2, <1>3 DEF Next

LEMMA InvInit == Init => IInv
<1> SUFFICES ASSUME Init PROVE IInv
    OBVIOUS
<1>1. /\ pc = "idle" /\ curstate = "TRIGGERED" /\ spi_cr = {} /\ cr = {} /\ enable = {}
      /\ call[1] = "software" /\ adc_available = Master /\ adc_cr = {} /\ forgotten = {}
      /\ powered_down["nap"] = {} /\ powered_down["sleep"] = {}
    BY DEF Init, CoreInit, NoCall, Modes
<1>2. Control
    BY <1>1 DEF Control, StatusTold, ManualKept, ResetBrief, PulsesInManual, ControlGone,
       SuccessLeavesManual
<1>3. SelectionKept
    BY <1>1 DEF SelectionKept, Working, PowerOnly, OnChannel
<1>4. AvailableMatchesPower /\ AsleepNotStarted
    BY <1>1 DEF AvailableMatchesPower, AsleepNotStarted, Down
<1> QED
    BY <1>2, <1>3, <1>4 DEF IInv

LEMMA InvStep == TypeOK /\ IInv /\ [Next]_vars => IInv'
<1> SUFFICES ASSUME TypeOK, IInv, [Next]_vars PROVE IInv'
    OBVIOUS
<1>1. CASE UNCHANGED vars
    BY <1>1 DEF vars, axi, core, fsm, config, locals, history, IInv, Control, StatusTold, ManualKept,
       ResetBrief, PulsesInManual, ControlGone, SuccessLeavesManual, IsPowerCall, SelectionKept,
       InOtherMode, AvailableMatchesPower, AsleepNotStarted, Down, First
<1>2. CASE Next
    <2>1. Control'
        BY <1>2, ControlClock, ControlAccess, ControlWait, ControlManual, ControlCall
           DEF Next, Continues
    <2> QED
        BY <1>2, <2>1, SelectionStep, PowerStep DEF IInv
<1> QED
    BY <1>1, <1>2

\* The driver and the core keep their types and the inductive invariant, for any
\* masters, calls, bounds on the polls and numbers of pulses.
THEOREM InvHolds == Spec => [](TypeOK /\ IInv)
<1>1. Init => TypeOK /\ IInv
    BY TypeInit, InvInit
<1>2. TypeOK /\ IInv /\ [Next]_vars => (TypeOK /\ IInv)'
    BY TypeStep, InvStep DEF IInv
<1> QED
    BY <1>1, <1>2, PTL DEF Spec

\* Every register, local and parameter keeps its type.
THEOREM TypeCorrect == Spec => []TypeOK
BY InvHolds, PTL

\* What may be triggered and what is remembered to be awake are the same masters, but for
\* those a software reset found powered down and no call has woken since.
THEOREM AvailableIsAwake == Spec => []AvailableMatchesPower
<1>1. IInv => AvailableMatchesPower
    BY DEF IInv
<1> QED
    BY <1>1, InvHolds, PTL

\* The core never starts a conversion of a master that naps or sleeps, but of those a
\* software reset found powered down.
THEOREM AsleepIsLeftAlone == Spec => []AsleepNotStarted
<1>1. IInv => AsleepNotStarted
    BY DEF IInv
<1> QED
    BY <1>1, InvHolds, PTL

\* A power call that succeeds has left manual mode.
THEOREM ManualIsLeft == Spec => []SuccessLeavesManual
<1>1. IInv => SuccessLeavesManual
    BY DEF IInv, Control
<1> QED
    BY <1>1, InvHolds, PTL

\* Power modes are recorded in manual mode only, and of selected masters only.
THEOREM RecordsAreManual == Spec => RecordedOnlyInManual
<1> DEFINE Record ==
      powered_down' # powered_down =>
          /\ curstate = "SPI_MANUAL" /\ enable = {}
          /\ \A mode \in Modes : (powered_down[mode] \ powered_down'[mode])
                \union (powered_down'[mode] \ powered_down[mode]) \subseteq master_channel
<1>1. TypeOK /\ IInv /\ [Next]_vars => [Record]_vars
    <2> SUFFICES ASSUME TypeOK, IInv, Next, powered_down' # powered_down PROVE Record
        OBVIOUS
    <2>1. WriteAvailable
        BY ClockEffect DEF Next, Begins, PowerCall, OtherCall, Begin, Continues, ReadCr, WriteCr,
           WriteChannel, WriteValue, prepare_manual_operation, WriteLine, disable_manual_mode,
           WriteSpi, wait_for_value_acknowledgement, wait_for_control_set_acknowledgement,
           wait_for_control_reset_acknowledgement, Poll, End, config
    <2>2. pc = "available" /\ call \in PowerCalls /\ master_channel = master_select
        BY <2>1 DEF WriteAvailable, Access, IInv, SelectionKept, PowerOnly, OnChannel
    <2>3. curstate = "SPI_MANUAL" /\ enable = {}
        BY <2>2 DEF IInv, Control, PulsesInManual, ManualKept
    <2>4. \A mode \in Modes : (powered_down[mode] \ powered_down'[mode])
              \union (powered_down'[mode] \ powered_down[mode]) \subseteq master_select
        <3> HIDE DEF Mode
        <3>1. \/ powered_down' = [powered_down EXCEPT ![Mode] = @ \union master_select]
              \/ powered_down' = [powered_down EXCEPT ![Mode] = @ \ master_select]
            BY <2>1 DEF WriteAvailable
        <3> QED
            BY <3>1, SMT DEF TypeOK
    <2> QED
        BY <2>2, <2>3, <2>4
<1> QED
    BY <1>1, InvHolds, PTL DEF Spec, RecordedOnlyInManual

-----------------------------------------------------------------------------
(* The acknowledgement of an update *)

CVV == "CONV_VALUE_VALID"

\* A request stays for two clocks: one in which the core sees it and one in which it
\* clears it.  It was cleared when the next call writes the control register.
RequestSeen ==
    /\ CVV \in adc_cr =>
          \/ pc = "wait_value" /\ (CVV \in adc_cr_in => ~clocked)
          \/ First /\ ~clocked /\ CVV \notin adc_cr_in
    /\ CVV \notin adc_cr_in /\ clocked => First \/ pc = "wait_value"
    /\ CVV \notin cr

\* The settings an update is about
Updated == {call[2]} \X master_select

\* What an update has written into the registers so far
ValueWritten ==
    /\ write = "value_valid" => call[1] = "update"
    /\ call[1] = "update" =>
        /\ pc = "write_value" => master_channel = master_select
        /\ pc \in {"write_cr", "wait_value"} =>
              master_channel = master_select /\ conv_value = Updated
        /\ pc \in {"read_cr", "write_channel", "write_value", "write_cr"} =>
              write = "value_valid"
        /\ pc = "wait_value" => config_value = call[2]

\* The request of a sample time is not passed on together with another one.
OnlyLast == call[2] = "sample_time" => \A s \in setting : s[1] = "sample_time"

\* The core passes a request on in the clock that sees it, and takes the value in
\* the clock that clears it.
Acknowledging ==
    /\ pc = "wait_value" /\ CVV \in adc_cr /\ CVV \notin adc_cr_in =>
          Updated \subseteq setting /\ OnlyLast
    /\ pc = "wait_value" /\ CVV \notin adc_cr => wrong \intersect Updated = {}
    /\ pc = "return" /\ call[1] = "update" /\ return_value = "MZ_SUCCESS" =>
          conv_value = Updated /\ wrong \intersect Updated = {}

AckInv == RequestSeen /\ ValueWritten /\ Acknowledging

\* What a clock does to a request and to the settings
LEMMA ClockOfRequest ==
    ASSUME Clocks
    PROVE  /\ "SW_RESET" \notin adc_cr =>
                 /\ CVV \in adc_cr' <=> CVV \in adc_cr /\ CVV \in adc_cr_in
                 /\ CVV \in adc_cr_in' <=> CVV \notin adc_cr
                 /\ Configuration
                 /\ UNCHANGED <<master_channel, config_value, conv_value>>
           /\ "SW_RESET" \in adc_cr => CVV \notin adc_cr' /\ CVV \in adc_cr_in'
<1> PICK edges \in SUBSET Master, ended \in SUBSET Master : Clock(edges, ended)
    BY DEF Clocks
<1>1. CASE Running(edges, ended)
    <2>1. "SW_RESET" \notin adc_cr /\ Configuration /\ Registers
        BY <1>1 DEF Running
    <2>2. /\ CVV \in adc_cr' <=> CVV \in adc_cr /\ CVV \in adc_cr_in
          /\ UNCHANGED <<master_channel, config_value, conv_value>>
        BY <2>1, SMT DEF Registers, Handshakes, CVV
    <2> DEFINE cleared == IF TakesTrigger THEN Handshakes ELSE {"CONV_VALUE_VALID"}
    <2>3. adc_cr_in' = (adc_cr_in \ cleared) \union ({"CONV_VALUE_VALID"} \ adc_cr)
        BY <1>1 DEF Running
    <2>4. CVV \in cleared
        BY DEF Handshakes, CVV
    <2> HIDE DEF cleared
    <2>5. CVV \in adc_cr_in' <=> CVV \notin adc_cr
        BY <2>3, <2>4 DEF CVV
    <2> QED
        BY <2>1, <2>2, <2>5
<1>2. CASE Resetting(ended)
    BY <1>2 DEF Resetting, Handshakes, CVV
<1> QED
    BY <1>1, <1>2 DEF Clock

\* The reset finds no update under way.
LEMMA AckReset == IInv /\ AckInv /\ Clocks /\ "SW_RESET" \in adc_cr => AckInv'
<1> SUFFICES ASSUME IInv, AckInv, Clocks, "SW_RESET" \in adc_cr PROVE AckInv'
    OBVIOUS
<1>1. UNCHANGED <<pc, call, cr, write, return_value, master_select>> /\ clocked'
    BY ClockEffect DEF config, locals
<1>2. CVV \notin adc_cr' /\ CVV \in adc_cr_in'
    BY ClockOfRequest
<1>3. First /\ (pc = "return" => call[1] = "software" \/ return_value # "MZ_SUCCESS")
    BY DEF IInv, Control, ResetBrief
<1>4. RequestSeen'
    BY <1>1, <1>2 DEF AckInv, RequestSeen
<1>5. ValueWritten' /\ Acknowledging'
    BY <1>1, <1>2, <1>3 DEF AckInv, ValueWritten, Acknowledging, First
<1> QED
    BY <1>4, <1>5 DEF AckInv

\* Another clock takes a request one step further.
LEMMA AckClock == IInv /\ AckInv /\ Clocks /\ "SW_RESET" \notin adc_cr => AckInv'
<1> SUFFICES ASSUME IInv, AckInv, Clocks, "SW_RESET" \notin adc_cr PROVE AckInv'
    OBVIOUS
<1>0. UNCHANGED <<pc, call, cr, write, return_value, master_select>> /\ clocked'
    BY ClockEffect DEF config, locals
<1>1. /\ CVV \in adc_cr' <=> CVV \in adc_cr /\ CVV \in adc_cr_in
      /\ CVV \in adc_cr_in' <=> CVV \notin adc_cr
      /\ Configuration
      /\ UNCHANGED <<master_channel, config_value, conv_value>>
    BY ClockOfRequest
<1>2. RequestSeen'
    BY <1>0, <1>1 DEF AckInv, RequestSeen, First
<1>3. UNCHANGED Updated
    BY <1>0 DEF Updated
<1>4. ValueWritten'
    BY <1>0, <1>1, <1>3 DEF AckInv, ValueWritten
<1>5. ASSUME pc = "wait_value", CVV \in adc_cr', CVV \notin adc_cr_in'
      PROVE  Updated' \subseteq setting' /\ OnlyLast'
    <2>1. CVV \in adc_cr /\ CVV \in adc_cr_in /\ Configuration
        BY <1>1, <1>5
    <2>2. call[1] = "update" => config_value = call[2] /\ master_channel = master_select
        BY <1>5 DEF AckInv, ValueWritten
    <2>3. call[1] = "update"
        BY <1>5 DEF IInv, SelectionKept
    <2>4. IsRequest
        BY <2>1 DEF IsRequest, CVV
    <2>5. setting' = {s \in setting : s[1] = "sample_time" /\ config_value # "sample_time"}
                     \union Updated
        BY <2>1, <2>2, <2>3, <2>4 DEF Configuration, Passed, Updated
    <2>6. \A s \in Updated : s[1] = call[2]
        BY DEF Updated
    <2> QED
        BY <1>0, <1>3, <2>2, <2>3, <2>5, <2>6 DEF OnlyLast
<1>6. ASSUME pc = "wait_value", CVV \notin adc_cr' PROVE wrong' \intersect Updated = {}
    <2>1. wrong' = (wrong \ Taken) \union (Taken \ conv_value)
        BY <1>1 DEF Configuration
    <2>2. call[1] = "update" /\ conv_value = Updated
        BY <1>6 DEF IInv, SelectionKept, AckInv, ValueWritten
    <2>3. CASE CVV \notin adc_cr
        <3>1. wrong \intersect Updated = {}
            BY <1>6, <2>3 DEF AckInv, Acknowledging
        <3> QED
            BY <2>1, <2>2, <3>1
    <2>4. CASE CVV \in adc_cr
        <3>1. Updated \subseteq setting /\ OnlyLast
            BY <1>1, <1>6, <2>4 DEF AckInv, Acknowledging
        <3>2. \A s \in Updated : s[1] = call[2]
            BY DEF Updated
        <3>3. ASSUME NEW s \in Updated PROVE s \in Taken
            <4>1. ASSUME s[1] = "sample_time", NEW p \in Parameters \ {"sample_time"}
                  PROVE  <<p, s[2]>> \notin setting
                <5>1. <<p, s[2]>>[1] # "sample_time"
                    OBVIOUS
                <5> QED
                    BY <3>1, <3>2, <4>1, <5>1 DEF OnlyLast
            <4> QED
                BY <3>1, <4>1 DEF Taken
        <3> QED
            BY <2>1, <2>2, <3>3
    <2> QED
        BY <2>3, <2>4
<1>7. ASSUME pc = "return", call[1] = "update", return_value = "MZ_SUCCESS"
      PROVE  conv_value = Updated /\ wrong' \intersect Updated = {}
    <2>1. conv_value = Updated /\ wrong \intersect Updated = {}
        BY <1>7 DEF AckInv, Acknowledging
    <2>2. wrong' = (wrong \ Taken) \union (Taken \ conv_value)
        BY <1>1 DEF Configuration
    <2> QED
        BY <2>1, <2>2
<1>8. Acknowledging'
    BY <1>0, <1>1, <1>3, <1>5, <1>6, <1>7 DEF Acknowledging
<1> QED
    BY <1>2, <1>4, <1>8 DEF AckInv

\* An access finds no request but its own.
LEMMA AckAccess ==
    TypeOK /\ IInv /\ AckInv /\ (ReadCr \/ WriteCr \/ WriteChannel \/ WriteValue) => AckInv'
<1> SUFFICES ASSUME TypeOK, IInv, AckInv, ReadCr \/ WriteCr \/ WriteChannel \/ WriteValue
             PROVE  AckInv'
    OBVIOUS
<1>1. /\ clocked /\ clocked' = FALSE
      /\ UNCHANGED <<adc_cr_in, setting, call, master_select>>
    BY DEF ReadCr, WriteCr, WriteChannel, WriteValue, Access, fsm, axi, locals, config
<1>2. RequestSeen /\ ValueWritten
    BY DEF AckInv
<1>3. UNCHANGED Updated
    BY <1>1 DEF Updated
<1>4. CASE ReadCr
    <2>1. /\ pc = "read_cr" /\ pc' \in {"write_channel", "write_cr"} /\ cr' = adc_cr
          /\ pc' = "write_cr" => call[1] # "update"
          /\ UNCHANGED <<adc_cr, write>>
        BY <1>4 DEF ReadCr, Access, axi
    <2>2. CVV \notin adc_cr
        BY <1>1, <1>2, <2>1 DEF RequestSeen
    <2> QED
        BY <1>1, <1>2, <1>3, <2>1, <2>2 DEF AckInv, RequestSeen, ValueWritten, Acknowledging
<1>5. CASE WriteCr
    <2>1. /\ pc = "write_cr" /\ pc' = AfterWriteCr /\ adc_cr' = Written(cr, write) /\ cr' = {}
          /\ UNCHANGED <<master_channel, conv_value>>
          /\ call[1] = "update" => config_value' = call[2]
        BY <1>5 DEF WriteCr, Access
    <2>2. CVV \in adc_cr_in
        BY <1>1, <1>2, <2>1 DEF RequestSeen, First
    <2>3. CASE call[1] = "update"
        <3>1. write = "value_valid"
            BY <1>2, <2>1, <2>3 DEF ValueWritten
        <3>2. adc_cr' = cr \union {CVV}
            BY <2>1, <3>1 DEF Written, CVV
        <3>3. pc' = "wait_value"
            BY <2>1, <2>3 DEF AfterWriteCr, SecondWrite, IsPowerCall, PowerCalls
        <3>4. master_channel = master_select /\ conv_value = Updated
            BY <1>2, <2>1, <2>3 DEF ValueWritten
        <3>5. RequestSeen'
            BY <1>1, <2>1, <2>2, <3>2, <3>3 DEF RequestSeen
        <3>6. ValueWritten'
            BY <1>1, <1>3, <2>1, <2>3, <3>3, <3>4 DEF ValueWritten
        <3>7. Acknowledging'
            BY <1>1, <2>2, <3>2, <3>3 DEF Acknowledging
        <3> QED
            BY <3>5, <3>6, <3>7 DEF AckInv
    <2>4. CASE call[1] # "update"
        <3>1. pc' \in {"read_cr", "write_channel", "return"}
            BY <2>1, <2>4 DEF AfterWriteCr
        <3>2. write # "value_valid" /\ write' # "value_valid"
            <4>1. write # "value_valid"
                BY <1>2, <2>4 DEF ValueWritten
            <4>2. write' = IF SecondWrite THEN call[2] ELSE write
                BY <1>5 DEF WriteCr
            <4>3. SecondWrite => call[2] # "value_valid"
                BY DEF SecondWrite, TypeOK, AllCalls, PowerCalls, TriggerModes
            <4> QED
                BY <4>1, <4>2, <4>3
        <3>3. CVV \notin adc_cr'
            <4>1. CVV \notin cr
                BY <1>2 DEF RequestSeen
            <4>2. write \in Writes
                BY DEF TypeOK
            <4> QED
                BY <2>1, <3>2, <4>1, <4>2 DEF Written, Writes, CVV
        <3>4. RequestSeen'
            BY <1>1, <2>1, <2>2, <3>1, <3>3 DEF RequestSeen
        <3> QED
            BY <1>1, <2>4, <3>1, <3>2, <3>4 DEF AckInv, ValueWritten, Acknowledging
    <2> QED
        BY <2>3, <2>4
<1>6. CASE WriteChannel
    <2>1. /\ pc = "write_channel" /\ pc' \in {"default_lines", "write_value", "read_cr"}
          /\ call[1] = "update" => pc' = "write_value"
          /\ master_channel' = master_select
          /\ UNCHANGED <<adc_cr, cr, write>>
        BY <1>6 DEF WriteChannel, Access, locals, IsPowerCall, PowerCalls
    <2>2. RequestSeen'
        BY <1>1, <1>2, <2>1 DEF RequestSeen
    <2> QED
        BY <1>1, <1>2, <1>3, <2>1, <2>2 DEF AckInv, ValueWritten, Acknowledging
<1>7. CASE WriteValue
    <2>1. /\ pc = "write_value" /\ pc' = "write_cr" /\ conv_value' = Updated
          /\ UNCHANGED <<adc_cr, cr, write, master_channel>>
        BY <1>7 DEF WriteValue, Access, locals, Updated
    <2>2. RequestSeen'
        BY <1>1, <1>2, <2>1 DEF RequestSeen, First
    <2> QED
        BY <1>1, <1>2, <1>3, <2>1, <2>2 DEF AckInv, ValueWritten, Acknowledging
<1> QED
    BY <1>4, <1>5, <1>6, <1>7

\* A poll that finds the request gone finds the value taken.
LEMMA AckWait ==
    IInv /\ AckInv /\ (\/ wait_for_value_acknowledgement
                       \/ wait_for_control_set_acknowledgement
                       \/ wait_for_control_reset_acknowledgement) => AckInv'
<1> SUFFICES ASSUME IInv, AckInv, \/ wait_for_value_acknowledgement
                                  \/ wait_for_control_set_acknowledgement
                                  \/ wait_for_control_reset_acknowledgement
             PROVE  AckInv'
    OBVIOUS
<1>1. /\ clocked /\ clocked' = FALSE
      /\ UNCHANGED <<adc_cr, adc_cr_in, setting, wrong, master_channel, config_value, conv_value,
                     call, cr, write, master_select>>
    BY DEF wait_for_value_acknowledgement, wait_for_control_set_acknowledgement,
       wait_for_control_reset_acknowledgement, Poll, core, fsm, axi, config
<1>2. RequestSeen /\ ValueWritten /\ Acknowledging
    BY DEF AckInv
<1>3. UNCHANGED Updated /\ UNCHANGED OnlyLast
    BY <1>1 DEF Updated, OnlyLast
<1>4. CASE wait_for_value_acknowledgement
    <2>1. /\ pc = "wait_value" /\ pc' \in {"wait_value", "return"}
          /\ pc' = "return" /\ return_value' = "MZ_SUCCESS" => CVV \notin adc_cr
        BY <1>4 DEF wait_for_value_acknowledgement, Poll, PollAgain, GiveUp, Return, CVV
    <2>2. call[1] = "update"
        BY <2>1 DEF IInv, SelectionKept
    <2>3. RequestSeen'
        BY <1>1, <1>2, <2>1 DEF RequestSeen, First
    <2>4. ValueWritten'
        BY <1>1, <1>2, <1>3, <2>1 DEF ValueWritten
    <2>5. conv_value = Updated
        BY <1>2, <2>1, <2>2 DEF ValueWritten
    <2>6. Acknowledging'
        BY <1>1, <1>2, <1>3, <2>1, <2>5 DEF Acknowledging
    <2> QED
        BY <2>3, <2>4, <2>6 DEF AckInv
<1>5. CASE wait_for_control_set_acknowledgement \/ wait_for_control_reset_acknowledgement
    <2>1. /\ pc \in {"wait_set", "wait_reset"} /\ pc' \in {pc, "return", "lines"}
        BY <1>5 DEF wait_for_control_set_acknowledgement,
           wait_for_control_reset_acknowledgement, Poll, PollAgain, GiveUp, Return
    <2>2. call[1] # "update"
        BY <2>1 DEF IInv, SelectionKept, PowerOnly, PowerCalls
    <2>3. RequestSeen'
        BY <1>1, <1>2, <2>1 DEF RequestSeen, First
    <2> QED
        BY <1>1, <2>1, <2>2, <2>3 DEF AckInv, ValueWritten, Acknowledging
<1> QED
    BY <1>4, <1>5

\* Manual operation and the begin and end of a call have no part in it.
LEMMA AckOther ==
    IInv /\ AckInv /\ (\/ prepare_manual_operation \/ WriteLine \/ WriteAvailable
                       \/ disable_manual_mode \/ Begins \/ End) => AckInv'
<1> SUFFICES ASSUME IInv, AckInv, \/ prepare_manual_operation \/ WriteLine \/ WriteAvailable
                                  \/ disable_manual_mode \/ Begins \/ End
             PROVE  AckInv'
    OBVIOUS
<1>1. RequestSeen /\ ValueWritten /\ Acknowledging
    BY DEF AckInv
<1>2. CASE prepare_manual_operation \/ WriteLine \/ WriteAvailable \/ disable_manual_mode
    <2>1. /\ clocked' = FALSE
          /\ UNCHANGED <<adc_cr, adc_cr_in, cr, call, write>>
          /\ pc \in PowerOnly /\ pc' \in PowerOnly
        BY <1>2 DEF prepare_manual_operation, WriteLine, WriteAvailable, disable_manual_mode,
           WriteSpi, Access, fsm, locals, PowerOnly
    <2>2. call[1] # "update"
        BY <2>1 DEF IInv, SelectionKept, PowerCalls
    <2>3. RequestSeen'
        BY <1>1, <2>1 DEF RequestSeen, First, PowerOnly
    <2> QED
        BY <2>1, <2>2, <2>3 DEF AckInv, ValueWritten, Acknowledging, PowerOnly
<1>3. CASE Begins \/ End
    <2> DEFINE Effect ==
          /\ pc \in {"idle", "return"}
          /\ pc' \in {"idle", "return", "read_cr", "write_channel"}
          /\ pc' = "write_channel" => call'[1] = "software"
          /\ pc' = "return" => call'[1] # "update"
          /\ write' = "value_valid" => call'[1] = "update"
          /\ pc' \in {"read_cr", "write_channel"} /\ call'[1] = "update" => write' = "value_valid"
          /\ cr' \in {cr, {}}
    <2>1. UNCHANGED <<adc_cr, adc_cr_in, clocked>>
        BY <1>3 DEF Begins, PowerCall, OtherCall, Begin, End, axi, core, fsm
    <2>2. Effect
        <3>1. ASSUME NEW c \in Calls, NEW masters \in SUBSET Master, PowerCall(c, masters)
              PROVE  Effect
            BY <3>1 DEF PowerCall, Begin, Return, PowerCalls
        <3>2. ASSUME NEW c \in Calls, NEW masters \in SUBSET Master, OtherCall(c, masters)
              PROVE  Effect
            <4>1. c \in AllCalls /\ c[1] \in {"update", "software", "change_trigger_mode"}
                BY <3>2, AdcAssumption DEF AllCalls, PowerCalls, OtherCall
            <4>2. /\ c[1] = "software" => c[2] # "value_valid"
                  /\ c[2] = "continuous_trigger" => c[1] = "change_trigger_mode"
                BY <4>1 DEF AllCalls, PowerCalls, TriggerModes, Parameters
            <4>3. write' = CASE c[1] = "update" -> "value_valid"
                             [] c[1] = "software" -> c[2]
                             [] c[2] = "continuous_trigger" -> "continuous"
                             [] OTHER -> "triggered"
                BY <3>2 DEF OtherCall
            <4>4. c[1] = "update" <=> write' = "value_valid"
                <5>1. CASE c[1] = "update"
                    <6>1. c[1] # "software" /\ c[2] # "continuous_trigger"
                        BY <4>2, <5>1
                    <6>2. write' = "value_valid"
                        BY <4>3, <5>1, <6>1
                    <6> QED
                        BY <5>1, <6>2
                <5>2. CASE c[1] = "software"
                    <6>1. c[1] # "update" /\ c[2] # "continuous_trigger"
                        BY <4>2, <5>2
                    <6>2. write' = c[2]
                        BY <4>3, <5>2, <6>1
                    <6> QED
                        BY <4>2, <5>2, <6>1, <6>2
                <5>3. CASE c[1] = "change_trigger_mode"
                    <6>1. c[1] # "update" /\ c[1] # "software"
                        BY <5>3
                    <6>2. write' \in {"continuous", "triggered"}
                        BY <4>3, <6>1
                    <6> QED
                        BY <6>1, <6>2
                <5> QED
                    BY <4>1, <5>1, <5>2, <5>3
            <4>5. /\ pc = "idle" /\ call' = c /\ UNCHANGED cr
                  /\ pc' \in {"write_channel", "read_cr"}
                  /\ pc' = "write_channel" => c[1] = "software"
                BY <3>2 DEF OtherCall, Begin
            <4> QED
                BY <4>4, <4>5
        <3>3. CASE End
            BY <3>3 DEF End, NoCall
        <3> QED
            BY <1>3, <3>1, <3>2, <3>3 DEF Begins
    <2>3. RequestSeen'
        BY <1>1, <2>1, <2>2 DEF RequestSeen, First
    <2> QED
        BY <2>1, <2>2, <2>3 DEF AckInv, ValueWritten, Acknowledging
<1> QED
    BY <1>2, <1>3

\* An update that was acknowledged has reached every selected master, for every
\* parameter, whatever gave up before it and even in the first call after a software
\* reset, which clears the registers the update goes through.
THEOREM AcknowledgementIsTrue == Spec => []AcknowledgedIsTaken
<1>1. Init => AckInv
    BY DEF Init, CoreInit, NoCall, AckInv, RequestSeen, ValueWritten, Acknowledging, CVV, Handshakes
<1>2. TypeOK /\ IInv /\ AckInv /\ [Next]_vars => AckInv'
    <2> SUFFICES ASSUME TypeOK, IInv, AckInv, [Next]_vars PROVE AckInv'
        OBVIOUS
    <2>1. CASE UNCHANGED vars
        BY <2>1 DEF vars, axi, core, fsm, config, locals, AckInv, RequestSeen, ValueWritten,
           Acknowledging, Updated, OnlyLast, First
    <2>2. CASE Next
        BY <2>2, AckReset, AckClock, AckAccess, AckWait, AckOther DEF Next, Continues
    <2> QED
        BY <2>1, <2>2
<1>3. AckInv => AcknowledgedIsTaken
    BY DEF AckInv, Acknowledging, AcknowledgedIsTaken, Updated
<1> QED
    BY <1>1, <1>2, <1>3, InvHolds, PTL DEF Spec

-----------------------------------------------------------------------------
(* The lines and the converters *)

Lines   == {"SS_N", "SCLK"}
Driving == {"lines", "available"}

\* No master is told to follow the SPI control register.
NoManual == "CONTROL" \notin spi_cr /\ curstate # "SPI_MANUAL" /\ spi_manual = {}

\* The last write made the line low.
LowNow == line > 1 /\ IsLow(line - 1)

\* Only the writes of the pulses drive a line low, and one line only.
DrivenHigh ==
    /\ pc # "lines" =>
          \/ Lines \subseteq spi_cr
          \/ NoManual /\ pc \notin {"activate", "wait_set", "available", "deactivate", "wait_reset"}
    /\ pc = "lines" => Lines \ {Line} \subseteq spi_cr /\ (Line \in spi_cr <=> ~LowNow)
    /\ pc \notin Driving \/ (pc = "available" /\ clocked) => ss_low = {} /\ sclk_low = {}
    /\ Line = "SS_N" => sclk_low = {}
    /\ Line = "SCLK" => ss_low = {}
    /\ IF pc = "lines" THEN line <= LineWrites ELSE line = 1

\* When the driver sees manual mode granted, the selected masters follow it.
Granted ==
    /\ \/ pc \in {"activate", "wait_set", "lines", "available"}
       \/ pc = "default_lines" /\ clocked
       => (curstate = "SPI_MANUAL" => spi_manual = master_select)
    /\ \/ pc \in {"wait_set", "lines", "available"}
       \/ pc = "activate" /\ clocked
       => ("CONTROL_STATUS" \in spi_cr => manual = master_select \ busy)
    /\ pc \in Driving => /\ manual = master_select \ busy
                         /\ master_select \intersect busy \subseteq disturbed

\* The masters that leave a mode are in it, those that are looked at.
LeavesDown ==
    pc \in Working /\ call[1] = "leave" =>
        master_select \intersect Tested \subseteq powered_down[call[2]]

\* A reset that forgets a master disturbs it.
ForgottenDisturbed == forgotten \subseteq disturbed

\* The pulses a converter in the mode that is remembered has had
Level(m) == IF m \in powered_down["nap"] THEN NapPulses
            ELSE IF m \in powered_down["sleep"] THEN SleepPulses ELSE 0

\* The pulses of the mode that is entered or left
Goal == IF Mode = "nap" THEN NapPulses ELSE SleepPulses

\* How many of the writes of the lines the core has seen
Seen == IF clocked THEN line - 1 ELSE IF line = 1 THEN 0 ELSE line - 2

Low(m) == IF Line = "SS_N" THEN m \in ss_low ELSE m \in sclk_low

\* Half way through the pulses of a mode that is entered
Entering(m) ==
    /\ pc = "lines" => \/ Low(m) /\ 2 * pulses[m] = Seen /\ Seen > 0
                       \/ ~Low(m) /\ (2 * pulses[m] + 1 = Seen \/ (Seen = 0 /\ pulses[m] = 0))
    /\ pc = "available" => pulses[m] = Goal

\* Half way through the pulse of a mode that is left
Leaving(m) ==
    /\ pc = "lines" => \/ Low(m) /\ pulses[m] = 0 /\ line = 2 /\ clocked
                       \/ ~Low(m) /\ pulses[m] = Goal /\ (line = 1 \/ (line = 2 /\ ~clocked))
    /\ pc = "available" => pulses[m] = 0

\* A converter has had the pulses of the mode that is remembered, but for those that
\* are being pulsed.
PulsesCounted ==
    \A m \in Tested \ disturbed :
        IF pc \in Driving /\ m \in master_select
        THEN IF call[1] = "enter" THEN Entering(m) ELSE Leaving(m)
        ELSE pulses[m] = Level(m)

\* Every access but those of manual operation, and the begin and end of a call
Aside ==
    \/ ReadCr \/ WriteCr \/ WriteChannel \/ WriteValue
    \/ wait_for_value_acknowledgement \/ wait_for_control_reset_acknowledgement
    \/ Begins \/ End

LEMMA AsideEffect ==
    ASSUME Aside
    PROVE  /\ UNCHANGED <<spi_cr, curstate, enable, spi_manual, busy, manual, ss_low, sclk_low,
                          pulses, powered_down, forgotten, disturbed>>
           /\ pc \in {"idle", "return", "read_cr", "write_cr", "write_channel", "write_value",
                      "wait_value", "wait_reset"}
           /\ pc' \in {"idle", "return", "read_cr", "write_cr", "write_channel", "write_value",
                       "wait_value", "wait_reset", "default_lines"}
           /\ pc' = "wait_reset" => pc = "wait_reset"
           /\ pc' = "default_lines" => ~clocked'
           /\ line' \in {line, 1}
<1>1. CASE ReadCr \/ WriteCr \/ WriteChannel \/ WriteValue
    BY <1>1 DEF ReadCr, WriteCr, WriteChannel, WriteValue, Access, AfterWriteCr, axi, fsm, config,
       locals, history
<1>2. CASE wait_for_value_acknowledgement \/ wait_for_control_reset_acknowledgement
    BY <1>2 DEF wait_for_value_acknowledgement, wait_for_control_reset_acknowledgement, Poll,
       PollAgain, GiveUp, Return, axi, core, fsm, config, history
<1>3. CASE Begins
    BY <1>3 DEF Begins, PowerCall, OtherCall, Begin, Return, axi, core, fsm, history
<1>4. CASE End
    BY <1>4 DEF End, axi, core, fsm, history
<1> QED
    BY <1>1, <1>2, <1>3, <1>4 DEF Aside

\* What a clock does to the lines and to the masters that follow them
LEMMA ClockOfLines ==
    ASSUME Clocks
    PROVE  /\ "SW_RESET" \notin adc_cr =>
                 /\ \A l \in Lines \union {"CONTROL"} : l \in spi_cr' <=> l \in spi_cr
                 /\ busy' \subseteq busy \union enable
                 /\ spi_manual' = IF curstate' = "SPI_MANUAL" THEN master_channel ELSE {}
                 /\ manual' = spi_manual \ busy'
                 /\ Converters
                 /\ UNCHANGED <<forgotten, disturbed>>
           /\ "SW_RESET" \in adc_cr =>
                 /\ NoManual'
                 /\ ss_low' = ss_low /\ sclk_low' = {}
                 /\ \A m \in Master \ busy : pulses'[m] = pulses[m]
                 /\ forgotten' = Down /\ disturbed' = disturbed \union Down \union busy
<1> PICK edges \in SUBSET Master, ended \in SUBSET Master : Clock(edges, ended)
    BY DEF Clocks
<1>1. CASE Running(edges, ended) /\ UNCHANGED history
    <2>1. "SW_RESET" \notin adc_cr /\ Converters /\ Controllers(ended) /\ Registers
        BY <1>1 DEF Running
    <2>2. spi_manual' = IF curstate' = "SPI_MANUAL" THEN master_channel ELSE {}
        BY <1>1 DEF Running
    <2>3. busy' \subseteq busy \union enable /\ manual' = spi_manual \ busy'
        BY <2>1 DEF Controllers
    <2>4. \A l \in Lines \union {"CONTROL"} : l \in spi_cr' <=> l \in spi_cr
        BY <2>1 DEF Registers, Lines
    <2> QED
        BY <1>1, <2>1, <2>2, <2>3, <2>4 DEF history
<1>2. CASE /\ Resetting(ended)
           /\ forgotten' = Down /\ disturbed' = disturbed \union Down \union busy
    <2>1. \A m \in Master \ busy : pulses'[m] = pulses[m]
        BY <1>2 DEF Resetting
    <2> QED
        BY <1>2, <2>1 DEF Resetting, NoManual
<1> QED
    BY <1>1, <1>2 DEF Clock

\* How often each power call writes the lines
LEMMA WritesOfCall ==
    ASSUME call \in PowerCalls
    PROVE  /\ LineWrites = IF call[1] = "enter" THEN 2 * Goal + 1 ELSE 2
           /\ Goal \in Nat /\ Goal > 0 /\ Goal <= SleepPulses
<1>1. CASE call = <<"enter", "nap">>
    BY <1>1, PulseAssumption DEF LineWrites, Goal, Mode
<1>2. CASE call = <<"enter", "sleep">>
    BY <1>2, PulseAssumption DEF LineWrites, Goal, Mode
<1>3. CASE call = <<"leave", "nap">>
    BY <1>3, PulseAssumption DEF LineWrites, Goal, Mode
<1>4. CASE call = <<"leave", "sleep">>
    BY <1>4, PulseAssumption DEF LineWrites, Goal, Mode
<1> QED
    BY <1>1, <1>2, <1>3, <1>4 DEF PowerCalls

\* The last write leaves the line high.
LEMMA LastIsHigh == ASSUME call \in PowerCalls PROVE ~IsLow(LineWrites)
<1>1. CASE call[1] = "enter"
    <2>1. LineWrites = 2 * Goal + 1 /\ Goal \in Nat
        BY <1>1, WritesOfCall
    <2>2. (2 * Goal + 1) % 2 = 1
        <3> HIDE DEF Goal
        <3> QED
            BY <2>1
    <2> QED
        BY <1>1, <2>1, <2>2 DEF IsLow
<1>2. CASE call[1] # "enter"
    BY <1>2, WritesOfCall DEF IsLow
<1> QED
    BY <1>1, <1>2

LEMMA DrivenClock == TypeOK /\ IInv /\ DrivenHigh /\ Clocks => DrivenHigh'
<1> SUFFICES ASSUME TypeOK, IInv, DrivenHigh, Clocks PROVE DrivenHigh'
    OBVIOUS
<1>0. UNCHANGED <<pc, line, call>> /\ clocked'
    BY ClockEffect DEF locals
<1>1. UNCHANGED <<Line, LowNow, LineWrites>>
    BY <1>0 DEF Line, LowNow, IsLow, LineWrites
<1>2. "SW_RESET" \notin adc_cr =>
          \A l \in Lines \union {"CONTROL"} : l \in spi_cr' <=> l \in spi_cr
    BY ClockOfLines
<1>3. Line \in Lines
    BY DEF Line, Lines
<1>4. ASSUME NoManual PROVE NoManual' /\ ss_low' \subseteq ss_low /\ sclk_low' \subseteq sclk_low
    <2>1. CASE "SW_RESET" \in adc_cr
        BY <2>1, ClockOfLines
    <2>2. CASE "SW_RESET" \notin adc_cr
        <3>1. curstate' # "SPI_MANUAL" /\ "CONTROL" \notin spi_cr'
            BY <1>4, <2>2, ClockEffect DEF NoManual
        <3> QED
            BY <1>4, <2>2, <3>1, ClockOfLines DEF NoManual, Converters
    <2> QED
        BY <2>1, <2>2
<1>5. ASSUME "SS_N" \in spi_cr PROVE ss_low' \subseteq ss_low /\ ("SW_RESET" \notin adc_cr => ss_low' = {})
    BY <1>5, ClockOfLines DEF Converters
<1>6. ASSUME "SCLK" \in spi_cr
      PROVE  sclk_low' \subseteq sclk_low /\ ("SW_RESET" \notin adc_cr => sclk_low' = {})
    BY <1>6, ClockOfLines DEF Converters
<1>7. "SW_RESET" \in adc_cr => First
    BY DEF IInv, Control, ResetBrief
<1>8. /\ pc # "lines" => Lines \subseteq spi_cr' \/ (NoManual' /\ pc \notin
             {"activate", "wait_set", "available", "deactivate", "wait_reset"})
      /\ pc = "lines" => Lines \ {Line} \subseteq spi_cr' /\ (Line \in spi_cr' <=> ~LowNow)
    <2>1. CASE "SW_RESET" \in adc_cr
        <3>1. pc \notin {"lines", "activate", "wait_set", "available", "deactivate", "wait_reset"}
            BY <1>7, <2>1 DEF First
        <3> QED
            BY <2>1, <3>1, ClockOfLines
    <2>2. CASE "SW_RESET" \notin adc_cr
        BY <1>2, <1>3, <1>4, <2>2 DEF DrivenHigh
    <2> QED
        BY <2>1, <2>2
<1>9. pc \notin Driving \/ pc = "available" => ss_low' = {} /\ sclk_low' = {}
    BY <1>4, <1>5, <1>6, <1>7 DEF DrivenHigh, Driving, Lines, First
<1>10. pc = "lines" => (Line = "SS_N" => sclk_low' = {}) /\ (Line = "SCLK" => ss_low' = {})
    BY <1>5, <1>6 DEF DrivenHigh, Lines
<1>11. /\ Line = "SS_N" => sclk_low' = {}
       /\ Line = "SCLK" => ss_low' = {}
    BY <1>9, <1>10 DEF Driving
<1> QED
    BY <1>0, <1>1, <1>8, <1>9, <1>11 DEF DrivenHigh

\* The first write of the pulses leaves the lines as the preparation set them.
LEMMA DrivenStep == TypeOK /\ IInv /\ DrivenHigh /\ Next => DrivenHigh'
<1> SUFFICES ASSUME TypeOK, IInv, DrivenHigh, Next PROVE DrivenHigh'
    OBVIOUS
<1>1. CASE Clocks
    BY <1>1, DrivenClock
<1>2. CASE Aside
    <2>1. UNCHANGED NoManual
        BY <1>2, AsideEffect DEF NoManual
    <2>2. line = 1 /\ ss_low = {} /\ sclk_low = {}
        BY <1>2, AsideEffect DEF DrivenHigh, Driving
    <2> QED
        BY <1>2, <2>1, <2>2, AsideEffect DEF DrivenHigh, Driving
<1>3. CASE prepare_manual_operation
    <2>1. /\ pc \in {"default_lines", "activate"} /\ pc' \in {"activate", "wait_set"}
          /\ UNCHANGED <<line, call, ss_low, sclk_low>>
        BY <1>3 DEF prepare_manual_operation, WriteSpi, Access, fsm
    <2>2. Lines \subseteq spi_cr'
        BY <1>3 DEF prepare_manual_operation, WriteSpi, Access, DrivenHigh, Lines
    <2> QED
        BY <2>1, <2>2 DEF DrivenHigh, Driving
<1>4. CASE wait_for_control_set_acknowledgement
    <2>1. /\ pc = "wait_set" /\ pc' \in {"wait_set", "return", "lines"} /\ line' = 1
          /\ UNCHANGED <<call, ss_low, sclk_low, spi_cr>>
        BY <1>4 DEF wait_for_control_set_acknowledgement, Poll, PollAgain, GiveUp, Return, core,
           fsm, axi
    <2>2. ~LowNow' /\ UNCHANGED Line
        BY <2>1 DEF LowNow, Line
    <2>3. 1 <= LineWrites'
        BY PulseAssumption, SMT DEF LineWrites
    <2>4. Lines \subseteq spi_cr /\ ss_low = {} /\ sclk_low = {}
        BY <2>1 DEF DrivenHigh, Driving
    <2>5. Line \in Lines
        BY DEF Line, Lines
    <2> QED
        BY <2>1, <2>2, <2>3, <2>4, <2>5 DEF DrivenHigh, Driving
<1>5. CASE WriteLine
    <2>1. /\ pc = "lines" /\ ~clocked'
          /\ UNCHANGED <<call, ss_low, sclk_low>>
          /\ call \in PowerCalls
          /\ spi_cr' = IF IsLow(line) THEN spi_cr \ {Line} ELSE spi_cr \union {Line}
        BY <1>5 DEF WriteLine, WriteSpi, Access, fsm, IInv, SelectionKept, PowerOnly
    <2>2. line \in Nat /\ line > 0 /\ LineWrites \in Nat /\ line <= LineWrites
        BY <2>1, PulseAssumption, SMT DEF TypeOK, MaxLine, DrivenHigh, LineWrites
    <2>3. UNCHANGED <<Line, LineWrites>>
        BY <2>1 DEF Line, LineWrites
    <2>4. Lines \ {Line} \subseteq spi_cr' /\ (Line \in spi_cr' <=> ~IsLow(line))
        BY <2>1 DEF DrivenHigh
    <2>5. CASE line < LineWrites
        <3>1. pc' = "lines" /\ line' = line + 1
            BY <1>5, <2>2, <2>5 DEF WriteLine, WriteSpi, Access
        <3>2. LowNow' <=> IsLow(line)
            <4>1. line' > 1 /\ line' - 1 = line
                BY <2>2, <3>1
            <4> QED
                BY <2>1, <4>1 DEF LowNow, IsLow
        <3>3. line' <= LineWrites'
            BY <2>2, <2>3, <2>5, <3>1
        <3> QED
            BY <2>1, <2>3, <2>4, <3>1, <3>2, <3>3 DEF DrivenHigh, Driving
    <2>6. CASE line = LineWrites
        <3>1. pc' = "available" /\ line' = 1
            BY <1>5, <2>2, <2>6 DEF WriteLine, WriteSpi, Access
        <3>2. ~IsLow(LineWrites)
            BY <2>1, LastIsHigh
        <3>3. Lines \subseteq spi_cr'
            BY <2>4, <2>6, <3>2
        <3> QED
            BY <2>1, <2>3, <3>1, <3>3 DEF DrivenHigh, Driving
    <2> QED
        BY <2>2, <2>5, <2>6
<1>6. CASE WriteAvailable
    BY <1>6 DEF WriteAvailable, Access, fsm, locals, DrivenHigh, Driving
<1>7. CASE disable_manual_mode
    BY <1>7 DEF disable_manual_mode, WriteSpi, Access, fsm, DrivenHigh, Driving, Lines
<1> QED
    BY <1>1, <1>2, <1>3, <1>4, <1>5, <1>6, <1>7 DEF Next, Continues, Aside

\* Manual mode is granted to the masters that were selected at least two clocks ago.
LEMMA GrantedStep == TypeOK /\ IInv /\ Granted /\ Next => Granted'
<1> SUFFICES ASSUME TypeOK, IInv, Granted, Next PROVE Granted'
    OBVIOUS
<1>1. CASE Clocks
    <2>1. UNCHANGED <<pc, master_select>> /\ clocked'
        BY <1>1, ClockEffect DEF locals, config
    <2>2. CASE pc \in OnChannel
        <3>1. /\ "SW_RESET" \notin adc_cr /\ UNCHANGED <<master_channel, disturbed>>
              /\ master_channel = master_select
            BY <1>1, <2>2, ClockEffect
               DEF IInv, Control, ResetBrief, First, SelectionKept, OnChannel, history
        <3>2. curstate' = "SPI_MANUAL" => spi_manual' = master_select
            BY <1>1, <3>1, ClockOfLines
        <3>3. ASSUME pc \in {"activate", "wait_set", "lines", "available"}, curstate = "SPI_MANUAL"
              PROVE  manual' = master_select \ busy'
            <4>1. spi_manual = master_select
                BY <3>3 DEF Granted
            <4> QED
                BY <1>1, <3>1, <4>1, ClockOfLines
        <3>4. ASSUME pc \in Driving
              PROVE  manual' = master_select \ busy' /\ master_select \intersect busy' \subseteq disturbed
            <4>1. curstate = "SPI_MANUAL" /\ enable = {}
                BY <3>4 DEF IInv, Control, PulsesInManual, ManualKept, Driving
            <4>2. busy' \subseteq busy
                BY <1>1, <3>1, <4>1, ClockOfLines
            <4>3. master_select \intersect busy \subseteq disturbed
                BY <3>4 DEF Granted
            <4> QED
                BY <3>3, <3>4, <4>1, <4>2, <4>3 DEF Driving
        <3>5. "CONTROL_STATUS" \in spi_cr' => curstate = "SPI_MANUAL"
            BY <1>1, <3>1, ClockEffect
        <3> QED
            BY <2>1, <3>1, <3>2, <3>3, <3>4, <3>5 DEF Granted, Driving
    <2>3. CASE pc \notin OnChannel
        BY <2>1, <2>3 DEF Granted, Driving, OnChannel
    <2> QED
        BY <2>2, <2>3
<1>2. CASE Aside
    BY <1>2, AsideEffect DEF Granted, Driving
<1>3. CASE prepare_manual_operation
    BY <1>3 DEF prepare_manual_operation, WriteSpi, Access, fsm, config, Granted, Driving
<1>4. CASE wait_for_control_set_acknowledgement
    BY <1>4 DEF wait_for_control_set_acknowledgement, Poll, PollAgain, GiveUp, Return, core,
       fsm, axi, config, Granted, Driving
<1>5. CASE WriteLine
    <2>1. /\ pc = "lines" /\ pc' \in {"lines", "available"}
          /\ UNCHANGED <<curstate, spi_manual, manual, busy, master_select, disturbed>>
          /\ "CONTROL_STATUS" \in spi_cr' <=> "CONTROL_STATUS" \in spi_cr
        BY <1>5 DEF WriteLine, WriteSpi, Access, fsm, config, history, Line
    <2> QED
        BY <2>1 DEF Granted, Driving
<1>6. CASE WriteAvailable
    BY <1>6 DEF WriteAvailable, Access, Granted, Driving
<1>7. CASE disable_manual_mode
    BY <1>7 DEF disable_manual_mode, WriteSpi, Access, Granted, Driving
<1> QED
    BY <1>1, <1>2, <1>3, <1>4, <1>5, <1>6, <1>7 DEF Next, Continues, Aside

\* A call that leaves a mode is refused for a master that is not in it, when that master
\* is looked at.
LEMMA LeavesStep == TypeOK /\ IInv /\ LeavesDown /\ Next => LeavesDown'
<1> SUFFICES ASSUME TypeOK, IInv, LeavesDown, Next PROVE LeavesDown'
    OBVIOUS
<1>1. ASSUME NEW c \in Calls, NEW masters \in SUBSET Master, PowerCall(c, masters)
      PROVE  LeavesDown'
    <2>1. /\ call' = c /\ master_select' = masters /\ UNCHANGED powered_down
          /\ pc' \in {"return", "read_cr"}
          /\ pc' = "read_cr" => \A error \in Errors : ~Refuses(c, masters, error)
        BY <1>1 DEF PowerCall, Begin, Return
    <2>2. ASSUME pc' = "read_cr", c[1] = "leave"
          PROVE  masters \intersect Tested \subseteq powered_down[c[2]]
        <3>1. ~Refuses(c, masters, "NO_SELECTION") /\ ~Refuses(c, masters, "NOT_IN_MODE")
            BY <2>1, <2>2 DEF Errors
        <3>2. masters # {}
            BY <3>1 DEF Refuses
        <3>3. all_masked_bits_set_in_value(powered_down[c[2]], masters)
            BY <2>2, <3>1, <3>2 DEF Refuses
        <3> QED
            BY <3>3 DEF all_masked_bits_set_in_value
    <2> QED
        BY <2>1, <2>2 DEF LeavesDown, Working
<1>2. ASSUME NEW c \in Calls, NEW masters \in SUBSET Master, OtherCall(c, masters)
      PROVE  LeavesDown'
    <2>1. call' = c /\ c \in AllCalls /\ c \notin PowerCalls
        BY <1>2, AdcAssumption DEF OtherCall, Begin
    <2>2. c[1] # "leave"
        BY <2>1 DEF AllCalls, PowerCalls
    <2> QED
        BY <2>1, <2>2 DEF LeavesDown
<1>3. CASE End
    BY <1>3 DEF End, LeavesDown, Working
<1>4. CASE Clocks
    BY <1>4, ClockEffect DEF config, locals, LeavesDown
<1>5. CASE ReadCr \/ WriteCr \/ WriteChannel \/ WriteValue
    <2>1. /\ UNCHANGED <<call, master_select, powered_down>>
          /\ pc \in {"read_cr", "write_cr", "write_channel", "write_value"}
          /\ pc = "write_value" => call[1] = "update"
        BY <1>5 DEF ReadCr, WriteCr, WriteChannel, WriteValue, Access, config, locals, IInv,
           SelectionKept
    <2> QED
        BY <2>1 DEF LeavesDown, Working
<1>6. CASE \/ wait_for_value_acknowledgement \/ wait_for_control_set_acknowledgement
           \/ wait_for_control_reset_acknowledgement
    <2>1. /\ UNCHANGED <<call, master_select, powered_down>>
          /\ pc' \in Working => pc \in Working
        BY <1>6 DEF wait_for_value_acknowledgement, wait_for_control_set_acknowledgement,
           wait_for_control_reset_acknowledgement, Poll, PollAgain, GiveUp, Return, config, Working
    <2> QED
        BY <2>1 DEF LeavesDown
<1>7. CASE prepare_manual_operation \/ WriteLine \/ disable_manual_mode
    <2>1. /\ UNCHANGED <<call, master_select, powered_down>>
          /\ pc' \in Working => pc \in Working
        BY <1>7 DEF prepare_manual_operation, WriteLine, disable_manual_mode, WriteSpi, Access,
           config, Working
    <2> QED
        BY <2>1 DEF LeavesDown
<1>8. CASE WriteAvailable
    BY <1>8 DEF WriteAvailable, Access, LeavesDown, Working
<1> QED
    BY <1>1, <1>2, <1>3, <1>4, <1>5, <1>6, <1>7, <1>8 DEF Next, Begins, Continues

\* Only the reset forgets a master.
LEMMA ForgottenStep == ForgottenDisturbed /\ Next => ForgottenDisturbed'
<1> SUFFICES ASSUME ForgottenDisturbed, Next PROVE ForgottenDisturbed'
    OBVIOUS
<1>1. CASE Clocks
    BY <1>1, ClockOfLines DEF ForgottenDisturbed
<1>2. CASE Aside
    BY <1>2, AsideEffect DEF ForgottenDisturbed
<1>3. CASE prepare_manual_operation \/ WriteLine \/ disable_manual_mode
    BY <1>3 DEF prepare_manual_operation, WriteLine, disable_manual_mode, WriteSpi, history,
       ForgottenDisturbed
<1>4. CASE wait_for_control_set_acknowledgement
    BY <1>4 DEF wait_for_control_set_acknowledgement, ForgottenDisturbed
<1>5. CASE WriteAvailable
    BY <1>5 DEF WriteAvailable, ForgottenDisturbed
<1> QED
    BY <1>1, <1>2, <1>3, <1>4, <1>5 DEF Next, Continues, Aside

PowerInv == DrivenHigh /\ Granted /\ LeavesDown /\ ForgottenDisturbed /\ PulsesCounted

LEMMA Parity ==
    \A n, q \in Nat : /\ 2 * q = n => n % 2 = 0
                      /\ 2 * q + 1 = n => n % 2 # 0
OBVIOUS

\* What a clock does to a converter whose line is not low after it
LEMMA NotPulsed ==
    ASSUME TypeOK, IInv, PowerInv, Clocks, NEW m \in Master, m \notin ss_low', m \notin sclk_low',
           m \notin disturbed', pulses[m] = Level(m)
    PROVE  pulses'[m] = Level(m)
<1>1. CASE "SW_RESET" \in adc_cr
    <2>1. m \notin busy
        BY <1>1, ClockOfLines
    <2> QED
        BY <1>1, <2>1, ClockOfLines
<1>2. CASE "SW_RESET" \notin adc_cr
    <2>1. Converters /\ busy' \subseteq busy \union enable /\ UNCHANGED disturbed
        BY <1>2, ClockOfLines
    <2>2. pulses'[m] = IF m \in busy' \ busy THEN 0 ELSE pulses[m]
        BY <2>1 DEF Converters
    <2>3. m \in enable => Level(m) = 0
        <3>1. m \notin forgotten
            BY <2>1 DEF PowerInv, ForgottenDisturbed
        <3> QED
            BY <3>1 DEF IInv, AsleepNotStarted, Down, Level
    <2> QED
        BY <2>1, <2>2, <2>3
<1> QED
    BY <1>1, <1>2

\* What a clock does to a converter that is being pulsed
LEMMA Pulsed ==
    ASSUME TypeOK, IInv, PowerInv, Clocks, pc \in Driving,
           NEW m \in Master, m \in master_select, m \notin disturbed
    PROVE  /\ Low(m)' <=> Line \notin spi_cr
           /\ pulses'[m] = IF Low(m)' /\ ~Low(m)
                           THEN IF Line = "SS_N" THEN Pulse(pulses[m]) ELSE ClockOf(pulses[m])
                           ELSE pulses[m]
<1>0. UNCHANGED <<pc, call, master_select>>
    BY ClockEffect DEF config, locals
<1>1. DrivenHigh' /\ Granted'
    BY DrivenStep, GrantedStep DEF PowerInv, Next
<1>2. "SW_RESET" \notin adc_cr
    BY DEF IInv, Control, ResetBrief, First, Driving
<1>3. Converters /\ UNCHANGED disturbed
    BY <1>2, ClockOfLines
<1>4. m \in manual' /\ m \notin busy'
    BY <1>0, <1>1, <1>3 DEF Granted
<1>5. Line \in Lines /\ UNCHANGED Line
    BY <1>0 DEF Line, Lines
<1>6. /\ Line = "SS_N" => sclk_low' = {}
      /\ Line = "SCLK" => ss_low' = {}
    BY <1>1, <1>5 DEF DrivenHigh
<1>7. /\ m \in ss_low' <=> "SS_N" \notin spi_cr
      /\ m \in sclk_low' <=> "SCLK" \notin spi_cr
    BY <1>3, <1>4 DEF Converters
<1>8. pulses'[m] = IF m \in ss_low' \ ss_low THEN Pulse(pulses[m])
                   ELSE IF m \in sclk_low' \ sclk_low THEN ClockOf(pulses[m])
                   ELSE pulses[m]
    BY <1>3, <1>4 DEF Converters
<1>9. CASE Line = "SS_N"
    BY <1>5, <1>6, <1>7, <1>8, <1>9 DEF Low
<1>10. CASE Line = "SCLK"
    BY <1>5, <1>6, <1>7, <1>8, <1>10 DEF Low
<1> QED
    BY <1>5, <1>9, <1>10 DEF Lines

\* A clock counts a pulse when it sees the line go low.
LEMMA EnteringClock ==
    ASSUME TypeOK, IInv, PowerInv, Clocks, pc \in Driving, call[1] = "enter",
           NEW m \in Master, m \in master_select, m \notin disturbed, Entering(m)
    PROVE  Entering(m)'
<1>0. UNCHANGED <<pc, call, line>> /\ clocked' /\ UNCHANGED Goal
    BY ClockEffect DEF locals, Goal, Mode
<1>1. /\ Low(m)' <=> Line \notin spi_cr
      /\ pulses'[m] = IF Low(m)' /\ ~Low(m) THEN Pulse(pulses[m]) ELSE pulses[m]
    BY Pulsed DEF Line
<1> DEFINE q == pulses[m]
<1>2. /\ q \in Nat /\ line \in Nat /\ line > 0 /\ clocked \in BOOLEAN
      /\ Goal \in Nat /\ Goal <= SleepPulses /\ SleepPulses \in Nat
      /\ LineWrites = 2 * Goal + 1
    <2>1. call \in PowerCalls
        BY DEF IInv, SelectionKept, PowerOnly, Driving
    <2> QED
        BY <2>1, WritesOfCall, PulseAssumption DEF TypeOK, CoreTypeOK, MaxLine
<1>3. CASE pc = "available"
    <2>1. Lines \subseteq spi_cr
        BY <1>3 DEF PowerInv, DrivenHigh
    <2>2. ~Low(m)'
        BY <1>1, <2>1 DEF Line, Lines
    <2> QED
        BY <1>0, <1>1, <1>3, <2>2 DEF Entering
<1>4. CASE pc = "lines"
    <2>1. Low(m)' <=> line > 1 /\ (line - 1) % 2 = 0
        BY <1>1, <1>4 DEF PowerInv, DrivenHigh, LowNow, IsLow
    <2>2. Seen' = line - 1
        BY <1>0 DEF Seen
    <2>3. line <= 2 * Goal + 1
        BY <1>2, <1>4 DEF PowerInv, DrivenHigh
    <2>4. \/ Low(m) /\ 2 * q = Seen /\ Seen > 0
          \/ ~Low(m) /\ (2 * q + 1 = Seen \/ (Seen = 0 /\ q = 0))
        BY <1>4 DEF Entering
    <2>5. q # SleepPulses => Pulse(q) = q + 1
        BY DEF Pulse
    <2> HIDE DEF q, Goal
    <2> DEFINE After == \/ Low(m)' /\ 2 * pulses'[m] = line - 1 /\ line - 1 > 0
                        \/ ~Low(m)' /\ (2 * pulses'[m] + 1 = line - 1
                                        \/ (line - 1 = 0 /\ pulses'[m] = 0))
    <2>6. ASSUME clocked PROVE After
        <3>1. Seen = line - 1 /\ line - 1 \in Nat
            BY <1>2, <2>6 DEF Seen
        <3>2. Low(m) => Low(m)'
            BY <1>2, <2>1, <2>4, <3>1, Parity
        <3>3. ~Low(m) => ~Low(m)'
            BY <1>2, <2>1, <2>4, <3>1, Parity
        <3>4. pulses'[m] = q
            BY <1>1, <3>3 DEF q
        <3> QED
            BY <1>2, <2>4, <3>1, <3>2, <3>3, <3>4
    <2>7. ASSUME ~clocked, line = 1 PROVE After
        <3>1. ~Low(m)' /\ Seen = 0
            BY <2>1, <2>7 DEF Seen
        <3>2. q = 0
            BY <1>2, <2>4, <3>1
        <3>3. pulses'[m] = q
            BY <1>1, <3>1 DEF q
        <3> QED
            BY <1>2, <2>7, <3>1, <3>2, <3>3
    <2>8. ASSUME ~clocked, line > 1 PROVE After
        <3>1. Seen = line - 2
            BY <1>2, <2>8 DEF Seen
        <3>2. CASE Low(m)'
            <4>1. ~(2 * q + 1 = line - 1)
                BY <1>2, <2>1, <2>8, <3>2, Parity
            <4>2. ~Low(m) /\ 2 * q + 1 = line - 2
                BY <1>2, <2>4, <3>1, <4>1
            <4>3. q # SleepPulses
                BY <1>2, <2>3, <4>2
            <4>4. pulses'[m] = q + 1
                BY <1>1, <2>5, <3>2, <4>2, <4>3 DEF q
            <4> QED
                BY <1>2, <2>8, <3>2, <4>2, <4>4
        <3>3. CASE ~Low(m)'
            <4>1. pulses'[m] = q
                BY <1>1, <3>3 DEF q
            <4>2. ~(2 * (q + 1) = line - 1)
                BY <1>2, <2>1, <2>8, <3>3, Parity
            <4> QED
                BY <1>2, <2>4, <2>8, <3>1, <3>3, <4>1, <4>2
        <3> QED
            BY <3>2, <3>3
    <2>9. After
        BY <1>2, <2>6, <2>7, <2>8
    <2> QED
        BY <1>0, <1>4, <2>2, <2>9 DEF Entering
<1> QED
    BY <1>3, <1>4 DEF Driving

\* A clock that sees the line low wakes the converter.
LEMMA LeavingClock ==
    ASSUME TypeOK, IInv, PowerInv, Clocks, pc \in Driving, call[1] # "enter",
           NEW m \in Master, m \in master_select, m \notin disturbed, Leaving(m)
    PROVE  Leaving(m)'
<1>0. UNCHANGED <<pc, call, line>> /\ clocked' /\ UNCHANGED Goal
    BY ClockEffect DEF locals, Goal, Mode
<1>1. /\ Low(m)' <=> Line \notin spi_cr
      /\ pulses'[m] = IF Low(m)' /\ ~Low(m)
                      THEN IF Line = "SS_N" THEN Pulse(pulses[m]) ELSE ClockOf(pulses[m])
                      ELSE pulses[m]
    BY Pulsed
<1>2. (IF Line = "SS_N" THEN Pulse(Goal) ELSE ClockOf(Goal)) = 0
    <2>1. call \in {<<"leave", "nap">>, <<"leave", "sleep">>}
        BY DEF IInv, SelectionKept, PowerOnly, Driving, PowerCalls
    <2>2. CASE call = <<"leave", "nap">>
        BY <2>2, PulseAssumption DEF Line, Goal, Mode, ClockOf
    <2>3. CASE call = <<"leave", "sleep">>
        BY <2>3, PulseAssumption DEF Line, Goal, Mode, Pulse
    <2> QED
        BY <2>1, <2>2, <2>3
<1>3. ClockOf(0) = 0
    BY PulseAssumption DEF ClockOf
<1>4. CASE pc = "available"
    <2>1. Lines \subseteq spi_cr
        BY <1>4 DEF PowerInv, DrivenHigh
    <2>2. ~Low(m)'
        BY <1>1, <2>1 DEF Line, Lines
    <2> QED
        BY <1>0, <1>1, <1>4, <2>2 DEF Leaving
<1>5. CASE pc = "lines"
    <2>1. Low(m)' <=> line = 2
        <3>1. line <= 2 /\ line \in Nat
            <4>1. call \in PowerCalls
                BY DEF IInv, SelectionKept, PowerOnly, Driving
            <4> QED
                BY <1>5, <4>1, WritesOfCall DEF PowerInv, DrivenHigh, TypeOK
        <3> QED
            BY <1>1, <1>5, <3>1 DEF PowerInv, DrivenHigh, LowNow, IsLow
    <2>2. CASE Low(m) /\ pulses[m] = 0 /\ line = 2 /\ clocked
        BY <1>0, <1>1, <1>5, <2>1, <2>2 DEF Leaving
    <2>3. CASE ~Low(m) /\ pulses[m] = Goal /\ line = 1
        BY <1>0, <1>1, <1>5, <2>1, <2>3 DEF Leaving
    <2>4. CASE ~Low(m) /\ pulses[m] = Goal /\ line = 2 /\ ~clocked
        BY <1>0, <1>1, <1>2, <1>5, <2>1, <2>4 DEF Leaving
    <2> QED
        BY <1>5, <2>2, <2>3, <2>4 DEF Leaving
<1> QED
    BY <1>4, <1>5 DEF Driving

LEMMA PulsesClock == TypeOK /\ IInv /\ PowerInv /\ Clocks => PulsesCounted'
<1> SUFFICES ASSUME TypeOK, IInv, PowerInv, Clocks, NEW m \in Tested \ disturbed'
             PROVE  (IF pc \in Driving /\ m \in master_select
                     THEN IF call[1] = "enter" THEN Entering(m) ELSE Leaving(m)
                     ELSE pulses[m] = Level(m))'
    BY DEF PulsesCounted
<1>1. UNCHANGED <<pc, call, master_select, powered_down>> /\ m \in Master
    BY ClockEffect, AdcAssumption DEF locals, config
<1>2. PulsesCounted /\ m \in Tested \ disturbed /\ Level(m)' = Level(m)
    BY <1>1, ClockOfLines DEF PowerInv, Level
<1>3. CASE pc \in Driving /\ m \in master_select
    <2>1. IF call[1] = "enter" THEN Entering(m) ELSE Leaving(m)
        BY <1>2, <1>3 DEF PulsesCounted
    <2>2. call[1] = "enter" => Entering(m)'
        BY <1>1, <1>2, <1>3, <2>1, EnteringClock
    <2>3. call[1] # "enter" => Leaving(m)'
        BY <1>1, <1>2, <1>3, <2>1, LeavingClock
    <2> QED
        BY <1>1, <1>3, <2>2, <2>3
<1>4. CASE ~(pc \in Driving /\ m \in master_select)
    <2>1. pulses[m] = Level(m)
        BY <1>2, <1>4 DEF PulsesCounted
    <2>2. m \notin ss_low' /\ m \notin sclk_low'
        <3>1. DrivenHigh' /\ Granted'
            BY DrivenStep, GrantedStep DEF PowerInv, Next
        <3>2. CASE pc \notin Driving
            BY <1>1, <3>1, <3>2 DEF DrivenHigh
        <3>3. CASE pc \in Driving /\ m \notin master_select
            <4>1. m \notin manual'
                BY <1>1, <1>2, <3>1, <3>3 DEF Granted
            <4>2. "SW_RESET" \notin adc_cr
                BY <3>3 DEF IInv, Control, ResetBrief, First, Driving
            <4> QED
                BY <4>1, <4>2, ClockOfLines DEF Converters
        <3> QED
            BY <1>4, <3>2, <3>3
    <2>3. pulses'[m] = Level(m)
        BY <1>1, <2>1, <2>2, NotPulsed
    <2> QED
        BY <1>1, <1>2, <1>4, <2>3
<1> QED
    BY <1>3, <1>4

\* The pulses start with every selected converter in the mode the driver remembers.
LEMMA PulsesStart ==
    ASSUME TypeOK, IInv, PowerInv, wait_for_control_set_acknowledgement
    PROVE  PulsesCounted'
<1>1. /\ pc = "wait_set" /\ pc' \in {"wait_set", "return", "lines"} /\ line' = 1 /\ ~clocked'
      /\ UNCHANGED <<call, master_select, powered_down, pulses, ss_low, sclk_low>>
    BY DEF wait_for_control_set_acknowledgement, Poll, PollAgain, GiveUp, Return, core, fsm, axi,
       config
<1>0. disturbed \subseteq disturbed'
    BY DEF wait_for_control_set_acknowledgement
<1> SUFFICES ASSUME NEW m \in Tested \ disturbed'
             PROVE  (IF pc \in Driving /\ m \in master_select
                     THEN IF call[1] = "enter" THEN Entering(m) ELSE Leaving(m)
                     ELSE pulses[m] = Level(m))'
    BY DEF PulsesCounted
<1>2. pulses[m] = Level(m) /\ Level(m)' = Level(m)
    BY <1>0, <1>1 DEF PowerInv, PulsesCounted, Driving, Level
<1>3. pc' # "available" /\ Seen' = 0 /\ ~Low(m)'
    <2>1. ss_low = {} /\ sclk_low = {}
        BY <1>1 DEF PowerInv, DrivenHigh, Driving
    <2> QED
        BY <1>1, <2>1 DEF Seen, Low
<1>4. call \in PowerCalls /\ pc \in Working
    BY <1>1 DEF IInv, SelectionKept, PowerOnly, Working
<1>5. ASSUME m \in master_select, call[1] = "enter" PROVE Entering(m)'
    <2>1. m \notin powered_down["nap"] /\ m \notin powered_down["sleep"]
        BY <1>4, <1>5 DEF IInv, SelectionKept, Down
    <2>2. pulses'[m] = 0
        BY <1>1, <1>2, <2>1 DEF Level
    <2> QED
        BY <1>3, <2>2 DEF Entering
<1>6. ASSUME m \in master_select, call[1] # "enter" PROVE Leaving(m)'
    <2>1. call \in {<<"leave", "nap">>, <<"leave", "sleep">>}
        BY <1>4, <1>6 DEF PowerCalls
    <2>2. m \in powered_down[call[2]] /\ m \notin InOtherMode(call[2], master_select)
        BY <1>4, <1>6, <2>1 DEF PowerInv, LeavesDown, IInv, SelectionKept
    <2>3. Level(m) = Goal
        <3>1. CASE call = <<"leave", "nap">>
            BY <2>2, <3>1 DEF Level, Goal, Mode
        <3>2. CASE call = <<"leave", "sleep">>
            <4>1. (CHOOSE mode \in Modes : mode # "sleep") = "nap"
                BY DEF Modes
            <4>2. m \notin powered_down["nap"]
                BY <1>6, <2>2, <3>2, <4>1 DEF InOtherMode
            <4> QED
                BY <2>2, <3>2, <4>2 DEF Level, Goal, Mode
        <3> QED
            BY <2>1, <3>1, <3>2
    <2>4. pulses'[m] = Goal'
        BY <1>1, <1>2, <2>3 DEF Goal, Mode
    <2> QED
        BY <1>1, <1>3, <2>4 DEF Leaving
<1> QED
    BY <1>1, <1>2, <1>5, <1>6

\* The last write of the lines comes after the last pulse.
LEMMA PulsesWritten ==
    ASSUME TypeOK, IInv, PowerInv, WriteLine
    PROVE  PulsesCounted'
<1>1. /\ pc = "lines" /\ pc' \in {"lines", "available"} /\ clocked /\ ~clocked'
      /\ UNCHANGED <<call, master_select, powered_down, pulses, ss_low, sclk_low, disturbed>>
    BY DEF WriteLine, WriteSpi, Access, fsm, config, history
<1> SUFFICES ASSUME NEW m \in Tested \ disturbed
             PROVE  (IF pc \in Driving /\ m \in master_select
                     THEN IF call[1] = "enter" THEN Entering(m) ELSE Leaving(m)
                     ELSE pulses[m] = Level(m))'
    BY <1>1 DEF PulsesCounted
<1>2. call \in PowerCalls /\ UNCHANGED <<Level(m), Low(m), Goal>>
    BY <1>1 DEF IInv, SelectionKept, PowerOnly, Level, Low, Line, Goal, Mode
<1>3. /\ line \in Nat /\ line > 0 /\ line <= LineWrites /\ LineWrites \in Nat
      /\ pulses[m] \in Nat /\ Goal \in Nat
    BY <1>1, <1>2, WritesOfCall, PulseAssumption, AdcAssumption
       DEF TypeOK, CoreTypeOK, MaxLine, PowerInv, DrivenHigh, Goal
<1>4. /\ line < LineWrites => pc' = "lines" /\ line' = line + 1
      /\ line = LineWrites => pc' = "available" /\ line' = 1
    BY <1>3 DEF WriteLine, WriteSpi, Access
<1>5. ASSUME m \in master_select, call[1] = "enter" PROVE Entering(m)'
    <2>1. Entering(m) /\ Seen = line - 1
        BY <1>1, <1>5 DEF PowerInv, PulsesCounted, Driving, Seen
    <2>2. \/ Low(m) /\ 2 * pulses[m] = line - 1 /\ line - 1 > 0
          \/ ~Low(m) /\ (2 * pulses[m] + 1 = line - 1 \/ (line - 1 = 0 /\ pulses[m] = 0))
        BY <1>1, <2>1 DEF Entering
    <2>3. CASE line < LineWrites
        <3>1. pc' = "lines" /\ Seen' = line - 1
            BY <1>1, <1>3, <1>4, <2>3 DEF Seen
        <3> QED
            BY <1>1, <1>2, <2>2, <3>1 DEF Entering
    <2>4. CASE line = LineWrites
        <3>1. line - 1 = 2 * Goal /\ Goal > 0
            BY <1>2, <1>3, <1>5, <2>4, WritesOfCall, PulseAssumption DEF Goal
        <3>2. pulses[m] = Goal
            <4>1. ~(2 * pulses[m] + 1 = 2 * Goal)
                BY <1>3, Parity
            <4> QED
                BY <1>3, <2>2, <3>1, <4>1
        <3> QED
            BY <1>1, <1>2, <1>4, <2>4, <3>2 DEF Entering
    <2> QED
        BY <1>3, <2>3, <2>4
<1>6. ASSUME m \in master_select, call[1] # "enter" PROVE Leaving(m)'
    <2>1. Leaving(m)
        BY <1>1, <1>6 DEF PowerInv, PulsesCounted, Driving
    <2>2. LineWrites = 2
        BY <1>2, <1>6, WritesOfCall
    <2>3. CASE line = 1
        <3>1. ~Low(m) /\ pulses[m] = Goal
            BY <1>1, <2>1, <2>3 DEF Leaving
        <3>2. pc' = "lines" /\ line' = 2
            BY <1>4, <2>2, <2>3
        <3> QED
            BY <1>1, <1>2, <3>1, <3>2 DEF Leaving
    <2>4. CASE line = 2
        <3>1. pulses[m] = 0
            BY <1>1, <2>1, <2>4 DEF Leaving
        <3>2. pc' = "available"
            BY <1>4, <2>2, <2>4
        <3> QED
            BY <1>1, <3>1, <3>2 DEF Leaving
    <2> QED
        BY <1>3, <2>2, <2>3, <2>4
<1>7. m \notin master_select => pulses[m] = Level(m)
    BY DEF PowerInv, PulsesCounted
<1> QED
    BY <1>1, <1>2, <1>5, <1>6, <1>7 DEF Driving

\* The driver remembers what the pulses have done.
LEMMA PulsesRemembered ==
    ASSUME TypeOK, IInv, PowerInv, WriteAvailable
    PROVE  PulsesCounted'
<1>1. /\ pc = "available" /\ pc' = "deactivate"
      /\ UNCHANGED <<call, master_select, pulses, disturbed>>
    BY DEF WriteAvailable, Access, fsm, locals
<1>2. call \in PowerCalls /\ Mode \in Modes
    BY <1>1, CallParts DEF IInv, SelectionKept, PowerOnly, TypeOK, Mode
<1>3. powered_down \in [Modes -> SUBSET Master]
    BY DEF TypeOK
<1> SUFFICES ASSUME NEW m \in Tested \ disturbed PROVE pulses[m] = Level(m)'
    BY <1>1 DEF PulsesCounted, Driving
<1>4. CASE m \notin master_select
    <2>1. pulses[m] = Level(m)
        BY <1>4 DEF PowerInv, PulsesCounted
    <2>2. \A mode \in Modes : m \in powered_down'[mode] <=> m \in powered_down[mode]
        <3> HIDE DEF Mode
        <3>1. \/ powered_down' = [powered_down EXCEPT ![Mode] = @ \union master_select]
              \/ powered_down' = [powered_down EXCEPT ![Mode] = @ \ master_select]
            BY DEF WriteAvailable
        <3> QED
            BY <1>2, <1>3, <1>4, <3>1
    <2> QED
        BY <2>1, <2>2 DEF Level, Modes
<1>5. CASE m \in master_select /\ call[1] = "enter"
    <2>1. pulses[m] = Goal
        BY <1>1, <1>5 DEF PowerInv, PulsesCounted, Driving, Entering
    <2>2. m \notin powered_down["nap"] /\ m \notin powered_down["sleep"]
        BY <1>1, <1>5 DEF IInv, SelectionKept, Down, Working
    <2>3. powered_down' = [powered_down EXCEPT ![Mode] = @ \union master_select]
        BY <1>5 DEF WriteAvailable
    <2>4. CASE Mode = "nap"
        <3>1. m \in powered_down'["nap"]
            BY <1>3, <1>5, <2>3, <2>4 DEF Modes
        <3> QED
            BY <2>1, <2>4, <3>1 DEF Level, Goal
    <2>5. CASE Mode = "sleep"
        <3>1. m \in powered_down'["sleep"] /\ powered_down'["nap"] = powered_down["nap"]
            BY <1>3, <1>5, <2>3, <2>5 DEF Modes
        <3> QED
            BY <2>1, <2>2, <2>5, <3>1 DEF Level, Goal
    <2> QED
        BY <1>2, <2>4, <2>5 DEF Modes
<1>6. CASE m \in master_select /\ call[1] # "enter"
    <2>1. pulses[m] = 0
        BY <1>1, <1>6 DEF PowerInv, PulsesCounted, Driving, Leaving
    <2>2. call[1] = "leave" /\ InOtherMode(Mode, master_select) = {}
        BY <1>1, <1>2, <1>6 DEF PowerCalls, IInv, SelectionKept, Working, Mode
    <2>3. powered_down' = [powered_down EXCEPT ![Mode] = @ \ master_select]
        BY <2>2 DEF WriteAvailable
    <2>4. CASE Mode = "nap"
        <3>1. (CHOOSE mode \in Modes : mode # "nap") = "sleep"
            BY DEF Modes
        <3>2. m \notin powered_down["sleep"]
            BY <1>6, <2>2, <2>4, <3>1 DEF InOtherMode
        <3>3. m \notin powered_down'["nap"] /\ powered_down'["sleep"] = powered_down["sleep"]
            BY <1>3, <1>6, <2>3, <2>4 DEF Modes
        <3> QED
            BY <2>1, <3>2, <3>3 DEF Level
    <2>5. CASE Mode = "sleep"
        <3>1. (CHOOSE mode \in Modes : mode # "sleep") = "nap"
            BY DEF Modes
        <3>2. m \notin powered_down["nap"]
            BY <1>6, <2>2, <2>5, <3>1 DEF InOtherMode
        <3>3. m \notin powered_down'["sleep"] /\ powered_down'["nap"] = powered_down["nap"]
            BY <1>3, <1>6, <2>3, <2>5 DEF Modes
        <3> QED
            BY <2>1, <3>2, <3>3 DEF Level
    <2> QED
        BY <1>2, <2>4, <2>5 DEF Modes
<1> QED
    BY <1>4, <1>5, <1>6

LEMMA PulsesStep == TypeOK /\ IInv /\ PowerInv /\ Next => PulsesCounted'
<1> SUFFICES ASSUME TypeOK, IInv, PowerInv, Next PROVE PulsesCounted'
    OBVIOUS
<1>1. CASE Clocks
    BY <1>1, PulsesClock
<1>2. CASE Aside
    <2>1. UNCHANGED <<pulses, powered_down, disturbed>> /\ pc \notin Driving /\ pc' \notin Driving
        BY <1>2, AsideEffect DEF Driving
    <2> QED
        BY <2>1 DEF PowerInv, PulsesCounted, Level
<1>3. CASE prepare_manual_operation \/ disable_manual_mode
    <2>1. UNCHANGED <<pulses, powered_down, disturbed>> /\ pc \notin Driving /\ pc' \notin Driving
        BY <1>3 DEF prepare_manual_operation, disable_manual_mode, WriteSpi, Access, fsm, config,
           history, Driving
    <2> QED
        BY <2>1 DEF PowerInv, PulsesCounted, Level
<1> QED
    BY <1>1, <1>2, <1>3, PulsesStart, PulsesWritten, PulsesRemembered DEF Next, Continues, Aside

LEMMA PowerInvInit == Init => PowerInv
<1> SUFFICES ASSUME Init PROVE PowerInv
    OBVIOUS
<1>1. /\ pc = "idle" /\ line = 1 /\ call = <<"software", "reset">>
      /\ ss_low = {} /\ sclk_low = {} /\ pulses = [m \in Master |-> 0]
      /\ powered_down = [mode \in Modes |-> {}] /\ NoManual /\ forgotten = {}
    BY DEF Init, CoreInit, NoCall, NoManual
<1>2. DrivenHigh
    BY <1>1 DEF DrivenHigh, Driving
<1>3. Granted /\ LeavesDown /\ ForgottenDisturbed
    BY <1>1 DEF Granted, LeavesDown, ForgottenDisturbed, Driving, Working
<1>4. PulsesCounted
    BY <1>1, AdcAssumption DEF PulsesCounted, Driving, Level, Modes
<1> QED
    BY <1>2, <1>3, <1>4 DEF PowerInv

LEMMA PowerInvStutters == PowerInv /\ UNCHANGED vars => PowerInv'
<1> SUFFICES ASSUME PowerInv, UNCHANGED vars PROVE PowerInv'
    OBVIOUS
<1>1. UNCHANGED <<spi_cr, curstate, spi_manual, manual, busy, ss_low, sclk_low, pulses,
                  powered_down, master_select, call, pc, line, clocked, forgotten, disturbed>>
    BY DEF vars, axi, core, fsm, config, locals, history
<1>2. DrivenHigh'
    BY <1>1 DEF PowerInv, DrivenHigh, NoManual, Line, LowNow, IsLow, LineWrites
<1>3. Granted' /\ LeavesDown' /\ ForgottenDisturbed'
    BY <1>1 DEF PowerInv, Granted, LeavesDown, ForgottenDisturbed
<1>4. PulsesCounted'
    BY <1>1 DEF PowerInv, PulsesCounted, Entering, Leaving, Level, Goal, Mode, Low, Line, Seen
<1> QED
    BY <1>2, <1>3, <1>4 DEF PowerInv

\* Between calls every converter that the driver looks at is in the power mode the driver
\* remembers, unless a trigger or a reset came between its pulses, whichever masters the
\* driver looks at, selects together and powers down at different times.
THEOREM PowerIsRemembered == Spec => []PowerAgrees
<1>1. Init => PowerInv
    BY PowerInvInit
<1>2. TypeOK /\ IInv /\ PowerInv /\ [Next]_vars => PowerInv'
    BY DrivenStep, GrantedStep, LeavesStep, ForgottenStep, PulsesStep, PowerInvStutters
       DEF PowerInv
<1>3. TypeOK /\ IInv /\ PowerInv => PowerAgrees
    <2> SUFFICES ASSUME TypeOK, IInv, PowerInv, pc = "idle", NEW m \in Tested \ disturbed
                 PROVE  Power(m) = Remembered(m)
        BY DEF PowerAgrees
    <2>1. pulses[m] = Level(m)
        BY DEF PowerInv, PulsesCounted, Driving
    <2> QED
        BY <2>1, PulseAssumption DEF Power, Remembered, Level
<1> QED
    BY <1>1, <1>2, <1>3, InvHolds, PTL DEF Spec

===============================================================================
