------------------------------ MODULE AdcSampling ------------------------------
(***************************************************************************)
(* The sampling chain of the fast ADCs: the trigger divided from the clock *)
(* of the control interrupt (MZ_CLOCK_FLAG_DIV, mz_adcSampleClock.c), the  *)
(* converter, and one channel of the averager that restarts with every     *)
(* interrupt (MZ_AVERAGER_8CH, mz_averager.c).  Time is counted in clocks; *)
(* both clocks of the chain are the same one here.  The drivers access the *)
(* registers between clocks, at least one clock apart.                     *)
(***************************************************************************)
EXTENDS Integers

CONSTANTS
    Divider,       \* N: clocks in a period of the interrupt
    Requests,      \* samples per period the sample clock is asked for
    Averages,      \* samples the averager is asked for
    MaxSamples,    \* max_samples: 2**MAX_AVG_LOG2 of the core
    Conversion,    \* clocks from a trigger to RAW_VALID
    CuentasCalcAvg \* cuentas_calc_avg: clocks the average takes

VARIABLES
    irq_count,                 \* counter of MZ_CLOCK_DIV: 0 is the edge of the interrupt
    divider, run,              \* registers of the sample clock
    age,                       \* clocks since its reset ended, up to 3
    ready, max, count, clock,  \* FD_READY, MAX, COUNT, CLOCK
    conv,                      \* clocks since the conversion was triggered, 0 when idle
    raw_valid, raw_before,     \* RAW_VALID, and a clock ago
    samples, enabled,          \* registers of the averager
    max_datos, loads,          \* MAX_DATOS, CONT_MAX_INICIADO
    cont_datos, cont_calc, sync_wait, avg_done,
    pc, arg, slept,            \* the drivers: next access, its value, clocks slept
    current_samples,
    clocked,                   \* a clock went by since the last access
    position,                  \* history: samples since the averager saw the interrupt,
    whole,                     \* the average began with the first of them,
    windows                    \* averages done since enable or trigger changed, up to 3

irq       == irq_count
trigger   == <<age, ready, max, count, clock>>
converter == <<conv, raw_valid, raw_before>>
averager  == <<max_datos, loads, cont_datos, cont_calc, sync_wait, avg_done>>
registers == <<divider, run, samples, enabled>>
driver    == <<pc, arg, current_samples>>
history   == <<position, whole, windows>>
vars == <<irq, trigger, converter, averager, registers, driver, slept, clocked, history>>

AtMost(a, b) == IF a < b THEN a ELSE b
AtLeast(a, b) == IF a > b THEN a ELSE b

-----------------------------------------------------------------------------
(* The arithmetic of the drivers *)

\* The nearest integer, rounded down to an even one, of a ratio a / b.  (The code
\* divides in float, exactly whenever the ratio is an integer below 2^24.)
even_divider(a, b) == AtLeast(2, 2 * (((2 * a + b) \div (2 * b)) \div 2))

\* The powers of two: the least set that has 1 and the doubles of its elements
Pow2 ==
    {p \in 1..MaxSamples :
        \A S \in SUBSET (1..MaxSamples) :
            1 \in S /\ (\A q \in S : 2 * q <= MaxSamples => 2 * q \in S) => p \in S}

\* The loop doubles while it does not exceed n.
floor_pow2(n) ==
    LET double[p \in Pow2] == IF 2 * p <= n THEN double[2 * p] ELSE p
    IN  double[1]

\* 2**log2_floor(n) of the core
Loaded(n) == CHOOSE p \in Pow2 : p <= n /\ \A q \in Pow2 : q <= n => q <= p

\* Both drivers refuse a zero; an ADC faster than its conversion would ignore triggers
\* (main.c: f_adc <= 2 MHz), and the average has to be done before the next interrupt.
ASSUME SamplingAssumption ==
    /\ {Divider, MaxSamples, Conversion, CuentasCalcAvg} \subseteq Nat \ {0}
    /\ Requests \subseteq Nat \ {0} /\ Averages \subseteq 1..MaxSamples
    /\ 4 <= Divider /\ 2 <= Conversion
    /\ \A n \in Requests : Conversion + CuentasCalcAvg + 2 <= even_divider(Divider, n)

-----------------------------------------------------------------------------
(* The interrupt *)

\* Its level some clocks ago
IrqAt(ago) == 2 * ((irq_count - ago) % Divider) < Divider

\* The edge as a synchroniser of two stages sees it
IrqEdge == irq_count = 2

Interrupt == irq_count' = (irq_count + 1) % Divider

-----------------------------------------------------------------------------
(* MZ_CLOCK_FLAG_DIV_CORE *)

\* The reset clears the synchroniser, so an interrupt that is high when the reset ends
\* looks like an edge.
SeesEdge == 2 <= age /\ IrqAt(2) /\ (3 <= age => ~IrqAt(3))

\* Faulty variant: half a period is a clock too long.
ToggleLate ==
    /\ ready
    /\ clock' = (IF count > max \div 2 THEN ~clock ELSE clock)
    /\ count' = (IF count > max \div 2 THEN 1 ELSE count + 1)
    /\ UNCHANGED <<ready, max>>

Toggle ==
    /\ ready
    /\ clock' = (IF count >= max \div 2 THEN ~clock ELSE clock)
    /\ count' = (IF count >= max \div 2 THEN 1 ELSE count + 1)
    /\ UNCHANGED <<ready, max>>

AwaitIrq ==
    /\ ~ready
    /\ max' = divider
    /\ ready' = (2 <= max /\ SeesEdge)
    /\ clock' = ready'
    /\ count' = IF ready' THEN 2 ELSE count

SampleClock ==
    \/ /\ run
       /\ Toggle \/ AwaitIrq
       /\ age' = AtMost(3, age + 1)
    \/ /\ ~run
       /\ age' = 0 /\ ready' = FALSE /\ max' = 1 /\ count' = 1 /\ clock' = FALSE

-----------------------------------------------------------------------------
(* The converter: RAW_VALID stays from the end of a conversion to the next one. *)

Converter ==
    /\ conv' = CASE conv = 0          -> IF clock' /\ ~clock THEN 1 ELSE 0
                 [] conv = Conversion -> 0
                 [] OTHER             -> conv + 1
    /\ raw_valid' = CASE conv = 1          -> FALSE
                      [] conv = Conversion -> TRUE
                      [] OTHER             -> raw_valid
    /\ raw_before' = raw_valid

-----------------------------------------------------------------------------
(* MZ_AVERAGER_8CH_CHANNEL *)

NewData == raw_valid /\ ~raw_before
OldData == ~raw_valid /\ raw_before

Full == cont_datos >= max_datos

\* Faulty variant: an edge is forgotten if no sample comes with it.
SyncedNow == IrqEdge

\* An edge of the interrupt, now or since the last restart
Synced == sync_wait \/ IrqEdge

\* A disabled channel takes the register anew after an interrupt and a sample.
Reload == ~enabled /\ Synced /\ OldData /\ avg_done

Load ==
    LET loading == loads < 2 /\ samples # 0
    IN  /\ max_datos' = IF loading THEN Loaded(samples) ELSE max_datos
        /\ loads' = IF Reload THEN 0 ELSE IF loading THEN loads + 1 ELSE loads

\* Faulty variant: samples are counted when the average is full, too.
AccumulateOn ==
    /\ enabled
    /\ cont_datos' = IF NewData THEN cont_datos + 1 ELSE cont_datos
    /\ UNCHANGED <<cont_calc, sync_wait, avg_done>>

Accumulate ==
    /\ enabled /\ ~Full
    /\ cont_datos' = IF NewData THEN cont_datos + 1 ELSE cont_datos
    /\ UNCHANGED <<cont_calc, sync_wait, avg_done>>

Calculate ==
    /\ enabled /\ Full /\ cont_calc < CuentasCalcAvg
    /\ cont_calc' = cont_calc + 1
    /\ avg_done' = (avg_done \/ cont_calc' = CuentasCalcAvg)
    /\ UNCHANGED <<cont_datos, sync_wait>>

\* Faulty variant: an average begins without waiting for the interrupt.
RestartsFree == enabled /\ Full /\ cont_calc >= CuentasCalcAvg /\ NewData

Restarts == enabled /\ Full /\ cont_calc >= CuentasCalcAvg /\ Synced /\ NewData

Restart ==
    /\ enabled /\ Full /\ cont_calc >= CuentasCalcAvg
    /\ cont_datos' = IF Restarts THEN 1 ELSE cont_datos
    /\ cont_calc' = IF Restarts THEN 0 ELSE cont_calc
    /\ avg_done' = (avg_done /\ ~Restarts)
    /\ sync_wait' = (Synced /\ ~Restarts)

Pass ==
    /\ ~enabled
    /\ avg_done' = CASE Reload -> FALSE [] Synced /\ NewData -> TRUE [] OTHER -> avg_done
    /\ sync_wait' = (Synced /\ ~(NewData /\ ~avg_done))
    /\ cont_datos' = IF Reload THEN 0 ELSE cont_datos
    /\ cont_calc' = IF Reload THEN 0 ELSE cont_calc

Averager ==
    /\ Load
    /\ Accumulate \/ Calculate \/ Restart \/ Pass

-----------------------------------------------------------------------------
(* A clock *)

\* Samples of the period in which a sample that comes now is counted
Counted == IF IrqEdge THEN 0 ELSE position

WindowBegins == enabled /\ NewData /\ (Restarts \/ (~Full /\ cont_datos = 0))

History ==
    /\ position' = Counted + (IF NewData THEN 1 ELSE 0)
    /\ whole' = IF WindowBegins THEN Counted = 0 ELSE whole /\ ~IrqEdge
    /\ windows' = IF ~enabled \/ ~ready THEN 0
                  ELSE IF avg_done' /\ ~avg_done THEN AtMost(3, windows + 1)
                  ELSE windows

\* Faulty variant: it sleeps a single period.
SleepClocksOne == Divider

\* usleep of three periods and some more
SleepClocks == 3 * Divider

Clock ==
    /\ Interrupt /\ SampleClock /\ Converter /\ Averager /\ History
    /\ slept' = IF pc = "sleep" THEN AtMost(SleepClocks, slept + 1) ELSE 0
    /\ clocked' = TRUE
    /\ UNCHANGED <<registers, driver>>

-----------------------------------------------------------------------------
(* The drivers *)

Access(from, to) ==
    /\ pc = from /\ pc' = to
    /\ clocked /\ clocked' = FALSE
    /\ UNCHANGED <<irq, trigger, converter, averager, slept, history>>

\* load_divider: stop, write, start; also what mz_adcSampleClock_set_frequency does
\* with the same ratio.
mz_adcSampleClock_set_samples_per_isr ==
    \/ \E n \in Requests :
          /\ Access("idle", "divider")
          /\ run' = FALSE /\ arg' = even_divider(Divider, n)
          /\ UNCHANGED <<divider, samples, enabled, current_samples>>
    \/ /\ Access("divider", "start")
       /\ divider' = arg
       /\ UNCHANGED <<run, samples, enabled, arg, current_samples>>
    \/ /\ Access("start", "idle")
       /\ run' = TRUE /\ arg' = 0
       /\ UNCHANGED <<divider, samples, enabled, current_samples>>

mz_adcSampleClock_stop ==
    /\ Access("idle", "idle")
    /\ run /\ run' = FALSE
    /\ UNCHANGED <<divider, samples, enabled, arg, current_samples>>

\* "hay que llamarla con la interrupcion y el trigger del ADC ya en marcha"
mz_averager_set_samples ==
    \/ \E n \in Averages :
          /\ run
          /\ Access("idle", "disable")
          /\ samples' = n /\ arg' = n
          /\ UNCHANGED <<divider, run, enabled, current_samples>>
    \/ /\ Access("disable", "sleep")
       /\ enabled' = FALSE
       /\ UNCHANGED <<divider, run, samples, arg, current_samples>>
    \/ /\ slept = SleepClocks
       /\ Access("sleep", "idle")
       /\ enabled' = TRUE
       /\ current_samples' = floor_pow2(arg) /\ arg' = 0
       /\ UNCHANGED <<divider, run, samples>>

mz_averager_disable ==
    /\ Access("idle", "idle")
    /\ enabled /\ enabled' = FALSE
    /\ current_samples' = 0
    /\ UNCHANGED <<divider, run, samples, arg>>

Drivers ==
    \/ mz_adcSampleClock_set_samples_per_isr \/ mz_adcSampleClock_stop
    \/ mz_averager_set_samples \/ mz_averager_disable

Init ==
    /\ irq_count \in 0..(Divider - 1)
    /\ divider = 0 /\ run = FALSE
    /\ age = 0 /\ ready = FALSE /\ max = 1 /\ count = 1 /\ clock = FALSE
    /\ conv = 0 /\ raw_valid = FALSE /\ raw_before = FALSE
    /\ samples = 0 /\ enabled = FALSE
    /\ max_datos = 1 /\ loads = 0
    /\ cont_datos = 0 /\ cont_calc = 0 /\ sync_wait = FALSE /\ avg_done = FALSE
    /\ pc = "idle" /\ arg = 0 /\ slept = 0 /\ current_samples = 0 /\ clocked = TRUE
    /\ position = 0 /\ whole = FALSE /\ windows = 0

Next == Clock \/ Drivers

Spec == Init /\ [][Next]_vars

\* Clocks go on; no call need come.
FairSpec == Spec /\ WF_vars(Clock)

-----------------------------------------------------------------------------
(* Properties *)

\* Type invariant: registers, counters of the cores and locals of the drivers.
TypeOK ==
    /\ irq_count \in 0..(Divider - 1)
    /\ {run, ready, clock, raw_valid, raw_before, enabled, sync_wait, avg_done,
        clocked, whole} \subseteq BOOLEAN
    /\ {divider, arg, samples, current_samples, position} \subseteq Nat
    /\ age \in 0..3 /\ loads \in 0..2 /\ windows \in 0..3
    /\ max \in Nat /\ count \in Nat
    /\ conv \in 0..Conversion
    /\ max_datos \in Pow2 /\ cont_datos \in 0..MaxSamples /\ cont_calc \in 0..CuentasCalcAvg
    /\ pc \in {"idle", "divider", "start", "disable", "sleep"}
    /\ slept \in 0..SleepClocks

\* mz_averager.h: the number mz_averager_set_samples returns is the one the hardware
\* averages, whenever it is called with the interrupt and the trigger running.
NumberTaken == pc # "disable" /\ enabled /\ current_samples # 0 => max_datos = current_samples

\* The period of the trigger that a clock belongs to begins with the rise of CLOCK.
Elapsed == IF clock THEN count - 1 ELSE max \div 2 + count - 1

\* Where the interrupt is when the trigger comes
Offset == (irq_count - Elapsed) % max

Exact == ready /\ Divider % max = 0

\* mz_adcSampleClock.h: with an exact divisor the trigger does not drift against the
\* interrupt, so that every period contains the same number of samples.
TriggerKeepsStep == [][Exact /\ ready' => Offset' = Offset]_vars

\* The trigger was started by an edge of the interrupt.
InStep == Exact /\ Offset = 2 % max

Settled ==
    /\ InStep /\ enabled /\ windows = 3 /\ pc # "disable"
    /\ 0 < current_samples /\ current_samples <= Divider \div max

\* main.c: the interrupt finds the average of the samples of the period that ends with
\* it (of the first ones, if the averager was asked for fewer), from the fourth average
\* on after a change and if the trigger was started by an edge of the interrupt.
PeriodAverage ==
    Settled /\ IrqEdge =>
        avg_done /\ whole /\ cont_datos = current_samples /\ position = Divider \div max

\* The averager never gets stuck: as long as it is enabled and triggered, averages are
\* done and begun, whichever calls came before and whenever.
AveragesGoOn ==
    <>[](enabled /\ ready) => []<>avg_done /\ []<>~avg_done

\* mz_adcSampleClock.c:39 "Al arrancar se sincroniza con el primer flanco de la
\* interrupcion": the trigger starts only with an edge of the interrupt.
StartsAtInterrupt == [][~ready /\ ready' => IrqEdge]_vars

===============================================================================
