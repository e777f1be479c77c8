--------------------------- MODULE AdcAveragerProofs ---------------------------
(***************************************************************************)
(* Proofs about the averager of AdcSampling, for every period of the       *)
(* interrupt: the channel averages the number of samples the driver        *)
(* returns, and every average is of the samples of one period.             *)
(***************************************************************************)
EXTENDS AdcSamplingProofs

-----------------------------------------------------------------------------
(* The number the hardware averages *)

\* Periods of the trigger: a conversion and an average fit into one of them, and one
\* of them into a period of the interrupt.
Roomy == {d \in Even : Conversion + CuentasCalcAvg + 2 <= d /\ d <= Divider}

Rooms ==
    /\ run \/ pc = "start" => divider \in Roomy
    /\ pc = "divider" => arg \in Roomy
    /\ ready => max \in Roomy

\* The sample clock runs while the averager waits, for long enough to have taken its
\* divider.
Running ==
    /\ pc \in {"divider", "start"} => ~run
    /\ pc \in {"disable", "sleep"} => run /\ 1 <= age
    /\ pc = "sleep" \/ (pc = "disable" /\ clocked) => 2 <= age
    /\ clocked => IF run THEN 1 <= age ELSE age = 0
    /\ run /\ ~ready /\ 1 <= age => max = divider

\* RAW_VALID falls with a conversion and rises with its end, and before the first rise
\* nothing is counted.
Counting == avg_done \/ 0 < cont_datos

Samples ==
    /\ 2 <= conv => ~raw_valid
    /\ NewData => conv = 0
    /\ Counting => raw_valid \/ 2 <= conv
    /\ Counting /\ conv = 2 => raw_before

\* A conversion that the trigger began
Regular ==
    /\ Elapsed < Conversion => conv = Elapsed + 1
    /\ Elapsed = Conversion => NewData

\* The trigger was started this period, by the interrupt being high; a conversion of
\* an earlier trigger may go on.
JustStarted ==
    \E x \in {irq_count - Elapsed, irq_count - Elapsed + Divider} :
        2 <= x /\ 2 * (x - 2) < Divider

Conversions ==
    /\ clock => ready
    /\ ready =>
          /\ conv = 0 \/ Elapsed <= conv
          /\ Elapsed = 0 => conv = 1
          /\ Elapsed <= Conversion => Regular \/ JustStarted

\* Clocks to the next edge of the interrupt, the next sample and the end of that one
ToEdge == IF irq_count <= 2 THEN 2 - irq_count ELSE Divider + 2 - irq_count

ToSample ==
    CASE NewData             -> 0
      [] ~NewData /\ conv # 0 -> Conversion + 1 - conv
      [] ~NewData /\ conv = 0 -> max - Elapsed + Conversion

ToEnd ==
    CASE OldData             -> 0
      [] ~OldData /\ conv = 1 -> 1
      [] ~OldData /\ conv # 1 -> max - Elapsed + 1

\* While the driver sleeps the channel takes the register: at the latest it sees an
\* interrupt in the first period, a sample in the second, and in the third one its end,
\* after another interrupt.
Awaited ==
    \/ slept + ToEdge < Divider
    \/ ready /\ sync_wait /\ ~avg_done /\ ToSample < ToEdge /\ slept + ToEdge < 2 * Divider
    \/ ready /\ avg_done /\ slept + ToEdge < 2 * Divider
    \/ ready /\ avg_done /\ sync_wait /\ slept + ToEnd < 3 * Divider - 1

Sleeping ==
    /\ clocked /\ pc # "sleep" => slept = 0
    /\ pc = "sleep" => ~enabled /\
        (\/ max_datos = Loaded(samples)
         \/ loads < 2 /\ slept < 3 * Divider
         \/ Awaited)

Taken ==
    enabled /\ pc # "disable" =>
        samples # 0 /\ max_datos = Loaded(samples) /\ current_samples = Loaded(samples)

TakenInv == Rooms /\ Running /\ Samples /\ Conversions /\ Sleeping /\ Taken

LEMMA RequestsRoomy == \A n \in Requests : even_divider(Divider, n) \in Roomy
  <1>. SUFFICES ASSUME NEW n \in Requests PROVE even_divider(Divider, n) \in Roomy
    OBVIOUS
  <1>. DEFINE d == even_divider(Divider, n)
  <1>. DEFINE t == (2 * Divider + n) \div (2 * n)
  <1>1. n \in Nat \ {0} /\ Divider \in Nat /\ 4 <= Divider
    BY SamplingAssumption
  <1>2. d \in Even /\ Conversion + CuentasCalcAvg + 2 <= d
    BY RequestsEven, SamplingAssumption
  <1>3. d = AtLeast(2, 2 * (t \div 2))
    BY DEF even_divider
  <1>4. t \in Int /\ t <= Divider
    <2>. DEFINE m == 2 * n
    <2>. DEFINE x == 2 * Divider + n
    <2>1. m \in Nat \ {0} /\ x \in Int
      BY <1>1
    <2>2. t \in Int /\ x % m \in 0..(m - 1) /\ x = m * t + (x % m)
      <3>. HIDE DEF m, x
      <3>1. x \div m \in Int /\ x % m \in 0..(m - 1) /\ x = m * (x \div m) + (x % m)
        BY <2>1, Division
      <3>. QED BY <3>1 DEF m, x
    <2>. DEFINE r == x % m
    <2>3. r \in Nat /\ 2 * Divider + n = (2 * n) * t + r
      BY <1>1, <2>1, <2>2
    <2>. HIDE DEF t, r
    <2>4. ASSUME t >= Divider + 1 PROVE FALSE
      <3>1. n * t >= n * (Divider + 1)
        BY <1>1, <2>2, <2>4
      <3>2. n * (Divider + 1) = n * Divider + n /\ n * Divider >= Divider /\ n * Divider \in Nat
        BY <1>1
      <3>. DEFINE y == n * t
      <3>. DEFINE z == n * Divider
      <3>3. (2 * n) * t = 2 * y /\ y \in Int
        BY <1>1, <2>2
      <3>4. y >= z + n /\ z >= Divider /\ z \in Nat
        BY <3>1, <3>2
      <3>. HIDE DEF y, z
      <3>. QED BY <1>1, <2>3, <3>3, <3>4
    <2>. QED BY <1>1, <2>2, <2>4
  <1>. HIDE DEF d, t
  <1>5. d <= Divider
    <2>1. 2 * (t \div 2) <= t
      BY <1>4
    <2>2. 2 * (t \div 2) \in Int
      BY <1>4
    <2>. QED BY <1>1, <1>3, <1>4, <2>1, <2>2 DEF AtLeast
  <1>6. d \in Roomy
    BY <1>2, <1>5 DEF Roomy
  <1>. QED BY <1>6 DEF d

LEMMA RoomyNumbers ==
    /\ {Divider, Conversion, CuentasCalcAvg} \subseteq Nat \ {0}
    /\ 4 <= Divider /\ 2 <= Conversion
    /\ \A d \in Roomy : d \in Even /\ d \in Nat /\ Conversion + CuentasCalcAvg + 2 <= d /\ d <= Divider
  BY SamplingAssumption DEF Roomy, Even

LEMMA RoomsClock == ASSUME Rooms, SampleClock, UNCHANGED <<registers, driver>> PROVE Rooms'
  <1>1. ready' => max' \in Roomy
    <2>1. CASE Toggle
      BY <2>1 DEF Toggle, Rooms
    <2>2. CASE run /\ AwaitIrq
      BY <2>2 DEF AwaitIrq, Rooms
    <2>3. CASE ~run /\ ready' = FALSE
      BY <2>3
    <2>. QED BY <2>1, <2>2, <2>3 DEF SampleClock
  <1>. QED BY <1>1 DEF Rooms, registers, driver

LEMMA RoomsDrivers == ASSUME Rooms, Drivers PROVE Rooms'
  <1>. USE DEF Rooms, Access, trigger
  <1>1. CASE mz_adcSampleClock_set_samples_per_isr
    <2>. USE <1>1 DEF mz_adcSampleClock_set_samples_per_isr
    <2>1. CASE pc = "idle"
      <3>1. PICK n \in Requests : Access("idle", "divider") /\ run' = FALSE
                                  /\ arg' = even_divider(Divider, n) /\ divider' = divider
        BY <2>1
      <3>2. arg' \in Roomy
        BY <3>1, RequestsRoomy
      <3>3. pc' = "divider" /\ UNCHANGED <<ready, max>>
        BY <3>1
      <3>. QED BY <3>1, <3>2, <3>3
    <2>2. CASE pc = "divider"
      BY <2>2
    <2>3. CASE pc = "start"
      BY <2>3
    <2>. QED BY <2>1, <2>2, <2>3
  <1>2. CASE mz_adcSampleClock_stop
    BY <1>2 DEF mz_adcSampleClock_stop
  <1>3. CASE mz_averager_set_samples
    BY <1>3 DEF mz_averager_set_samples
  <1>4. CASE mz_averager_disable
    BY <1>4 DEF mz_averager_disable
  <1>. QED BY <1>1, <1>2, <1>3, <1>4 DEF Drivers

LEMMA RunningClock == ASSUME Typed, Running, Clock PROVE Running'
  <1>1. UNCHANGED <<pc, run, divider>> /\ clocked' = TRUE /\ SampleClock /\ age \in 0..3
    BY DEF Clock, registers, driver, Typed, Numbers
  <1>2. CASE run
    <2>1. age' = AtMost(3, age + 1) /\ (Toggle \/ AwaitIrq)
      BY <1>1, <1>2 DEF SampleClock
    <2>2. 1 <= age' /\ (1 <= age => 2 <= age')
      BY <1>1, <2>1 DEF AtMost
    <2>3. ~ready' => max' = divider
      BY <2>1 DEF Toggle, AwaitIrq
    <2>. QED BY <1>1, <1>2, <2>2, <2>3 DEF Running
  <1>3. CASE ~run
    <2>1. age' = 0
      BY <1>1, <1>3 DEF SampleClock
    <2>. QED BY <1>1, <1>3, <2>1 DEF Running
  <1>. QED BY <1>2, <1>3

LEMMA RunningDrivers == ASSUME Typed, Running, Drivers PROVE Running'
  <1>. USE DEF Running, Access, trigger
  <1>0. clocked' = FALSE /\ UNCHANGED <<age, ready, max>> /\ clocked /\ age \in 0..3
    BY DEF Drivers, mz_adcSampleClock_set_samples_per_isr, mz_adcSampleClock_stop,
       mz_averager_set_samples, mz_averager_disable, Typed, Numbers
  <1>1. CASE mz_adcSampleClock_set_samples_per_isr
    <2>. USE <1>1 DEF mz_adcSampleClock_set_samples_per_isr
    <2>1. CASE pc = "idle"
      BY <1>0, <2>1
    <2>2. CASE pc = "divider"
      BY <1>0, <2>2
    <2>3. CASE pc = "start"
      BY <1>0, <2>3
    <2>. QED BY <2>1, <2>2, <2>3
  <1>2. CASE mz_adcSampleClock_stop
    BY <1>0, <1>2 DEF mz_adcSampleClock_stop
  <1>3. CASE mz_averager_set_samples
    BY <1>0, <1>3 DEF mz_averager_set_samples
  <1>4. CASE mz_averager_disable
    BY <1>0, <1>4 DEF mz_averager_disable
  <1>. QED BY <1>1, <1>2, <1>3, <1>4 DEF Drivers

\* A clock of the converter
LEMMA Converts ==
    ASSUME Typed, Converter
    PROVE  /\ conv = 0 /\ ~(clock' /\ ~clock) => conv' = 0
           /\ conv = 0 /\ clock' /\ ~clock => conv' = 1
           /\ conv # 0 /\ conv # Conversion => conv' = conv + 1
           /\ conv = Conversion => conv' = 0 /\ raw_valid'
           /\ conv = 1 => ~raw_valid'
           /\ conv # 1 /\ conv # Conversion => (raw_valid' <=> raw_valid)
           /\ raw_before' <=> raw_valid
           /\ conv \in 0..Conversion /\ conv' \in 0..Conversion
           /\ Conversion \in Nat /\ 2 <= Conversion
  <1>0. Conversion \in Nat /\ 2 <= Conversion /\ conv \in 0..Conversion
    BY SamplingAssumption DEF Typed, Numbers
  <1>1. conv' \in 0..Conversion
    BY ConverterType
  <1>2. CASE conv = 0
    BY <1>0, <1>1, <1>2 DEF Converter
  <1>3. CASE conv = 1
    BY <1>0, <1>1, <1>3 DEF Converter
  <1>4. CASE conv = Conversion
    <2>1. conv # 0 /\ conv # 1
      BY <1>0, <1>4
    <2>2. conv' = 0
      BY <1>0, <1>4, <2>1 DEF Converter
    <2>3. raw_valid'
      BY <1>0, <1>4, <2>1 DEF Converter
    <2>4. raw_before' <=> raw_valid
      BY DEF Converter
    <2>. QED BY <1>0, <1>1, <1>4, <2>1, <2>2, <2>3, <2>4
  <1>5. CASE conv # 0 /\ conv # 1 /\ conv # Conversion
    BY <1>0, <1>1, <1>5 DEF Converter
  <1>. QED BY <1>2, <1>3, <1>4, <1>5

LEMMA SamplesClock == ASSUME Typed, Samples, Converter, Averager PROVE Samples'
  <1>. USE Converts
  <1>1. 2 <= conv' => ~raw_valid'
    BY DEF Samples
  <1>2. NewData' => conv' = 0
    BY DEF Samples, NewData
  <1>3. Counting' => Counting \/ NewData
    <2>1. cont_datos \in Nat /\ max_datos \in Nat /\ 1 <= max_datos
      BY PowersDouble DEF Typed, Numbers
    <2>2. CASE Accumulate
      BY <2>2 DEF Accumulate, Counting
    <2>3. CASE Calculate
      <3>1. 0 < cont_datos
        BY <2>1, <2>3 DEF Calculate, Full
      <3>. QED BY <3>1 DEF Counting
    <2>4. CASE Restart
      BY <2>4 DEF Restart, Restarts, Counting
    <2>5. CASE Pass
      <3>1. CASE Reload
        BY <2>5, <3>1 DEF Pass, Counting
      <3>2. CASE ~Reload
        BY <2>5, <3>2 DEF Pass, Counting
      <3>. QED BY <3>1, <3>2
    <2>. QED BY <2>2, <2>3, <2>4, <2>5 DEF Averager
  <1>4. NewData => raw_valid /\ conv = 0
    BY DEF Samples, NewData
  <1>5. Counting' => raw_valid' \/ 2 <= conv'
    <2>1. CASE Counting
      <3>1. raw_valid \/ 2 <= conv
        BY <2>1 DEF Samples
      <3>. QED BY <3>1
    <2>2. CASE NewData
      BY <1>4, <2>2
    <2>. QED BY <1>3, <2>1, <2>2
  <1>6. Counting' /\ conv' = 2 => raw_before'
    <2>. SUFFICES ASSUME Counting', conv' = 2 PROVE raw_before'
      OBVIOUS
    <2>1. conv = 1
      OBVIOUS
    <2>2. Counting
      BY <1>3, <1>4, <2>1
    <2>3. raw_valid
      BY <2>1, <2>2 DEF Samples
    <2>. QED BY <2>3
  <1>. QED BY <1>1, <1>2, <1>5, <1>6 DEF Samples


\* A clock of a trigger that runs
LEMMA Elapses ==
    ASSUME TriggerCounts, Toggle
    PROVE  /\ ready /\ ready' /\ max' = max /\ max \in Nat /\ 4 <= max
           /\ Elapsed \in 0..(max - 1)
           /\ Elapsed = max - 1 => Elapsed' = 0 /\ clock' /\ ~clock
           /\ Elapsed # max - 1 => Elapsed' = Elapsed + 1 /\ ~(clock' /\ ~clock)
  <1>. DEFINE h == max \div 2
  <1>1. ready /\ max \in Nat /\ 4 <= max /\ max = 2 * h /\ h \in Nat /\ h >= 2 /\ count \in 1..h
    BY DEF TriggerCounts, Toggle, Even
  <1>2. /\ max' = max /\ h' = h /\ clock \in BOOLEAN
        /\ clock' = (IF count >= h THEN ~clock ELSE clock)
        /\ count' = (IF count >= h THEN 1 ELSE count + 1)
    BY <1>1 DEF TriggerCounts, Toggle
  <1>3. ready'
    BY <1>1 DEF Toggle
  <1>4. /\ Elapsed = IF clock THEN count - 1 ELSE h + count - 1
        /\ Elapsed' = IF clock' THEN count' - 1 ELSE h + count' - 1
    BY <1>2 DEF Elapsed
  <1>. HIDE DEF h
  <1>5. CASE count >= h /\ clock
    <2>1. count = h /\ count' = 1
      BY <1>1, <1>2, <1>5
    <2>2. clock' = ~clock
      BY <1>2, <1>5
    <2>3. ~clock'
      BY <1>5, <2>2
    <2>4. Elapsed = h - 1 /\ Elapsed' = h
      BY <1>1, <1>4, <1>5, <2>1, <2>3
    <2>. QED BY <1>1, <1>2, <1>3, <2>3, <2>4
  <1>6. CASE count >= h /\ ~clock
    <2>1. count = h /\ count' = 1
      BY <1>1, <1>2, <1>6
    <2>2. clock' = ~clock
      BY <1>2, <1>6
    <2>3. clock'
      BY <1>6, <2>2
    <2>4. Elapsed = h + h - 1 /\ Elapsed' = 0
      BY <1>1, <1>4, <1>6, <2>1, <2>3
    <2>. QED BY <1>1, <1>2, <1>3, <1>6, <2>3, <2>4
  <1>7. CASE count < h
    <2>1. ~(count >= h)
      BY <1>1, <1>7
    <2>2. clock' = clock /\ count' = count + 1
      BY <1>2, <2>1
    <2>3. Elapsed' = Elapsed + 1 /\ Elapsed \in 0..(2 * h - 2)
      <3>1. CASE clock
        BY <1>1, <1>4, <1>7, <2>2, <3>1
      <3>2. CASE ~clock
        BY <1>1, <1>4, <1>7, <2>2, <3>2
      <3>. QED BY <3>1, <3>2
    <2>4. ~(clock' /\ ~clock)
      BY <2>2
    <2>. QED BY <1>1, <1>2, <1>3, <2>3, <2>4
  <1>. QED BY <1>1, <1>5, <1>6, <1>7

\* The level of the interrupt two clocks ago
LEMMA LevelSeen ==
    ASSUME irq_count \in 0..(Divider - 1)
    PROVE  /\ IrqAt(2) <=> 2 <= irq_count /\ 2 * (irq_count - 2) < Divider
           /\ IrqEdge => IrqAt(2) /\ ~IrqAt(3)
  <1>1. Divider \in Nat \ {0} /\ 4 <= Divider
    BY RoomyNumbers
  <1>2. 2 <= irq_count => (irq_count - 2) % Divider = irq_count - 2
    <2>. SUFFICES ASSUME 2 <= irq_count PROVE (irq_count - 2) % Divider = irq_count - 2
      OBVIOUS
    <2>. DEFINE r == irq_count - 2
    <2>1. r \in 0..(Divider - 1) /\ r = Divider * 0 + r
      BY <1>1
    <2>. HIDE DEF r
    <2>2. (Divider * 0 + r) % Divider = r
      BY <1>1, <2>1, Remainder
    <2>. QED BY <2>1, <2>2 DEF r
  <1>3. \A a \in {-1, -2} : a % Divider = a + Divider
    <2>. SUFFICES ASSUME NEW a \in {-1, -2} PROVE a % Divider = a + Divider
      OBVIOUS
    <2>. DEFINE r == a + Divider
    <2>1. r \in 0..(Divider - 1) /\ a = Divider * (-1) + r
      BY <1>1
    <2>. HIDE DEF r
    <2>2. (Divider * (-1) + r) % Divider = r
      BY <1>1, <2>1, Remainder
    <2>. QED BY <2>1, <2>2 DEF r
  <1>4. irq_count < 2 => (irq_count - 2) % Divider = irq_count - 2 + Divider
    <2>. SUFFICES ASSUME irq_count < 2 PROVE (irq_count - 2) % Divider = irq_count - 2 + Divider
      OBVIOUS
    <2>. DEFINE a == irq_count - 2
    <2>1. a \in {-1, -2}
      BY <1>1
    <2>. HIDE DEF a
    <2>2. a % Divider = a + Divider
      BY <1>3, <2>1
    <2>. QED BY <2>2 DEF a
  <1>5. IrqAt(2) <=> 2 <= irq_count /\ 2 * (irq_count - 2) < Divider
    BY <1>1, <1>2, <1>4 DEF IrqAt
  <1>6. IrqEdge => ~IrqAt(3)
    <2>. SUFFICES ASSUME irq_count = 2 PROVE ~IrqAt(3)
      BY DEF IrqEdge
    <2>1. irq_count - 3 = -1
      OBVIOUS
    <2>2. (-1) % Divider = Divider - 1
      BY <1>1, <1>3
    <2>. QED BY <1>1, <2>1, <2>2 DEF IrqAt
  <1>. QED BY <1>1, <1>5, <1>6 DEF IrqEdge

\* The trigger starts while the interrupt is high.
LEMMA Starts ==
    ASSUME Typed, Conversions, AwaitIrq, ready'
    PROVE  /\ Elapsed' = 1 /\ clock' /\ ~clock
           /\ 2 <= irq_count /\ 2 * (irq_count - 2) < Divider
  <1>1. ~ready /\ count' = 2 /\ clock' = ready' /\ SeesEdge
    BY DEF AwaitIrq
  <1>2. clock' /\ ~clock
    BY <1>1 DEF Conversions
  <1>3. Elapsed' = 1
    BY <1>1, <1>2 DEF Elapsed
  <1>4. irq_count \in 0..(Divider - 1) /\ IrqAt(2)
    BY <1>1 DEF SeesEdge, Typed, Numbers
  <1>. QED BY <1>2, <1>3, <1>4, LevelSeen

LEMMA StartRemembered ==
    ASSUME irq_count \in 0..(Divider - 1), Interrupt, JustStarted,
           Elapsed \in Nat, Elapsed + 1 < Divider, Elapsed' = Elapsed + 1
    PROVE  JustStarted'
  <1>1. irq_count' = irq_count + 1 \/ (irq_count' = irq_count + 1 - Divider /\ irq_count = Divider - 1)
    BY InterruptCounts, RoomyNumbers
  <1>2. PICK x \in {irq_count - Elapsed, irq_count - Elapsed + Divider} :
           2 <= x /\ 2 * (x - 2) < Divider
    BY DEF JustStarted
  <1>3. Divider \in Nat
    BY RoomyNumbers
  <1>4. x \in {irq_count' - Elapsed', irq_count' - Elapsed' + Divider}
    <2>. DEFINE e == Elapsed
    <2>1. e \in Nat /\ e + 1 < Divider /\ Elapsed' = e + 1
      OBVIOUS
    <2>2. x = irq_count - e \/ x = irq_count - e + Divider
      BY <1>2
    <2>. HIDE DEF e
    <2>. QED BY <1>1, <1>2, <1>3, <2>1, <2>2
  <1>. QED BY <1>2, <1>4 DEF JustStarted

LEMMA ConversionsClock ==
    ASSUME Typed, TriggerCounts, Rooms, Samples, Conversions, Interrupt, SampleClock, Converter
    PROVE  Conversions'
  <1>0. irq_count \in 0..(Divider - 1) /\ Divider \in Nat /\ 4 <= Divider
    BY RoomyNumbers DEF Typed, Numbers
  <1>1. CASE run /\ Toggle
    <2>1. /\ ready /\ ready' /\ max \in Nat /\ Elapsed \in 0..(max - 1) /\ Conversion + 2 < max
          /\ max <= Divider /\ CuentasCalcAvg \in Nat
      BY <1>1, Elapses, RoomyNumbers DEF Rooms
    <2>2. /\ conv = 0 \/ Elapsed <= conv
          /\ Elapsed = 0 => conv = 1
          /\ Elapsed <= Conversion => Regular \/ JustStarted
      BY <2>1 DEF Conversions
    <2>3. conv \in Nat /\ conv <= Conversion /\ Conversion \in Nat /\ 2 <= Conversion
      BY Converts
    <2>. DEFINE e == Elapsed
    <2>4. CASE e = max - 1
      <3>1. Elapsed' = 0 /\ clock' /\ ~clock
        BY <1>1, <2>4, Elapses
      <3>2. conv = 0
        BY <2>1, <2>2, <2>3, <2>4
      <3>3. conv' = 1
        BY <3>1, <3>2, Converts
      <3>4. Regular'
        BY <2>3, <3>1, <3>3 DEF Regular
      <3>. QED BY <2>1, <3>1, <3>3, <3>4 DEF Conversions
    <2>5. CASE e # max - 1
      <3>1. Elapsed' = e + 1 /\ ~(clock' /\ ~clock) /\ e \in Nat
        BY <1>1, <2>1, <2>5, Elapses
      <3>2. conv' = 0 \/ Elapsed' <= conv'
        <4>1. CASE conv = 0
          BY <3>1, <4>1, Converts
        <4>2. CASE conv = Conversion
          BY <4>2, Converts
        <4>3. CASE conv # 0 /\ conv # Conversion
          <5>1. conv' = conv + 1
            BY <4>3, Converts
          <5>. QED BY <2>2, <2>3, <3>1, <4>3, <5>1
        <4>. QED BY <4>1, <4>2, <4>3
      <3>3. ASSUME Elapsed' <= Conversion PROVE Regular' \/ JustStarted'
        <4>1. e < Conversion /\ e + 1 < Divider
          BY <1>0, <2>1, <2>3, <3>1, <3>3
        <4>2. CASE JustStarted
          BY <1>0, <3>1, <4>1, <4>2, StartRemembered
        <4>3. CASE Regular
          <5>1. conv = e + 1
            BY <4>1, <4>3 DEF Regular
          <5>2. CASE e + 1 = Conversion
            <6>1. conv = Conversion
              BY <5>1, <5>2
            <6>2. ~raw_valid
              BY <2>3, <6>1 DEF Samples
            <6>3. NewData'
              BY <6>1, <6>2, Converts DEF NewData
            <6>. QED BY <2>3, <3>1, <5>2, <6>3 DEF Regular
          <5>3. CASE e + 1 # Conversion
            <6>1. conv' = conv + 1
              BY <2>3, <3>1, <5>1, <5>3, Converts
            <6>. QED BY <3>1, <5>1, <5>3, <6>1 DEF Regular
          <5>. QED BY <5>2, <5>3
        <4>. QED BY <2>2, <2>3, <3>1, <4>1, <4>2, <4>3
      <3>4. Elapsed' # 0
        BY <3>1
      <3>. QED BY <2>1, <3>2, <3>3, <3>4 DEF Conversions
    <2>. QED BY <2>4, <2>5
  <1>2. CASE run /\ AwaitIrq /\ ready'
    <2>1. /\ Elapsed' = 1 /\ clock' /\ ~clock
          /\ 2 <= irq_count /\ 2 * (irq_count - 2) < Divider
      BY <1>2, Starts
    <2>2. conv' = 0 \/ Elapsed' <= conv'
      <3>1. conv' = 0 \/ conv' = 1 \/ conv' = conv + 1
        BY Converts
      <3>. QED BY <2>1, <3>1, Converts
    <2>3. JustStarted'
      <3>1. irq_count' - 1 = irq_count \/ irq_count' - 1 + Divider = irq_count
        BY <1>0, InterruptCounts
      <3>2. irq_count \in {irq_count' - Elapsed', irq_count' - Elapsed' + Divider}
        BY <2>1, <3>1
      <3>. QED BY <2>1, <3>2 DEF JustStarted
    <2>4. Elapsed' # 0
      BY <2>1
    <2>. QED BY <1>2, <2>2, <2>3, <2>4 DEF Conversions
  <1>3. CASE ~ready' /\ ~clock'
    BY <1>3 DEF Conversions
  <1>4. run /\ AwaitIrq /\ ~ready' => ~clock'
    BY DEF AwaitIrq
  <1>5. ~run => ~ready' /\ ~clock'
    BY DEF SampleClock
  <1>. QED BY <1>1, <1>2, <1>3, <1>4, <1>5 DEF SampleClock


LEMMA EdgeNears ==
    ASSUME irq_count \in 0..(Divider - 1), Interrupt
    PROVE  /\ ToEdge \in 0..(Divider - 1)
           /\ ToEdge = 0 <=> IrqEdge
           /\ IrqEdge => ToEdge' = Divider - 1
           /\ ~IrqEdge => ToEdge' = ToEdge - 1
  <1>1. Divider \in Nat /\ 4 <= Divider
    BY RoomyNumbers
  <1>2. irq_count' = irq_count + 1 \/ (irq_count' = irq_count + 1 - Divider /\ irq_count = Divider - 1)
    BY InterruptCounts, <1>1
  <1>3. ToEdge \in 0..(Divider - 1) /\ (ToEdge = 0 <=> IrqEdge)
    BY <1>1 DEF ToEdge, IrqEdge
  <1>4. IrqEdge => ToEdge' = Divider - 1
    BY <1>1, <1>2 DEF ToEdge, IrqEdge
  <1>5. ~IrqEdge => ToEdge' = ToEdge - 1
    BY <1>1, <1>2 DEF ToEdge, IrqEdge
  <1>. QED BY <1>3, <1>4, <1>5

\* With the edge of the interrupt a trigger that runs is past the period it was started
\* in, or past the conversion in it: that takes half a period of the interrupt at most.
LEMMA EdgeRegular ==
    ASSUME 2 * Conversion <= Divider, IrqEdge, ready, Conversions,
           Elapsed \in Nat, Elapsed <= Conversion
    PROVE  Regular
  <1>1. Conversion \in Nat /\ 2 <= Conversion /\ Divider \in Nat
    BY RoomyNumbers
  <1>2. CASE Elapsed = 0
    BY <1>1, <1>2 DEF Conversions, Regular
  <1>3. CASE Elapsed # 0
    <2>. SUFFICES ASSUME JustStarted PROVE FALSE
      BY DEF Conversions
    <2>. DEFINE e == Elapsed
    <2>1. PICK x \in {2 - e, 2 - e + Divider} : 2 <= x /\ 2 * (x - 2) < Divider
      BY DEF JustStarted, IrqEdge
    <2>2. e \in Nat /\ e # 0 /\ e <= Conversion
      BY <1>3
    <2>. HIDE DEF e
    <2>. QED BY <1>1, <2>1, <2>2
  <1>. QED BY <1>2, <1>3

\* The next sample is a clock nearer with every clock.
LEMMA SampleNears ==
    ASSUME Typed, TriggerCounts, Rooms, Samples, Conversions, Toggle, Converter
    PROVE  /\ ToSample \in Nat
           /\ ToSample = 0 <=> NewData
           /\ ToSample # 0 => ToSample' = ToSample - 1
  <1>1. /\ ready /\ max' = max /\ max \in Nat /\ Elapsed \in 0..(max - 1)
        /\ conv \in Nat /\ conv <= Conversion /\ Conversion \in Nat /\ 2 <= Conversion
    BY Elapses, Converts
  <1>2. CASE NewData
    BY <1>2 DEF ToSample
  <1>3. CASE ~NewData /\ conv # 0
    <2>1. ToSample = Conversion + 1 - conv
      BY <1>3 DEF ToSample
    <2>2. CASE conv = Conversion
      <3>1. ~raw_valid
        BY <1>1, <2>2 DEF Samples
      <3>2. NewData'
        BY <2>2, <3>1, Converts DEF NewData
      <3>3. ToSample' = 0
        BY <3>2 DEF ToSample
      <3>. QED BY <1>1, <1>3, <2>1, <2>2, <3>3
    <2>3. CASE conv # Conversion
      <3>1. conv' = conv + 1
        BY <1>3, <2>3, Converts
      <3>2. ~raw_valid'
        <4>1. 2 <= conv => ~raw_valid
          BY DEF Samples
        <4>. QED BY <1>1, <1>3, <2>3, <4>1, Converts
      <3>3. ~NewData'
        BY <3>2 DEF NewData
      <3>4. conv' # 0
        BY <1>1, <3>1
      <3>5. ToSample' = Conversion + 1 - conv'
        BY <3>3, <3>4 DEF ToSample
      <3>. QED BY <1>1, <1>3, <2>1, <3>1, <3>5
    <2>. QED BY <2>2, <2>3
  <1>4. CASE ~NewData /\ conv = 0
    <2>. DEFINE e == Elapsed
    <2>1. ToSample = max - e + Conversion
      BY <1>4 DEF ToSample
    <2>2. ~NewData'
      BY <1>1, <1>4, Converts DEF NewData
    <2>3. CASE e = max - 1
      <3>1. clock' /\ ~clock
        BY <2>3, Elapses
      <3>2. conv' = 1
        BY <1>4, <3>1, Converts
      <3>3. ToSample' = Conversion + 1 - 1
        BY <2>2, <3>2 DEF ToSample
      <3>4. e \in Nat
        BY <1>1
      <3>. HIDE DEF e
      <3>. QED BY <1>1, <1>4, <2>1, <2>3, <3>3, <3>4
    <2>4. CASE e # max - 1
      <3>1. Elapsed' = e + 1 /\ ~(clock' /\ ~clock)
        BY <2>4, Elapses
      <3>2. conv' = 0
        BY <1>4, <3>1, Converts
      <3>3. ToSample' = max' - Elapsed' + Conversion
        BY <2>2, <3>2 DEF ToSample
      <3>4. e \in 0..(max - 1)
        BY <1>1
      <3>. HIDE DEF e
      <3>5. ToSample' = max - (e + 1) + Conversion
        BY <1>1, <3>1, <3>3
      <3>. QED BY <1>1, <1>4, <2>1, <3>4, <3>5
    <2>. QED BY <2>3, <2>4
  <1>. QED BY <1>2, <1>3, <1>4

\* So is the end of a sample, once there was one.
LEMMA EndNears ==
    ASSUME Typed, TriggerCounts, Rooms, Samples, Conversions, Toggle, Converter, Counting
    PROVE  /\ ToEnd \in Nat
           /\ ToEnd = 0 <=> OldData
           /\ ToEnd # 0 => ToEnd' = ToEnd - 1
  <1>1. /\ ready /\ max' = max /\ max \in Nat /\ Elapsed \in 0..(max - 1)
        /\ conv \in Nat /\ conv <= Conversion /\ Conversion \in Nat /\ 2 <= Conversion
    BY Elapses, Converts
  <1>2. CASE OldData
    BY <1>2 DEF ToEnd
  <1>3. CASE ~OldData /\ conv = 1
    <2>1. ToEnd = 1
      BY <1>3 DEF ToEnd
    <2>2. raw_valid
      BY <1>3 DEF Samples
    <2>3. OldData'
      BY <1>3, <2>2, Converts DEF OldData
    <2>4. ToEnd' = 0
      BY <2>3 DEF ToEnd
    <2>. QED BY <1>3, <2>1, <2>4
  <1>4. CASE ~OldData /\ conv # 1
    <2>. DEFINE e == Elapsed
    <2>1. ToEnd = max - e + 1
      BY <1>4 DEF ToEnd
    <2>2. conv # 2
      BY <1>1, <1>4 DEF Samples, OldData
    <2>3. ~OldData'
      BY <1>1, <1>4, Converts DEF OldData
    <2>4. conv = 0 \/ e <= conv
      BY <1>1 DEF Conversions
    <2>5. CASE e = max - 1
      <3>1. clock' /\ ~clock
        BY <2>5, Elapses
      <3>2. Conversion + 2 < max
        BY <1>1, RoomyNumbers DEF Rooms
      <3>3. conv = 0
        BY <1>1, <2>4, <2>5, <3>2
      <3>4. conv' = 1
        BY <3>1, <3>3, Converts
      <3>5. ToEnd' = 1
        BY <2>3, <3>4 DEF ToEnd
      <3>6. e \in Nat
        BY <1>1
      <3>. HIDE DEF e
      <3>. QED BY <1>1, <1>4, <2>1, <2>5, <3>5, <3>6
    <2>6. CASE e # max - 1
      <3>1. Elapsed' = e + 1 /\ ~(clock' /\ ~clock)
        BY <2>6, Elapses
      <3>2. conv' # 1
        BY <1>1, <1>4, <3>1, Converts
      <3>3. ToEnd' = max' - Elapsed' + 1
        BY <2>3, <3>2 DEF ToEnd
      <3>4. e \in 0..(max - 1)
        BY <1>1
      <3>. HIDE DEF e
      <3>5. ToEnd' = max - (e + 1) + 1
        BY <1>1, <3>1, <3>3
      <3>. QED BY <1>1, <1>4, <2>1, <3>4, <3>5
    <2>. QED BY <2>5, <2>6
  <1>. QED BY <1>2, <1>3, <1>4

\* From an edge of the interrupt neither is further than a period of the trigger.
LEMMA SoonAfterEdge ==
    ASSUME 2 * Conversion <= Divider, IrqEdge,
           Typed, TriggerCounts, Rooms, Samples, Conversions, Toggle, Converter
    PROVE  /\ ToSample < Divider
           /\ Counting => ToEnd < Divider
  <1>1. /\ ready /\ max \in Nat /\ Elapsed \in 0..(max - 1)
        /\ conv \in Nat /\ conv <= Conversion /\ Conversion \in Nat /\ 2 <= Conversion
    BY Elapses, Converts
  <1>2. max <= Divider /\ Divider \in Nat /\ Conversion + 2 < max
    BY <1>1, RoomyNumbers DEF Rooms
  <1>. DEFINE e == Elapsed
  <1>3. e <= Conversion => Regular
    BY <1>1, EdgeRegular
  <1>4. conv = 0 \/ e <= conv
    BY <1>1 DEF Conversions
  <1>5. ToSample < Divider
    <2>1. CASE NewData
      BY <1>1, <1>2, <2>1 DEF ToSample
    <2>2. CASE ~NewData /\ conv # 0
      <3>1. ToSample = Conversion + 1 - conv
        BY <2>2 DEF ToSample
      <3>. QED BY <1>1, <1>2, <2>2, <3>1
    <2>3. CASE ~NewData /\ conv = 0
      <3>1. ToSample = max - e + Conversion
        BY <2>3 DEF ToSample
      <3>2. ~(e <= Conversion)
        BY <1>1, <1>3, <2>3 DEF Regular
      <3>3. e \in Nat
        BY <1>1
      <3>. HIDE DEF e
      <3>. QED BY <1>1, <1>2, <3>1, <3>2, <3>3
    <2>. QED BY <2>1, <2>2, <2>3
  <1>6. ASSUME Counting PROVE ToEnd < Divider
    <2>1. CASE OldData
      BY <1>1, <1>2, <2>1 DEF ToEnd
    <2>2. CASE ~OldData /\ conv = 1
      BY <1>1, <1>2, <2>2 DEF ToEnd
    <2>3. CASE ~OldData /\ conv # 1
      <3>1. ToEnd = max - e + 1
        BY <2>3 DEF ToEnd
      <3>2. conv # 2
        BY <1>1, <1>6, <2>3 DEF Samples, OldData
      <3>3. e # 0 /\ e # 1
        BY <1>1, <1>3, <2>3, <3>2 DEF Conversions, Regular
      <3>4. e \in Nat
        BY <1>1
      <3>. HIDE DEF e
      <3>. QED BY <1>1, <1>2, <3>1, <3>3, <3>4
    <2>. QED BY <2>1, <2>2, <2>3
  <1>. QED BY <1>5, <1>6

\* The trigger begins a conversion when it starts, if none goes on.
LEMMA FirstSample ==
    ASSUME Typed, Samples, Conversions, AwaitIrq, ready', Converter
    PROVE  ToSample' \in 0..Conversion
  <1>1. clock' /\ ~clock
    BY Starts
  <1>2. conv \in Nat /\ conv <= Conversion /\ Conversion \in Nat /\ 2 <= Conversion
    BY Converts
  <1>3. CASE NewData'
    BY <1>2, <1>3 DEF ToSample
  <1>4. CASE ~NewData'
    <2>1. conv # Conversion
      <3>. SUFFICES ASSUME conv = Conversion PROVE NewData'
        BY <1>4
      <3>1. ~raw_valid
        BY <1>2 DEF Samples
      <3>. QED BY <3>1, Converts DEF NewData
    <2>2. conv' = conv + 1
      BY <1>1, <2>1, Converts
    <2>3. ToSample' = Conversion + 1 - conv'
      <3>1. conv' # 0
        BY <1>2, <2>2
      <3>. QED BY <1>4, <3>1 DEF ToSample
    <2>. QED BY <1>2, <2>1, <2>2, <2>3
  <1>. QED BY <1>3, <1>4


\* What a disabled channel does with a clock
LEMMA Passes ==
    ASSUME Typed, ~enabled, Averager
    PROVE  /\ Reload => loads' = 0
           /\ ~Reload => (avg_done' <=> avg_done \/ (Synced /\ NewData))
           /\ sync_wait' <=> Synced /\ ~(NewData /\ ~avg_done)
           /\ Reload <=> Synced /\ OldData /\ avg_done
  <1>1. Pass /\ Load
    BY DEF Averager, Accumulate, Calculate, Restart
  <1>2. Reload => loads' = 0
    BY <1>1 DEF Load
  <1>3. avg_done \in BOOLEAN
    BY DEF Typed, Booleans
  <1>4. ~Reload => (avg_done' <=> avg_done \/ (Synced /\ NewData))
    BY <1>1, <1>3 DEF Pass
  <1>5. sync_wait' <=> Synced /\ ~(NewData /\ ~avg_done)
    BY <1>1 DEF Pass
  <1>. QED BY <1>2, <1>4, <1>5 DEF Reload

\* A clock more has gone by, and what is awaited is a clock nearer.
LEMMA Nearer == \A s, t, w, v, d \in Int : t <= s + 1 /\ v = w - 1 /\ s + w < d => t + v < d
  OBVIOUS

LEMMA AwaitedStep ==
    ASSUME 2 * Conversion <= Divider,
           Typed, TriggerCounts, Rooms, Running, Samples, Conversions,
           pc = "sleep", ~enabled, Awaited, Clock
    PROVE  Awaited' \/ (loads' < 2 /\ slept' < 3 * Divider)
  <1>. USE Passes
  <1>0. Interrupt /\ SampleClock /\ Converter /\ Averager
    BY DEF Clock
  <1>1. /\ Divider \in Nat /\ 4 <= Divider /\ irq_count \in 0..(Divider - 1)
        /\ Conversion \in Nat /\ slept \in Nat /\ slept' \in Nat /\ slept' <= slept + 1
    <2>1. slept \in 0..(3 * Divider) /\ slept' = AtMost(3 * Divider, slept + 1)
      BY DEF Typed, Numbers, Clock, SleepClocks
    <2>. QED BY <2>1, RoomyNumbers DEF AtMost, Typed, Numbers
  <1>2. run /\ 2 <= age /\ (Toggle \/ AwaitIrq)
    BY <1>0 DEF Running, SampleClock
  <1>3. ready => Toggle /\ ready'
    BY <1>2 DEF AwaitIrq, Toggle
  <1>4. /\ ToEdge \in 0..(Divider - 1)
        /\ ToEdge = 0 <=> IrqEdge
        /\ IrqEdge => ToEdge' = Divider - 1
        /\ ~IrqEdge => ToEdge' = ToEdge - 1
    BY <1>0, <1>1, EdgeNears
  <1>5. /\ slept \in Int /\ slept' \in Int /\ slept' <= slept + 1
        /\ Divider \in Int /\ 2 * Divider \in Int /\ 3 * Divider - 1 \in Int
    BY <1>1
  <1>6. ToEdge \in Int
    BY <1>1, <1>4
  <1>7. ToEdge' \in Int
    <2>1. ToEdge' = Divider - 1 \/ ToEdge' = ToEdge - 1
      BY <1>4
    <2>. QED BY <1>1, <1>6, <2>1
  <1>8. ASSUME NEW d \in Int, NEW w \in Int, slept + w < d, ToEdge' = w - 1
        PROVE  slept' + ToEdge' < d
    BY <1>5, <1>7, <1>8, Nearer, Zenon
  <1>9. ASSUME NEW d \in Int, slept + ToEdge < d, ~IrqEdge PROVE slept' + ToEdge' < d
    <2>1. ToEdge' = ToEdge - 1
      BY <1>4, <1>9
    <2>. QED BY <1>6, <1>8, <1>9, <2>1, Zenon
  <1>10. ready => /\ ToSample \in Nat
                  /\ ToSample = 0 <=> NewData
                  /\ ToSample # 0 => ToSample' = ToSample - 1
    BY <1>0, <1>3, SampleNears
  <1>11. ready /\ avg_done => /\ ToEnd \in Nat
                              /\ ToEnd = 0 <=> OldData
                              /\ ToEnd # 0 => ToEnd' = ToEnd - 1
    <2>1. avg_done => Counting
      BY DEF Counting
    <2>. QED BY <1>0, <1>3, <2>1, EndNears
  <1>12. ASSUME ToEnd \in Nat, ToEnd' = ToEnd - 1, slept + ToEnd < 3 * Divider - 1
         PROVE  slept' + ToEnd' < 3 * Divider - 1
    <2>1. ToEnd \in Int /\ ToEnd' \in Int
      BY <1>12
    <2>. QED BY <1>5, <1>12, <2>1, Nearer, Zenon
  <1>13. ready /\ IrqEdge => ToSample < Divider /\ (avg_done => ToEnd < Divider)
    <2>1. avg_done => Counting
      BY DEF Counting
    <2>. QED BY <1>0, <1>3, <2>1, SoonAfterEdge
  <1>14. IrqEdge => Synced
    BY DEF Synced
  <1>15. sync_wait => Synced
    BY DEF Synced
  <1>16. CASE slept + ToEdge < Divider
    <2>1. CASE ~IrqEdge
      <3>1. slept' + ToEdge' < Divider
        BY <1>16, <1>5, <1>9, <2>1
      <3>. QED BY <3>1 DEF Awaited
    <2>2. CASE IrqEdge /\ Reload
      <3>1. slept' < 3 * Divider
        BY <1>1, <1>4, <1>16, <2>2
      <3>. QED BY <1>0, <2>2, <3>1
    <2>3. CASE IrqEdge /\ ~Reload
      <3>1. slept' + ToEdge' < 2 * Divider
        <4>1. slept + Divider < 2 * Divider
          BY <1>1, <1>4, <1>16, <2>3
        <4>2. ToEdge' = Divider - 1
          BY <1>4, <2>3
        <4>. QED BY <1>5, <1>8, <4>1, <4>2, Zenon
      <3>2. ready'
        <4>1. ~ready => 2 <= max
          <5>1. ~ready => max = divider /\ divider \in Roomy
            BY <1>2 DEF Running, Rooms
          <5>. QED BY <5>1, RoomyNumbers DEF Even
        <4>2. SeesEdge
          BY <1>1, <1>2, <2>3, LevelSeen DEF SeesEdge
        <4>3. CASE ready
          BY <1>3, <4>3
        <4>4. CASE ~ready
          <5>1. AwaitIrq
            BY <1>2, <4>4 DEF Toggle
          <5>2. ready' = (2 <= max /\ SeesEdge)
            BY <5>1 DEF AwaitIrq
          <5>. QED BY <4>1, <4>2, <4>4, <5>2
        <4>. QED BY <4>3, <4>4
      <3>3. CASE avg_done'
        BY <3>1, <3>2, <3>3 DEF Awaited
      <3>4. CASE ~avg_done'
        <4>1. ~NewData /\ sync_wait'
          BY <1>0, <1>14, <2>3, <3>4
        <4>2. ToSample' < Divider - 1
          <5>1. CASE ready
            BY <1>1, <1>10, <1>13, <2>3, <4>1, <5>1
          <5>2. CASE ~ready
            <6>1. ToSample' \in 0..Conversion
              BY <1>0, <1>2, <3>2, <5>2, FirstSample DEF Toggle
            <6>2. Conversion + 1 < Divider
              <7>1. divider \in Roomy
                BY <1>2 DEF Rooms
              <7>. QED BY <1>1, <7>1, RoomyNumbers
            <6>. QED BY <1>1, <6>1, <6>2
          <5>. QED BY <5>1, <5>2
        <4>3. ToSample' < ToEdge'
          BY <1>4, <2>3, <4>2
        <4>. QED BY <3>1, <3>2, <3>4, <4>1, <4>3 DEF Awaited
      <3>. QED BY <3>3, <3>4
    <2>. QED BY <2>1, <2>2, <2>3
  <1>17. CASE ready /\ sync_wait /\ ~avg_done /\ ToSample < ToEdge /\ slept + ToEdge < 2 * Divider
    <2>1. ~IrqEdge /\ ~Reload /\ ready' /\ Synced
      BY <1>0, <1>3, <1>4, <1>10, <1>15, <1>17
    <2>2. slept' + ToEdge' < 2 * Divider
      BY <1>17, <1>5, <1>9, <2>1
    <2>3. CASE NewData
      <3>1. avg_done'
        BY <1>0, <2>1, <2>3
      <3>. QED BY <2>1, <2>2, <3>1 DEF Awaited
    <2>4. CASE ~NewData
      <3>1. ~avg_done' /\ sync_wait'
        BY <1>0, <1>17, <2>1, <2>4
      <3>2. ToSample' < ToEdge'
        BY <1>4, <1>10, <1>17, <2>1, <2>4
      <3>. QED BY <2>1, <2>2, <3>1, <3>2 DEF Awaited
    <2>. QED BY <2>3, <2>4
  <1>18. CASE ready /\ avg_done /\ slept + ToEdge < 2 * Divider
    <2>1. CASE Reload
      <3>1. slept' < 3 * Divider
        BY <1>1, <1>4, <1>18
      <3>. QED BY <1>0, <2>1, <3>1
    <2>2. CASE ~Reload /\ ~IrqEdge
      <3>1. avg_done' /\ ready'
        BY <1>0, <1>3, <1>18, <2>2
      <3>2. slept' + ToEdge' < 2 * Divider
        BY <1>18, <1>5, <1>9, <2>2
      <3>. QED BY <3>1, <3>2 DEF Awaited
    <2>3. CASE ~Reload /\ IrqEdge
      <3>1. avg_done' /\ ready' /\ sync_wait' /\ ~OldData
        BY <1>0, <1>3, <1>14, <1>18, <2>3
      <3>2. ToEnd \in Nat /\ ToEnd < Divider /\ ToEnd' = ToEnd - 1
        BY <1>11, <1>13, <1>18, <2>3, <3>1
      <3>3. slept' + ToEnd' < 3 * Divider - 1
        <4>1. slept + ToEnd < 3 * Divider - 1
          BY <1>1, <1>4, <1>18, <2>3, <3>2
        <4>. QED BY <1>12, <3>2, <4>1
      <3>. QED BY <3>1, <3>3 DEF Awaited
    <2>. QED BY <2>1, <2>2, <2>3
  <1>19. CASE ready /\ avg_done /\ sync_wait /\ slept + ToEnd < 3 * Divider - 1
    <2>1. ready' /\ Synced
      BY <1>3, <1>15, <1>19
    <2>2. CASE OldData
      <3>1. Reload
        BY <1>0, <1>19, <2>1, <2>2
      <3>2. slept' < 3 * Divider
        BY <1>1, <1>11, <1>19, <2>2
      <3>. QED BY <1>0, <3>1, <3>2
    <2>3. CASE ~OldData
      <3>1. avg_done' /\ sync_wait'
        BY <1>0, <1>19, <2>1, <2>3
      <3>2. ToEnd \in Nat /\ ToEnd' = ToEnd - 1
        BY <1>11, <1>19, <2>3
      <3>3. slept' + ToEnd' < 3 * Divider - 1
        BY <1>19, <1>12, <3>2
      <3>. QED BY <2>1, <3>1, <3>3 DEF Awaited
    <2>. QED BY <2>2, <2>3
  <1>. QED BY <1>16, <1>17, <1>18, <1>19 DEF Awaited

\* The channel loads the register: while it may, and never another number.
LEMMA Loads ==
    ASSUME Load, UNCHANGED samples
    PROVE  /\ loads < 2 /\ samples # 0 => max_datos' = Loaded(samples')
           /\ max_datos = Loaded(samples) => max_datos' = Loaded(samples')
  BY DEF Load

LEMMA SleepingClock ==
    ASSUME 2 * Conversion <= Divider,
           Typed, AskedFor, TriggerCounts, Rooms, Running, Samples, Conversions, Sleeping, Clock
    PROVE  Sleeping'
  <1>1. UNCHANGED <<pc, enabled, samples>> /\ Load
    BY DEF Clock, Averager, registers, driver
  <1>2. pc # "sleep" => slept' = 0
    BY DEF Clock
  <1>3. ASSUME pc = "sleep"
        PROVE  max_datos' = Loaded(samples') \/ (loads' < 2 /\ slept' < 3 * Divider) \/ Awaited'
    <2>1. CASE max_datos = Loaded(samples)
      BY <1>1, <2>1, Loads
    <2>2. CASE loads < 2
      <3>1. samples # 0
        BY <1>3, SamplingAssumption DEF AskedFor
      <3>. QED BY <1>1, <2>2, <3>1, Loads
    <2>3. CASE Awaited /\ ~enabled
      BY <1>3, <2>3, AwaitedStep
    <2>. QED BY <1>3, <2>1, <2>2, <2>3 DEF Sleeping
  <1>. QED BY <1>1, <1>2, <1>3 DEF Sleeping

LEMMA TakenClock == ASSUME Taken, Clock PROVE Taken'
  <1>1. UNCHANGED <<pc, enabled, samples, current_samples>> /\ Load
    BY DEF Clock, Averager, registers, driver
  <1>. QED BY <1>1, Loads DEF Taken

LEMMA ElapsedWithin ==
    ASSUME TriggerCounts, ready
    PROVE  max \in Nat /\ Elapsed \in 0..(max - 1)
  <1>1. max \in Nat /\ max = 2 * (max \div 2) /\ count \in 1..(max \div 2) /\ max \div 2 \in Nat
    BY DEF TriggerCounts, Even
  <1>. QED BY <1>1 DEF Elapsed

LEMMA TakenDrivers ==
    ASSUME Typed, TriggerCounts, AskedFor, Running, Sleeping, Taken, Drivers
    PROVE  Sleeping' /\ Taken'
  <1>0. /\ UNCHANGED <<irq_count, age, ready, max, count, clock, conv, raw_valid, raw_before,
                       max_datos, loads, cont_datos, cont_calc, sync_wait, avg_done, slept>>
        /\ clocked /\ clocked' = FALSE
    BY DEF Drivers, mz_adcSampleClock_set_samples_per_isr, mz_adcSampleClock_stop,
       mz_averager_set_samples, mz_averager_disable, Access, irq, trigger, converter, averager
  <1>1. CASE pc = "disable" /\ pc' = "sleep" /\ enabled' = FALSE
    <2>1. slept = 0
      BY <1>0, <1>1 DEF Sleeping
    <2>2. ToEdge' = ToEdge /\ ToEdge \in Nat /\ ToEdge < Divider
      <3>1. irq_count \in 0..(Divider - 1) /\ Divider \in Nat /\ 4 <= Divider
        BY RoomyNumbers DEF Typed, Numbers
      <3>2. ToEdge' = ToEdge
        BY <1>0 DEF ToEdge
      <3>3. ToEdge \in Nat /\ ToEdge < Divider
        BY <3>1 DEF ToEdge
      <3>. QED BY <3>2, <3>3
    <2>3. Awaited'
      <3>1. slept' = 0
        BY <1>0, <2>1
      <3>2. 0 + ToEdge < Divider
        BY <2>2
      <3>3. slept' + ToEdge' < Divider
        BY <2>2, <3>1, <3>2, Zenon
      <3>. QED BY <3>3 DEF Awaited
    <2>. QED BY <1>0, <1>1, <2>3 DEF Sleeping, Taken
  <1>2. CASE /\ pc = "sleep" /\ pc' = "idle" /\ slept = SleepClocks
             /\ samples' = samples /\ current_samples' = floor_pow2(arg)
    <2>1. samples \in 1..MaxSamples /\ arg = samples /\ samples # 0
      <3>1. samples \in Averages /\ arg = samples
        BY <1>2 DEF AskedFor
      <3>. QED BY <3>1, SamplingAssumption
    <2>2. max_datos = Loaded(samples)
      <3>1. Divider \in Nat /\ 4 <= Divider /\ slept = 3 * Divider
        BY <1>2, RoomyNumbers DEF SleepClocks
      <3>2. ~(slept < 3 * Divider)
        BY <3>1
      <3>3. ~Awaited
        <4>1. ToEdge \in Nat
          BY <3>1 DEF ToEdge, Typed, Numbers
        <4>2. ready => ToEnd \in Nat
          <5>1. ready => max \in Nat /\ Elapsed \in 0..(max - 1)
            BY ElapsedWithin
          <5>2. OldData \/ (~OldData /\ conv = 1) => ToEnd \in Nat
            BY DEF ToEnd
          <5>3. ~OldData /\ conv # 1 => ToEnd = max - Elapsed + 1
            BY DEF ToEnd
          <5>. QED BY <5>1, <5>2, <5>3
        <4>3. ready /\ slept + ToEnd < 3 * Divider - 1 => FALSE
          BY <3>1, <4>2
        <4>. QED BY <3>1, <4>1, <4>3 DEF Awaited
      <3>. QED BY <1>2, <3>2, <3>3 DEF Sleeping
    <2>3. current_samples' = Loaded(samples)
      BY <1>2, <2>1, SameNumber
    <2>. QED BY <1>0, <1>2, <2>1, <2>2, <2>3 DEF Sleeping, Taken
  <1>3. CASE pc' = "disable"
    BY <1>0, <1>3 DEF Sleeping, Taken
  <1>4. CASE enabled' = FALSE /\ pc' = "idle"
    BY <1>0, <1>4 DEF Sleeping, Taken
  <1>5. CASE /\ pc \in {"idle", "divider", "start"} /\ pc' \in {"idle", "divider", "start"}
             /\ UNCHANGED <<samples, enabled, current_samples>>
    BY <1>0, <1>5 DEF Sleeping, Taken
  <1>6. CASE mz_adcSampleClock_set_samples_per_isr
    BY <1>5, <1>6 DEF mz_adcSampleClock_set_samples_per_isr, Access
  <1>7. CASE mz_adcSampleClock_stop
    BY <1>5, <1>7 DEF mz_adcSampleClock_stop, Access
  <1>8. CASE mz_averager_set_samples
    BY <1>1, <1>2, <1>3, <1>8 DEF mz_averager_set_samples, Access
  <1>9. CASE mz_averager_disable
    BY <1>4, <1>9 DEF mz_averager_disable, Access
  <1>. QED BY <1>6, <1>7, <1>8, <1>9 DEF Drivers


LEMMA ConverterDrivers == ASSUME Samples, Conversions, Drivers PROVE Samples' /\ Conversions'
  <1>1. UNCHANGED <<irq_count, ready, max, count, clock, conv, raw_valid, raw_before,
                    cont_datos, avg_done>>
    BY DEF Drivers, mz_adcSampleClock_set_samples_per_isr, mz_adcSampleClock_stop,
       mz_averager_set_samples, mz_averager_disable, Access, irq, trigger, converter, averager
  <1>2. Samples'
    BY <1>1 DEF Samples, NewData, Counting
  <1>3. Elapsed' = Elapsed /\ (Regular <=> Regular')
    BY <1>1 DEF Elapsed, Regular, NewData
  <1>4. JustStarted => JustStarted'
    BY <1>1, <1>3 DEF JustStarted
  <1>5. Conversions'
    BY <1>1, <1>3, <1>4 DEF Conversions
  <1>. QED BY <1>2, <1>5

LEMMA TakenInit == Init => TakenInv
  <1>. SUFFICES ASSUME Init PROVE TakenInv
    OBVIOUS
  <1>1. Rooms /\ Running /\ Conversions /\ Taken
    BY DEF Init, Rooms, Running, Conversions, Taken
  <1>2. Samples
    BY DEF Init, Samples, NewData, Counting
  <1>3. Sleeping
    BY DEF Init, Sleeping
  <1>. QED BY <1>1, <1>2, <1>3 DEF TakenInv

LEMMA TakenStutters == TakenInv /\ UNCHANGED vars => TakenInv'
  <1>. SUFFICES ASSUME TakenInv, UNCHANGED vars PROVE TakenInv'
    OBVIOUS
  <1>1. UNCHANGED <<irq_count, age, ready, max, count, clock, conv, raw_valid, raw_before,
                    max_datos, loads, cont_datos, cont_calc, sync_wait, avg_done>>
    BY DEF vars, irq, trigger, converter, averager
  <1>2. UNCHANGED <<divider, run, samples, enabled, pc, arg, current_samples, slept, clocked>>
    BY DEF vars, registers, driver
  <1>3. Rooms' /\ Running' /\ Taken'
    BY <1>1, <1>2 DEF TakenInv, Rooms, Running, Taken
  <1>4. Samples'
    BY <1>1 DEF TakenInv, Samples, NewData, Counting
  <1>5. Elapsed' = Elapsed /\ (Regular <=> Regular')
    BY <1>1 DEF Elapsed, Regular, NewData
  <1>6. JustStarted => JustStarted'
    BY <1>1, <1>5 DEF JustStarted
  <1>7. Conversions'
    BY <1>1, <1>5, <1>6 DEF TakenInv, Conversions
  <1>8. ToEdge' = ToEdge /\ ToSample' = ToSample /\ ToEnd' = ToEnd
    BY <1>1, <1>5 DEF ToEdge, ToSample, ToEnd, NewData, OldData
  <1>9. Awaited => Awaited'
    BY <1>1, <1>2, <1>8 DEF Awaited
  <1>10. Sleeping'
    BY <1>1, <1>2, <1>9 DEF TakenInv, Sleeping
  <1>. QED BY <1>3, <1>4, <1>7, <1>10 DEF TakenInv

LEMMA TakenAlways ==
    ASSUME 2 * Conversion <= Divider
    PROVE  Spec => []TakenInv
  <1>1. TakenInv /\ Typed /\ AskedFor /\ IInv /\ [Next]_vars => TakenInv'
    <2>. SUFFICES ASSUME TakenInv, Typed, AskedFor, IInv, [Next]_vars PROVE TakenInv'
      OBVIOUS
    <2>. USE DEF TakenInv, IInv
    <2>1. CASE Clock
      <3>1. /\ Interrupt /\ SampleClock /\ Converter /\ Averager
            /\ UNCHANGED <<registers, driver>>
        BY <2>1 DEF Clock
      <3>2. Rooms' /\ Running'
        BY <2>1, <3>1, RoomsClock, RunningClock
      <3>3. Samples' /\ Conversions'
        BY <3>1, SamplesClock, ConversionsClock
      <3>4. Sleeping' /\ Taken'
        BY <2>1, SleepingClock, TakenClock
      <3>. QED BY <3>2, <3>3, <3>4
    <2>2. CASE Drivers
      BY <2>2, RoomsDrivers, RunningDrivers, ConverterDrivers, TakenDrivers
    <2>3. CASE UNCHANGED vars
      BY <2>3, TakenStutters
    <2>. QED BY <2>1, <2>2, <2>3 DEF Next
  <1>2. Typed /\ AskedFor /\ [Next]_vars => Typed' /\ AskedFor'
    BY TypeStep
  <1>. QED BY <1>1, <1>2, TakenInit, TypeInit, TriggerCorrect, PTL DEF Spec

\* mz_averager.h: the number mz_averager_set_samples returns is the one the hardware
\* averages, if a conversion takes half a period of the interrupt at most (otherwise a
\* conversion that a trigger left behind can hide the sample the channel waits for).
THEOREM ReturnedIsAveraged ==
    ASSUME 2 * Conversion <= Divider
    PROVE  Spec => []NumberTaken
  <1>1. TakenInv => NumberTaken
    BY DEF TakenInv, Taken, NumberTaken
  <1>. QED BY <1>1, TakenAlways, PTL

-----------------------------------------------------------------------------
(* The average of a period *)

\* A trigger past the period it was started in: its conversions are its own.
Steady ==
    /\ Elapsed < Conversion => conv = Elapsed + 1
    /\ Elapsed = Conversion => NewData
    /\ Conversion < Elapsed => conv = 0 /\ ~NewData

\* Clocks since the edge of the interrupt, a whole period at the next one
SinceEdge == IF 2 < irq_count THEN irq_count - 2 ELSE irq_count - 2 + Divider

\* From the first average on the flag tells that the calculation has ended, and an
\* interrupt is remembered only then.
Averaging ==
    enabled /\ pc # "disable" /\ 1 <= windows =>
        /\ avg_done <=> cont_calc = CuentasCalcAvg
        /\ 0 < cont_calc => Full
        /\ ~avg_done => ~sync_wait

\* The interrupt was seen, the first sample of its period has not come.
AwaitsFirst ==
    /\ avg_done /\ sync_wait /\ Steady
    /\ SinceEdge <= Conversion /\ Elapsed = SinceEdge /\ position = 0

\* The samples of the period are counted, and as many as were asked for are taken.
InWindow ==
    /\ ~sync_wait /\ Steady /\ whole
    /\ Conversion < SinceEdge
    /\ position * max = SinceEdge - Elapsed + (IF Conversion < Elapsed THEN max ELSE 0)
    /\ cont_datos = AtMost(position, max_datos)
    /\ max_datos <= position /\ ~avg_done =>
          Conversion < Elapsed /\ Elapsed <= Conversion + 1 + cont_calc

\* From the second average on, the next one begins with the first sample of a period.
Windows ==
    InStep /\ enabled /\ pc # "disable" /\ 2 <= windows /\ max_datos <= Divider \div max =>
        \/ windows = 2 /\ avg_done /\ ~sync_wait
        \/ AwaitsFirst
        \/ InWindow /\ (windows = 2 => ~avg_done)

\* The averages are counted from the enabling on.
CountedAnew == pc = "sleep" /\ clocked => windows = 0

PeriodInv == Averaging /\ Windows /\ CountedAnew

LEMMA SinceEdgeCounts ==
    ASSUME irq_count \in 0..(Divider - 1), Interrupt
    PROVE  /\ SinceEdge \in 1..Divider
           /\ SinceEdge = Divider <=> IrqEdge
           /\ IrqEdge => SinceEdge' = 1
           /\ ~IrqEdge => SinceEdge' = SinceEdge + 1
  <1>1. Divider \in Nat /\ 4 <= Divider
    BY RoomyNumbers
  <1>2. irq_count' = irq_count + 1 \/ (irq_count' = irq_count + 1 - Divider /\ irq_count = Divider - 1)
    BY InterruptCounts, <1>1
  <1>3. SinceEdge \in 1..Divider /\ (SinceEdge = Divider <=> IrqEdge)
    BY <1>1 DEF SinceEdge, IrqEdge
  <1>4. IrqEdge => SinceEdge' = 1
    BY <1>1, <1>2 DEF SinceEdge, IrqEdge
  <1>5. ~IrqEdge => SinceEdge' = SinceEdge + 1
    BY <1>1, <1>2 DEF SinceEdge, IrqEdge
  <1>. QED BY <1>3, <1>4, <1>5

LEMMA SteadyGoesOn ==
    ASSUME Typed, TriggerCounts, Rooms, Samples, Steady, Toggle, Converter
    PROVE  Steady'
  <1>. DEFINE e == Elapsed
  <1>1. /\ ready /\ max \in Nat /\ e \in 0..(max - 1)
        /\ conv \in Nat /\ conv <= Conversion /\ Conversion \in Nat /\ 2 <= Conversion
    BY Elapses, Converts
  <1>2. Conversion + 2 < max
    BY <1>1, RoomyNumbers DEF Rooms
  <1>3. CASE e = max - 1
    <2>1. Elapsed' = 0 /\ clock' /\ ~clock
      BY <1>3, Elapses
    <2>2. conv = 0
      BY <1>1, <1>2, <1>3 DEF Steady
    <2>3. conv' = 1
      BY <2>1, <2>2, Converts
    <2>. QED BY <1>1, <2>1, <2>3 DEF Steady
  <1>4. CASE e # max - 1
    <2>1. Elapsed' = e + 1 /\ ~(clock' /\ ~clock)
      BY <1>4, Elapses
    <2>2. CASE e + 1 < Conversion
      <3>1. conv = e + 1
        BY <1>1, <2>2 DEF Steady
      <3>2. conv' = e + 2
        BY <1>1, <2>2, <3>1, Converts
      <3>. QED BY <1>1, <2>1, <2>2, <3>2 DEF Steady
    <2>3. CASE e + 1 = Conversion
      <3>1. conv = Conversion
        BY <1>1, <2>3 DEF Steady
      <3>2. ~raw_valid
        BY <1>1, <3>1 DEF Samples
      <3>3. NewData'
        BY <3>1, <3>2, Converts DEF NewData
      <3>. QED BY <1>1, <2>1, <2>3, <3>3 DEF Steady
    <2>4. CASE Conversion < e + 1
      <3>1. conv = 0 /\ (raw_valid => raw_before \/ NewData)
        <4>1. e = Conversion \/ Conversion < e
          BY <1>1, <2>4
        <4>. QED BY <4>1 DEF Steady, Samples, NewData
      <3>2. conv' = 0
        BY <2>1, <3>1, Converts
      <3>3. ~NewData'
        BY <1>1, <3>1, Converts DEF NewData
      <3>. QED BY <1>1, <2>1, <2>4, <3>2, <3>3 DEF Steady
    <2>. QED BY <1>1, <2>2, <2>3, <2>4
  <1>. QED BY <1>3, <1>4

\* A trigger in step begins a period with every edge of the interrupt.
LEMMA EdgeInStep ==
    ASSUME TriggerCounts, InStep, IrqEdge
    PROVE  Elapsed = 0
  <1>1. max \in Nat \ {0} /\ Elapsed \in 0..(max - 1)
    BY ElapsedWithin DEF InStep, Exact
  <1>. DEFINE e == Elapsed
  <1>. DEFINE r == 2 % max
  <1>. DEFINE a == 2 - e
  <1>2. a \in Int /\ a % max = r
    <2>1. a \in Int /\ irq_count - e = a
      BY <1>1 DEF IrqEdge
    <2>2. (irq_count - e) % max = r
      BY DEF InStep, Offset
    <2>. HIDE DEF a, e, r
    <2>. QED BY <2>1, <2>2
  <1>. DEFINE p == 2 \div max
  <1>. DEFINE q == a \div max
  <1>3. p \in Int /\ r \in 0..(max - 1) /\ 2 = max * p + r
    BY <1>1, Division
  <1>4. q \in Int /\ a = max * q + r
    <2>. HIDE DEF a
    <2>1. q \in Int /\ a = max * q + (a % max)
      BY <1>1, <1>2, Division
    <2>. HIDE DEF r, q
    <2>. QED BY <1>2, <2>1
  <1>5. a = 2 - e
    OBVIOUS
  <1>6. e \in 0..(max - 1)
    BY <1>1
  <1>. HIDE DEF a, e, r, p, q
  <1>7. e = max * (p - q)
    <2>1. max * (p - q) = max * p - max * q
      BY <1>1, <1>3, <1>4
    <2>. DEFINE x == max * p
    <2>. DEFINE y == max * q
    <2>2. x \in Int /\ y \in Int
      BY <1>1, <1>3, <1>4
    <2>3. 2 = x + r /\ 2 - e = y + r /\ max * (p - q) = x - y
      BY <1>3, <1>4, <1>5, <2>1
    <2>. HIDE DEF x, y
    <2>. QED BY <1>3, <1>6, <2>2, <2>3
  <1>8. e = 0
    <2>. DEFINE k == p - q
    <2>1. k \in Int /\ e = max * k
      BY <1>3, <1>4, <1>7
    <2>. HIDE DEF k
    <2>2. CASE k >= 1
      <3>1. max * k >= max
        BY <1>1, <2>1, <2>2
      <3>. QED BY <1>1, <1>6, <2>1, <3>1
    <2>3. CASE k <= -1
      <3>1. max * k <= -max
        BY <1>1, <2>1, <2>3
      <3>. QED BY <1>1, <1>6, <2>1, <3>1
    <2>4. CASE k = 0
      BY <1>1, <2>1, <2>4
    <2>. QED BY <2>1, <2>2, <2>3, <2>4
  <1>. QED BY <1>8 DEF e

LEMMA Quotient ==
    ASSUME NEW m \in Nat \ {0}, NEW k \in Int
    PROVE  (k * m) \div m = k
  OBVIOUS

LEMMA OneMore == \A k, m \in Int : (k + 1) * m = k * m + m
  OBVIOUS

\* An enabled channel keeps the number it averages.
LEMMA KeepsNumber ==
    ASSUME Taken, Load, UNCHANGED samples, enabled, pc # "disable"
    PROVE  max_datos' = max_datos
  <1>1. max_datos = Loaded(samples)
    BY DEF Taken
  <1>. QED BY <1>1, Loads


LEMMA CountsWindows ==
    ASSUME Typed, History
    PROVE  /\ ~enabled \/ ~ready => windows' = 0
           /\ enabled /\ ready /\ avg_done' /\ ~avg_done => windows' = AtMost(3, windows + 1)
           /\ enabled /\ ready /\ ~(avg_done' /\ ~avg_done) => windows' = windows
  <1>1. ~enabled \/ ~ready => windows' = 0
    BY DEF History
  <1>2. enabled /\ ready /\ avg_done' /\ ~avg_done => windows' = AtMost(3, windows + 1)
    BY DEF History
  <1>3. enabled /\ ready /\ ~(avg_done' /\ ~avg_done) => windows' = windows
    BY DEF History
  <1>. QED BY <1>1, <1>2, <1>3

LEMMA AveragingClock ==
    ASSUME Typed, Taken, Averaging, Clock
    PROVE  Averaging'
  <1>1. UNCHANGED <<enabled, pc, samples>> /\ Load /\ History /\ Averager
    BY DEF Clock, Averager, registers, driver
  <1>. SUFFICES ASSUME enabled, pc # "disable", 1 <= windows'
                PROVE  /\ avg_done' <=> cont_calc' = CuentasCalcAvg
                       /\ 0 < cont_calc' => Full'
                       /\ ~avg_done' => ~sync_wait'
    BY <1>1 DEF Averaging
  <1>2. max_datos' = max_datos
    BY <1>1, KeepsNumber
  <1>3. /\ cont_calc \in Nat /\ cont_calc <= CuentasCalcAvg /\ CuentasCalcAvg \in Nat \ {0}
        /\ windows \in 0..3 /\ cont_datos \in Nat /\ max_datos \in Nat
    BY RoomyNumbers, PowersDouble DEF Typed, Numbers
  <1>4. ready /\ (windows = 0 => avg_done' /\ ~avg_done)
    BY <1>1, <1>3, CountsWindows
  <1>5. 1 <= windows => /\ avg_done <=> cont_calc = CuentasCalcAvg
                        /\ 0 < cont_calc => Full
                        /\ ~avg_done => ~sync_wait
    BY DEF Averaging
  <1>6. CASE Accumulate
    <2>1. UNCHANGED <<cont_calc, sync_wait, avg_done>> /\ ~Full
      BY <1>6 DEF Accumulate
    <2>2. 1 <= windows
      BY <1>3, <1>4, <2>1
    <2>3. cont_calc = 0 /\ ~avg_done
      BY <1>3, <1>5, <2>1, <2>2
    <2>. QED BY <1>3, <1>5, <2>1, <2>2, <2>3
  <1>7. CASE Calculate
    <2>1. /\ cont_calc' = cont_calc + 1 /\ Full /\ cont_calc < CuentasCalcAvg
          /\ UNCHANGED <<cont_datos, sync_wait>>
      BY <1>7 DEF Calculate
    <2>2. avg_done' <=> avg_done \/ cont_calc' = CuentasCalcAvg
      BY <1>7 DEF Calculate
    <2>3. ~avg_done
      BY <1>3, <1>4, <1>5, <2>1
    <2>4. Full'
      BY <1>2, <2>1 DEF Full
    <2>5. ~avg_done' => ~sync_wait'
      BY <1>3, <1>4, <1>5, <2>1, <2>2, <2>3
    <2>. QED BY <2>2, <2>3, <2>4, <2>5
  <1>8. CASE Restart
    <2>1. Full /\ cont_calc = CuentasCalcAvg
      BY <1>3, <1>8 DEF Restart
    <2>2. avg_done' => avg_done
      BY <1>8 DEF Restart
    <2>3. avg_done
      BY <1>3, <1>4, <1>5, <2>1, <2>2
    <2>4. CASE Restarts
      <3>1. cont_calc' = 0 /\ ~avg_done' /\ ~sync_wait'
        BY <1>8, <2>4 DEF Restart
      <3>. QED BY <1>3, <3>1
    <2>5. CASE ~Restarts
      <3>1. cont_calc' = cont_calc /\ cont_datos' = cont_datos /\ (avg_done' <=> avg_done)
        BY <1>8, <2>5 DEF Restart
      <3>2. Full'
        BY <1>2, <2>1, <3>1 DEF Full
      <3>. QED BY <2>1, <2>3, <3>1, <3>2
    <2>. QED BY <2>4, <2>5
  <1>9. ~Pass
    BY DEF Pass
  <1>. QED BY <1>1, <1>6, <1>7, <1>8, <1>9 DEF Averager

\* The edge of the interrupt: the channel waits for the first sample of the period.
LEMMA EdgeOpens ==
    ASSUME Typed, TriggerCounts, Rooms, Samples, Conversions, InStep, IrqEdge,
           Interrupt, Toggle, Converter, Restart, History, avg_done
    PROVE  AwaitsFirst'
  <1>1. /\ Elapsed = 0 /\ ready /\ max \in Nat /\ 4 <= max
        /\ Conversion \in Nat /\ 2 <= Conversion /\ Divider \in Nat
    BY EdgeInStep, Elapses, RoomyNumbers
  <1>2. conv = 1
    BY <1>1 DEF Conversions
  <1>3. ~NewData
    BY <1>2 DEF Samples
  <1>4. Steady
    BY <1>1, <1>2 DEF Steady
  <1>5. Steady'
    BY <1>4, SteadyGoesOn
  <1>6. Elapsed' = 1
    <2>1. Elapsed # max - 1
      BY <1>1
    <2>. QED BY <1>1, <2>1, Elapses
  <1>7. SinceEdge' = 1
    BY SinceEdgeCounts DEF Typed, Numbers
  <1>8. position' = 0
    BY <1>3 DEF History, Counted
  <1>9. ~Restarts
    BY <1>3 DEF Restarts
  <1>10. avg_done' /\ sync_wait'
    BY <1>9 DEF Restart, Synced
  <1>. QED BY <1>1, <1>5, <1>6, <1>7, <1>8, <1>10 DEF AwaitsFirst

\* The first sample of the period begins an average.
LEMMA FirstTaken ==
    ASSUME Typed, TriggerCounts, Rooms, Samples, AwaitsFirst, enabled, max_datos' = max_datos,
           Interrupt, Toggle, Converter, Restart, History
    PROVE  AwaitsFirst' \/ (InWindow' /\ ~avg_done')
  <1>. DEFINE e == Elapsed
  <1>1. /\ avg_done /\ sync_wait /\ Steady /\ SinceEdge = e /\ e <= Conversion /\ position = 0
        /\ e \in Nat /\ max \in Nat /\ max' = max /\ Conversion \in Nat /\ 2 <= Conversion
        /\ conv \in Nat
    BY Elapses, Converts DEF AwaitsFirst
  <1>2. Conversion + 2 < max /\ max <= Divider /\ Divider \in Nat
    BY Elapses, RoomyNumbers DEF Rooms
  <1>3. SinceEdge \in 1..Divider /\ ~IrqEdge /\ SinceEdge' = SinceEdge + 1
    <2>1. SinceEdge # Divider
      BY <1>1, <1>2
    <2>. QED BY <2>1, SinceEdgeCounts DEF Typed, Numbers
  <1>4. Elapsed' = e + 1
    <2>1. e # max - 1
      BY <1>1, <1>2
    <2>. QED BY <2>1, Elapses
  <1>5. Steady'
    BY <1>1, SteadyGoesOn
  <1>6. CASE e < Conversion
    <2>1. ~NewData
      BY <1>1, <1>6 DEF Steady, Samples
    <2>2. position' = 0
      BY <1>1, <1>3, <2>1 DEF History, Counted
    <2>3. ~Restarts
      BY <2>1 DEF Restarts
    <2>4. avg_done' /\ sync_wait'
      BY <1>1, <2>3 DEF Restart, Synced
    <2>. QED BY <1>1, <1>3, <1>4, <1>5, <1>6, <2>2, <2>4 DEF AwaitsFirst
  <1>7. CASE e = Conversion
    <2>1. NewData
      BY <1>1, <1>7 DEF Steady
    <2>2. Restarts
      BY <1>1, <2>1 DEF Restart, Restarts, Synced
    <2>3. cont_datos' = 1 /\ ~avg_done' /\ ~sync_wait'
      BY <2>2 DEF Restart
    <2>4. Counted = 0
      BY <1>1, <1>3 DEF Counted
    <2>5. position' = 1 /\ whole'
      <3>1. position' = 1
        BY <2>1, <2>4 DEF History
      <3>2. WindowBegins
        BY <2>1, <2>2 DEF WindowBegins
      <3>3. whole' = (Counted = 0)
        BY <3>2 DEF History
      <3>. QED BY <2>4, <3>1, <3>3
    <2>6. max_datos \in Nat /\ 1 <= max_datos /\ cont_calc' = 0
      BY <2>2, PowersDouble DEF Restart, Typed, Numbers
    <2>7. Elapsed' = Conversion + 1 /\ SinceEdge' = Conversion + 1
      BY <1>1, <1>3, <1>4, <1>7
    <2>8. position' * max' = SinceEdge' - Elapsed' + (IF Conversion < Elapsed' THEN max' ELSE 0)
      BY <1>1, <2>5, <2>7
    <2>9. cont_datos' = AtMost(position', max_datos')
      BY <2>3, <2>5, <2>6 DEF AtMost
    <2>10. /\ Conversion < SinceEdge'
           /\ Conversion < Elapsed' /\ Elapsed' <= Conversion + 1 + cont_calc'
      BY <1>1, <2>6, <2>7
    <2>. QED BY <1>5, <2>3, <2>5, <2>8, <2>9, <2>10 DEF InWindow
  <1>. QED BY <1>1, <1>6, <1>7


LEMMA Opened ==
    ASSUME Typed, TriggerCounts, ready, InWindow
    PROVE  position \in Nat /\ 1 <= position
  <1>. DEFINE e == Elapsed
  <1>1. /\ max \in Nat /\ e \in 0..(max - 1) /\ position \in Nat /\ Conversion \in Nat
        /\ SinceEdge \in Nat /\ Conversion < SinceEdge
    <2>1. irq_count \in 0..(Divider - 1) /\ Divider \in Nat
      BY RoomyNumbers DEF Typed, Numbers
    <2>2. SinceEdge \in Int
      BY <2>1 DEF SinceEdge
    <2>. QED BY <2>2, ElapsedWithin, RoomyNumbers DEF InWindow, Typed, Numbers
  <1>2. position * max = SinceEdge - e + (IF Conversion < e THEN max ELSE 0)
    BY DEF InWindow
  <1>. HIDE DEF e
  <1>3. position # 0
    <2>. SUFFICES ASSUME position = 0 PROVE FALSE
      OBVIOUS
    <2>1. position * max = 0
      BY <1>1
    <2>. QED BY <1>1, <1>2, <2>1
  <1>. QED BY <1>1, <1>3

\* Samples of the period are counted, until the next interrupt.
LEMMA WindowGoesOn ==
    ASSUME Typed, TriggerCounts, Rooms, Samples, InWindow, Averaging,
           enabled, pc # "disable", 1 <= windows, ~IrqEdge, max_datos' = max_datos,
           Interrupt, Toggle, Converter, Averager, History
    PROVE  InWindow' /\ (avg_done => avg_done')
  <1>. DEFINE e == Elapsed
  <1>. DEFINE t == SinceEdge
  <1>. DEFINE n == max_datos
  <1>. DEFINE Late(x) == IF Conversion < x THEN max ELSE 0
  <1>1. /\ ready /\ max \in Nat /\ max' = max /\ e \in 0..(max - 1)
        /\ Conversion \in Nat /\ 2 <= Conversion /\ conv \in Nat
    BY Elapses, Converts
  <1>2. /\ CuentasCalcAvg \in Nat \ {0} /\ Divider \in Nat
        /\ Conversion + CuentasCalcAvg + 2 <= max
    BY <1>1, RoomyNumbers DEF Rooms
  <1>3. t \in Nat /\ t' = t + 1 /\ Conversion < t
    BY <1>2, SinceEdgeCounts DEF Typed, Numbers, InWindow
  <1>4. /\ ~sync_wait /\ Steady /\ whole /\ position * max = t - e + Late(e)
        /\ cont_datos = AtMost(position, n)
        /\ n <= position /\ ~avg_done => Conversion < e /\ e <= Conversion + 1 + cont_calc
    BY DEF InWindow
  <1>5. /\ position \in Nat /\ 1 <= position /\ n \in Nat /\ 1 <= n
        /\ cont_datos \in Nat /\ cont_calc \in Nat /\ cont_calc <= CuentasCalcAvg
    BY <1>1, <1>2, Opened, PowersDouble DEF Typed, Numbers
  <1>6. /\ avg_done <=> cont_calc = CuentasCalcAvg
        /\ 0 < cont_calc => Full
        /\ Full <=> n <= position
    <2>1. Full <=> n <= position
      BY <1>4, <1>5 DEF Full, AtMost
    <2>. QED BY <2>1 DEF Averaging
  <1>7. Steady'
    BY <1>4, SteadyGoesOn
  <1>8. ~Synced /\ ~Restarts /\ ~WindowBegins
    <2>1. cont_datos # 0
      BY <1>4, <1>5 DEF AtMost
    <2>. QED BY <1>4, <2>1 DEF Synced, Restarts, WindowBegins
  <1>9. whole'
    <2>1. whole' = (whole /\ ~IrqEdge)
      BY <1>8 DEF History
    <2>. QED BY <1>4, <2>1
  <1>10. Accumulate \/ Calculate \/ Restart
    BY DEF Averager, Pass
  <1>11. ~sync_wait' /\ (avg_done => avg_done')
    <2>1. CASE Accumulate
      BY <1>4, <2>1 DEF Accumulate
    <2>2. CASE Calculate
      BY <1>4, <2>2 DEF Calculate
    <2>3. CASE Restart
      BY <1>8, <2>3 DEF Restart
    <2>. QED BY <1>10, <2>1, <2>2, <2>3
  <1>12. Elapsed' = IF e = max - 1 THEN 0 ELSE e + 1
    BY Elapses
  <1>13. position' = position + (IF NewData THEN 1 ELSE 0)
    BY DEF History, Counted
  <1>14. cont_datos' = IF NewData /\ position < n THEN cont_datos + 1 ELSE cont_datos
    <2>1. CASE Accumulate
      BY <1>5, <1>6, <2>1 DEF Accumulate
    <2>2. CASE Calculate
      BY <1>5, <1>6, <2>2 DEF Calculate
    <2>3. CASE Restart
      BY <1>5, <1>6, <1>8, <2>3 DEF Restart
    <2>. QED BY <1>10, <2>1, <2>2, <2>3
  <1>15. cont_datos' = AtMost(position', max_datos')
    <2>1. cont_datos' = AtMost(position + (IF NewData THEN 1 ELSE 0), n)
      BY <1>4, <1>5, <1>14 DEF AtMost
    <2>. QED BY <1>13, <2>1
  <1>16. NewData <=> e = Conversion
    <2>1. e < Conversion => ~NewData
      BY <1>1, <1>4 DEF Steady, Samples
    <2>. QED BY <1>1, <1>4, <2>1 DEF Steady
  <1>17. position' * max' = SinceEdge' - Elapsed' + (IF Conversion < Elapsed' THEN max' ELSE 0)
    <2>. DEFINE f == IF e = max - 1 THEN 0 ELSE e + 1
    <2>. DEFINE p == position + (IF NewData THEN 1 ELSE 0)
    <2>1. p * max = (t + 1) - f + Late(f)
      <3>. DEFINE y == position * max
      <3>1. y \in Int /\ y = t - e + Late(e) /\ p * max = IF NewData THEN y + max ELSE y
        BY <1>1, <1>4, <1>5, OneMore
      <3>. HIDE DEF y, e, t
      <3>2. CASE e = Conversion
        BY <1>1, <1>2, <1>3, <1>16, <3>1, <3>2
      <3>3. CASE e # Conversion
        BY <1>1, <1>2, <1>3, <1>16, <3>1, <3>3
      <3>. QED BY <3>2, <3>3
    <2>2. position' = p /\ max' = max /\ SinceEdge' = t + 1 /\ Elapsed' = f
      BY <1>1, <1>3, <1>12, <1>13
    <2>3. (IF Conversion < Elapsed' THEN max' ELSE 0) = Late(f)
      BY <2>2
    <2>. HIDE DEF p, f, Late
    <2>. QED BY <2>1, <2>2, <2>3
  <1>18. ASSUME max_datos' <= position', ~avg_done'
         PROVE  Conversion < Elapsed' /\ Elapsed' <= Conversion + 1 + cont_calc'
    <2>1. ~avg_done /\ n <= position + (IF NewData THEN 1 ELSE 0) /\ cont_calc # CuentasCalcAvg
      BY <1>6, <1>11, <1>13, <1>18
    <2>2. CASE n <= position
      <3>1. Conversion < e /\ e <= Conversion + 1 + cont_calc /\ cont_calc < CuentasCalcAvg /\ Full
        BY <1>2, <1>4, <1>5, <1>6, <2>1, <2>2
      <3>2. Calculate
        BY <1>2, <1>5, <1>10, <3>1 DEF Accumulate, Restart
      <3>3. cont_calc' = cont_calc + 1 /\ (avg_done' <=> avg_done \/ cont_calc' = CuentasCalcAvg)
        BY <3>2 DEF Calculate
      <3>4. e # max - 1
        BY <1>1, <1>2, <1>5, <3>1
      <3>5. Elapsed' = e + 1
        BY <1>12, <3>4
      <3>6. Conversion < e + 1 /\ e + 1 <= Conversion + 1 + (cont_calc + 1)
        BY <1>1, <1>5, <3>1
      <3>. QED BY <3>3, <3>5, <3>6
    <2>3. CASE ~(n <= position)
      <3>1. e = Conversion
        BY <1>5, <1>16, <2>1, <2>3
      <3>2. Elapsed' = Conversion + 1
        BY <1>1, <1>2, <1>12, <3>1
      <3>3. cont_calc' = cont_calc
        BY <1>6, <1>10, <2>3 DEF Accumulate, Calculate, Restart
      <3>4. Conversion < Conversion + 1 /\ Conversion + 1 <= Conversion + 1 + cont_calc
        BY <1>1, <1>5
      <3>. QED BY <3>2, <3>3, <3>4
    <2>. QED BY <2>2, <2>3
  <1>19. Conversion < SinceEdge'
    <2>1. Conversion < t + 1
      BY <1>1, <1>3
    <2>. QED BY <1>3, <2>1
  <1>. QED BY <1>7, <1>9, <1>11, <1>15, <1>17, <1>18, <1>19 DEF InWindow

\* With the next interrupt the average of the period is there.
LEMMA WindowEnds ==
    ASSUME Typed, TriggerCounts, InStep, IrqEdge, InWindow, 0 < max_datos,
           max_datos <= Divider \div max
    PROVE  /\ avg_done /\ whole
           /\ cont_datos = max_datos /\ position = Divider \div max
  <1>1. /\ Elapsed = 0 /\ max \in Nat \ {0} /\ ready /\ Conversion \in Nat /\ Divider \in Nat
        /\ position \in Nat /\ max_datos \in Nat
    BY EdgeInStep, ElapsedWithin, RoomyNumbers, PowersDouble
    DEF InStep, Exact, TriggerCounts, Even, Typed, Numbers
  <1>2. SinceEdge = Divider
    BY <1>1 DEF SinceEdge, IrqEdge
  <1>3. position * max = Divider
    <2>1. position * max = Divider - 0 + 0
      BY <1>1, <1>2 DEF InWindow
    <2>. QED BY <1>1, <2>1
  <1>4. Divider \div max = position
    BY <1>1, <1>3, Quotient
  <1>5. max_datos <= position
    BY <1>4
  <1>6. avg_done
    BY <1>1, <1>5 DEF InWindow
  <1>7. cont_datos = max_datos
    BY <1>1, <1>5 DEF InWindow, AtMost
  <1>. QED BY <1>4, <1>6, <1>7 DEF InWindow


LEMMA Restarting ==
    ASSUME Typed, Averaging, Averager, enabled, pc # "disable", 1 <= windows, avg_done
    PROVE  Restart /\ (~Synced => avg_done' /\ ~sync_wait')
  <1>1. cont_calc = CuentasCalcAvg /\ Full /\ CuentasCalcAvg \in Nat \ {0}
    BY RoomyNumbers DEF Averaging
  <1>2. Restart
    BY <1>1 DEF Averager, Accumulate, Calculate, Pass
  <1>3. ~Synced => ~Restarts
    BY DEF Restarts
  <1>. QED BY <1>2, <1>3 DEF Restart

LEMMA WindowsClock ==
    ASSUME Typed, IInv, Rooms, Samples, Conversions, Taken, Averaging, Windows, Clock
    PROVE  Windows'
  <1>1. /\ Interrupt /\ SampleClock /\ Converter /\ Averager /\ History /\ Load
        /\ UNCHANGED <<enabled, pc, samples>> /\ TriggerCounts
    BY DEF Clock, Averager, registers, driver, IInv
  <1>. SUFFICES ASSUME InStep', enabled, pc # "disable", 2 <= windows',
                       max_datos' <= Divider \div max'
                PROVE  \/ windows' = 2 /\ avg_done' /\ ~sync_wait'
                       \/ AwaitsFirst'
                       \/ InWindow' /\ (windows' = 2 => ~avg_done')
    BY <1>1 DEF Windows
  <1>2. windows \in 0..3 /\ avg_done \in BOOLEAN /\ max_datos \in Nat /\ 0 < max_datos
    BY PowersDouble DEF Typed, Numbers, Booleans
  <1>3. ready /\ (windows = 0 => windows' = 1)
    BY <1>1, <1>2, CountsWindows DEF AtMost
  <1>4. ready'
    BY DEF InStep, Exact
  <1>5. Toggle
    BY <1>1, <1>3, <1>4 DEF SampleClock, AwaitIrq
  <1>6. max' = max /\ Exact
    BY <1>3, <1>5 DEF Toggle, InStep, Exact
  <1>7. InStep
    BY <1>4, <1>6, StepKept DEF InStep
  <1>8. max_datos' = max_datos
    BY <1>1, KeepsNumber
  <1>9. max_datos <= Divider \div max
    BY <1>6, <1>8
  <1>10. 1 <= windows
    BY <1>2, <1>3
  <1>11. avg_done => Restart /\ (~Synced => avg_done' /\ ~sync_wait')
    BY <1>1, <1>10, Restarting
  <1>12. IrqEdge /\ avg_done => AwaitsFirst'
    BY <1>1, <1>5, <1>7, <1>11, EdgeOpens
  <1>13. CASE windows = 1
    <2>1. avg_done' /\ ~avg_done /\ windows' = 2
      <3>1. avg_done' /\ ~avg_done
        BY <1>1, <1>3, <1>13, CountsWindows
      <3>. QED BY <1>1, <1>3, <1>13, <3>1, CountsWindows DEF AtMost
    <2>2. ~sync_wait
      BY <1>10, <2>1 DEF Averaging
    <2>3. Accumulate \/ Calculate
      BY <1>1, <2>1 DEF Averager, Restart, Pass
    <2>4. ~sync_wait'
      BY <2>2, <2>3 DEF Accumulate, Calculate
    <2>. QED BY <2>1, <2>4
  <1>14. CASE windows = 2 /\ avg_done /\ ~sync_wait
    <2>1. CASE IrqEdge
      BY <1>12, <1>14, <2>1
    <2>2. CASE ~IrqEdge
      <3>1. avg_done' /\ ~sync_wait'
        BY <1>11, <1>14, <2>2 DEF Synced
      <3>2. windows' = 2
        BY <1>1, <1>3, <1>14, CountsWindows
      <3>. QED BY <3>1, <3>2
    <2>. QED BY <2>1, <2>2
  <1>15. CASE AwaitsFirst
    <2>1. Restart
      BY <1>11, <1>15 DEF AwaitsFirst
    <2>2. AwaitsFirst' \/ (InWindow' /\ ~avg_done')
      BY <1>1, <1>5, <1>8, <1>15, <2>1, FirstTaken
    <2>. QED BY <2>2
  <1>16. CASE 2 <= windows /\ InWindow /\ (windows = 2 => ~avg_done)
    <2>1. CASE IrqEdge
      <3>1. avg_done
        BY <1>1, <1>2, <1>7, <1>9, <1>16, <2>1, WindowEnds
      <3>. QED BY <1>12, <2>1, <3>1
    <2>2. CASE ~IrqEdge
      <3>1. InWindow' /\ (avg_done => avg_done')
        BY <1>1, <1>5, <1>8, <1>10, <1>16, <2>2, WindowGoesOn
      <3>2. windows' = 2 => ~avg_done'
        <4>1. CASE avg_done' /\ ~avg_done
          <5>1. windows' = AtMost(3, windows + 1)
            BY <1>1, <1>3, <4>1, CountsWindows
          <5>. QED BY <1>2, <1>16, <5>1 DEF AtMost
        <4>2. CASE ~(avg_done' /\ ~avg_done)
          <5>1. windows' = windows
            BY <1>1, <1>3, <4>2, CountsWindows
          <5>. QED BY <1>16, <4>2, <5>1
        <4>. QED BY <4>1, <4>2
      <3>. QED BY <3>1, <3>2
    <2>. QED BY <2>1, <2>2
  <1>. QED BY <1>2, <1>7, <1>9, <1>10, <1>13, <1>14, <1>15, <1>16 DEF Windows


\* What the invariant is about is not changed by the accesses that leave the averager
\* enabled.
LEMMA WindowsUnchanged ==
    ASSUME Windows, Averaging, pc # "disable",
           UNCHANGED <<irq_count, ready, max, count, clock, conv, raw_valid, raw_before,
                       enabled, max_datos, cont_datos, cont_calc, sync_wait, avg_done,
                       position, whole, windows>>
    PROVE  Windows' /\ Averaging'
  <1>1. Elapsed' = Elapsed /\ SinceEdge' = SinceEdge
    BY DEF Elapsed, SinceEdge
  <1>2. InStep <=> InStep'
    BY <1>1 DEF InStep, Exact, Offset
  <1>3. Steady => Steady'
    BY <1>1 DEF Steady, NewData
  <1>4. AwaitsFirst => AwaitsFirst'
    BY <1>1, <1>3 DEF AwaitsFirst
  <1>5. InWindow => InWindow'
    BY <1>1, <1>3 DEF InWindow
  <1>6. Windows'
    BY <1>2, <1>4, <1>5 DEF Windows
  <1>7. Averaging'
    BY DEF Averaging, Full
  <1>. QED BY <1>6, <1>7

LEMMA PeriodDrivers ==
    ASSUME Typed, PeriodInv, Drivers
    PROVE  PeriodInv'
  <1>. USE DEF PeriodInv
  <1>1. /\ UNCHANGED <<irq_count, ready, max, count, clock, conv, raw_valid, raw_before,
                       max_datos, cont_datos, cont_calc, sync_wait, avg_done,
                       position, whole, windows>>
        /\ clocked /\ clocked' = FALSE
    BY DEF Drivers, mz_adcSampleClock_set_samples_per_isr, mz_adcSampleClock_stop,
       mz_averager_set_samples, mz_averager_disable, Access, irq, trigger, converter,
       averager, history
  <1>2. CountedAnew'
    BY <1>1 DEF CountedAnew
  <1>3. CASE pc' = "disable" \/ enabled' = FALSE
    BY <1>2, <1>3 DEF Averaging, Windows
  <1>4. CASE pc = "sleep"
    <2>1. windows' = 0
      BY <1>1, <1>4 DEF CountedAnew
    <2>. QED BY <1>2, <2>1 DEF Averaging, Windows
  <1>5. CASE pc # "disable" /\ enabled' = enabled
    BY <1>1, <1>2, <1>5, WindowsUnchanged
  <1>6. CASE mz_adcSampleClock_set_samples_per_isr
    BY <1>5, <1>6 DEF mz_adcSampleClock_set_samples_per_isr, Access
  <1>7. CASE mz_adcSampleClock_stop
    BY <1>5, <1>7 DEF mz_adcSampleClock_stop, Access
  <1>8. CASE mz_averager_set_samples
    BY <1>3, <1>4, <1>8 DEF mz_averager_set_samples, Access
  <1>9. CASE mz_averager_disable
    BY <1>3, <1>9 DEF mz_averager_disable
  <1>. QED BY <1>6, <1>7, <1>8, <1>9 DEF Drivers

LEMMA CountedAnewClock == ASSUME Sleeping, Clock PROVE CountedAnew'
  <1>1. UNCHANGED <<pc, enabled>> /\ History
    BY DEF Clock, registers, driver
  <1>2. pc = "sleep" => ~enabled
    BY DEF Sleeping
  <1>. QED BY <1>1, <1>2 DEF CountedAnew, History

LEMMA PeriodInit == Init => PeriodInv
  BY DEF Init, PeriodInv, Averaging, Windows, CountedAnew

\* main.c: with a trigger that was started by the interrupt, the interrupt finds the
\* average of the samples of the period that ends with it, from the fourth average on.
THEOREM AverageOfPeriod ==
    ASSUME 2 * Conversion <= Divider
    PROVE  Spec => []PeriodAverage
  <1>1. TakenInv /\ PeriodInv /\ Typed /\ IInv /\ [Next]_vars => PeriodInv'
    <2>. SUFFICES ASSUME TakenInv, PeriodInv, Typed, IInv, [Next]_vars PROVE PeriodInv'
      OBVIOUS
    <2>. USE DEF PeriodInv, TakenInv
    <2>1. CASE Clock
      BY <2>1, AveragingClock, WindowsClock, CountedAnewClock
    <2>2. CASE Drivers
      BY <2>2, PeriodDrivers
    <2>3. CASE UNCHANGED vars
      <3>1. /\ UNCHANGED <<irq_count, ready, max, count, clock, conv, raw_valid, raw_before>>
            /\ UNCHANGED <<enabled, max_datos, cont_datos, cont_calc, sync_wait, avg_done>>
            /\ UNCHANGED <<position, whole, windows, pc, clocked>>
        BY <2>3 DEF vars, irq, trigger, converter, averager, registers, driver, history
      <3>2. CountedAnew'
        BY <3>1 DEF CountedAnew
      <3>3. CASE pc = "disable"
        BY <3>1, <3>2, <3>3 DEF Averaging, Windows
      <3>4. CASE pc # "disable"
        BY <3>1, <3>2, <3>4, WindowsUnchanged
      <3>. QED BY <3>3, <3>4
    <2>. QED BY <2>1, <2>2, <2>3 DEF Next
  <1>2. TakenInv /\ PeriodInv /\ Typed /\ IInv => PeriodAverage
    <2>. SUFFICES ASSUME TakenInv, PeriodInv, Typed, IInv, Settled, IrqEdge
                  PROVE  /\ avg_done /\ whole
                         /\ cont_datos = current_samples /\ position = Divider \div max
      BY DEF PeriodAverage
    <2>1. /\ InStep /\ enabled /\ windows = 3 /\ pc # "disable"
          /\ 0 < current_samples /\ current_samples <= Divider \div max
      BY DEF Settled
    <2>2. max_datos = current_samples
      BY <2>1 DEF TakenInv, Taken
    <2>3. AwaitsFirst \/ InWindow
      BY <2>1, <2>2 DEF PeriodInv, Windows
    <2>4. ~AwaitsFirst
      <3>1. Conversion \in Nat /\ max \in Roomy /\ Divider \in Nat
        BY <2>1, RoomyNumbers DEF TakenInv, Rooms, InStep, Exact
      <3>2. Conversion < Divider
        BY <3>1, RoomyNumbers
      <3>3. SinceEdge = Divider
        BY <3>1 DEF SinceEdge, IrqEdge
      <3>. QED BY <3>1, <3>2, <3>3 DEF AwaitsFirst
    <2>. QED BY <2>1, <2>2, <2>3, <2>4, WindowEnds DEF IInv
  <1>. QED BY <1>1, <1>2, PeriodInit, TakenAlways, TypeInit, TypeStep, TriggerCorrect, PTL DEF Spec

===============================================================================
