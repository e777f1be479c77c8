--------------------------- MODULE AdcSamplingProofs ---------------------------
(***************************************************************************)
(* Proofs about AdcSampling, for every period of the interrupt and every   *)
(* number of samples asked for: what the driver divides by, and that a     *)
(* trigger whose period divides that of the interrupt keeps step with it.  *)
(***************************************************************************)
EXTENDS AdcSampling, WellFoundedInduction, TLAPS

-----------------------------------------------------------------------------
(* Division *)

LEMMA Remainder ==
    ASSUME NEW m \in Nat \ {0}, NEW k \in Int, NEW r \in 0..(m - 1)
    PROVE  (m * k + r) % m = r
  OBVIOUS

LEMMA Division ==
    ASSUME NEW m \in Nat \ {0}, NEW a \in Int
    PROVE  a \div m \in Int /\ a % m \in 0..(m - 1) /\ a = m * (a \div m) + (a % m)
  OBVIOUS

\* Whole periods do not matter.
LEMMA WholePeriods ==
    ASSUME NEW m \in Nat \ {0}, NEW a \in Int, NEW q \in Int
    PROVE  (a - m * q) % m = a % m
  <1>. DEFINE d == a \div m
  <1>. DEFINE r == a % m
  <1>1. d \in Int /\ r \in 0..(m - 1) /\ a = m * d + r
    BY Division
  <1>. HIDE DEF d, r
  <1>2. a - m * q = m * (d - q) + r
    BY <1>1
  <1>3. (m * (d - q) + r) % m = r
    BY <1>1, Remainder
  <1>. QED BY <1>2, <1>3 DEF r

\* A counter of period p advances from a to b.
Advances(a, b, p) == b = a + 1 \/ b = a + 1 - p

\* How far a counter is ahead of another one, in periods of the latter
Ahead(a, b, p) == (a - b) % p

Divides(m, D) == D % m = 0

\* Two counters that advance together stay as far apart, whichever of them
\* begins a new period, when the second period is a whole number of the first.
LEMMA TogetherInStep ==
    \A m, D \in Nat \ {0} : \A i, j, e, f \in Int :
        Divides(m, D) /\ Advances(i, j, D) /\ Advances(e, f, m)
            => Ahead(j, f, m) = Ahead(i, e, m)
  <1>. TAKE m, D \in Nat \ {0}
  <1>. TAKE i, j, e, f \in Int
  <1>. HAVE Divides(m, D) /\ Advances(i, j, D) /\ Advances(e, f, m)
  <1>. USE DEF Divides, Advances
  <1>. DEFINE q == D \div m
  <1>1. q \in Int /\ D = m * q
    BY Division
  <1>. HIDE DEF q
  <1>. DEFINE s == i - e
  <1>2. s \in Int
    OBVIOUS
  <1>. HIDE DEF s
  <1>3. ASSUME NEW k \in Int, j - f = s - m * k PROVE (j - f) % m = s % m
    <2>1. (s - m * k) % m = s % m
      BY <1>2, WholePeriods
    <2>. QED BY <1>3, <2>1
  <1>4. j - f = s - m * 0 \/ j - f = s - m * (-1) \/ j - f = s - m * q \/ j - f = s - m * (q - 1)
    BY <1>1 DEF s
  <1>5. 0 \in Int /\ -1 \in Int /\ q \in Int /\ q - 1 \in Int
    BY <1>1
  <1>6. (j - f) % m = s % m
    <2>1. CASE j - f = s - m * 0
      BY <1>3, <1>5, <2>1
    <2>2. CASE j - f = s - m * (-1)
      BY <1>3, <1>5, <2>2
    <2>3. CASE j - f = s - m * q
      BY <1>3, <1>5, <2>3
    <2>4. CASE j - f = s - m * (q - 1)
      BY <1>3, <1>5, <2>4
    <2>. QED BY <1>4, <2>1, <2>2, <2>3, <2>4
  <1>. QED BY <1>6 DEF s, Ahead

-----------------------------------------------------------------------------
(* The divider *)

\* mz_adcSampleClock.c:28: the divider is even, at least 2, and off the ratio by
\* less than two clocks; when the ratio is an even number, it is that number.
THEOREM EvenDivider ==
    \A a, b \in Nat \ {0} :
        LET d == even_divider(a, b)
        IN  /\ d \in Nat /\ 2 <= d /\ d = 2 * (d \div 2)
            /\ 2 * b <= a => 2 * b * d <= 2 * a + b /\ 2 * a < 2 * b * d + 3 * b
            /\ \A n \in Nat \ {0} : a = 2 * n * b => d = 2 * n
  <1>. SUFFICES ASSUME NEW a \in Nat \ {0}, NEW b \in Nat \ {0}
                PROVE  LET d == even_divider(a, b)
                       IN  /\ d \in Nat /\ 2 <= d /\ d = 2 * (d \div 2)
                           /\ 2 * b <= a => 2 * b * d <= 2 * a + b /\ 2 * a < 2 * b * d + 3 * b
                           /\ \A n \in Nat \ {0} : a = 2 * n * b => d = 2 * n
    OBVIOUS
  <1>. DEFINE d == even_divider(a, b)
  <1>. DEFINE t == (2 * a + b) \div (2 * b)
  <1>. DEFINE r == (2 * a + b) % (2 * b)
  <1>. DEFINE h == t \div 2
  <1>1. t \in Nat /\ r \in 0..(2 * b - 1) /\ 2 * a + b = (2 * b) * t + r
    <2>. DEFINE m == 2 * b
    <2>. DEFINE x == 2 * a + b
    <2>1. m \in Nat \ {0} /\ x \in Int
      OBVIOUS
    <2>. HIDE DEF m, x
    <2>2. x \div m \in Int /\ x % m \in 0..(m - 1) /\ x = m * (x \div m) + (x % m)
      BY <2>1, Division
    <2>5. t \in Int /\ r \in 0..(2 * b - 1) /\ 2 * a + b = (2 * b) * t + r
      BY <2>2 DEF m, x
    <2>. HIDE DEF t, r
    <2>3. t >= 0
      <3>. SUFFICES ASSUME t <= -1 PROVE FALSE
        BY <2>5
      <3>1. b * t <= -b
        BY <2>5
      <3>. QED BY <2>5, <3>1
    <2>. QED BY <2>3, <2>5
  <1>2. d = AtLeast(2, 2 * h)
    BY DEF even_divider
  <1>. HIDE DEF d, t, r
  <1>3. h \in Nat /\ (t = 2 * h \/ t = 2 * h + 1)
    BY <1>1
  <1>. HIDE DEF h
  <1>4. d \in Nat /\ 2 <= d /\ (d = 2 * h \/ (d = 2 /\ h = 0))
    BY <1>2, <1>3 DEF AtLeast
  <1>5. d = 2 * (d \div 2)
    BY <1>3, <1>4
  <1>6. ASSUME 2 * b <= a PROVE 2 * b * d <= 2 * a + b /\ 2 * a < 2 * b * d + 3 * b
    <2>. DEFINE x == b * h
    <2>1. x \in Nat /\ (2 * b) * (2 * h) = 4 * x /\ (2 * b) * (2 * h + 1) = 4 * x + 2 * b
      BY <1>3
    <2>2. (2 * b) * t = 4 * x \/ (2 * b) * t = 4 * x + 2 * b
      BY <1>3, <2>1
    <2>3. h # 0
      <3>. SUFFICES ASSUME h = 0 PROVE FALSE
        OBVIOUS
      <3>1. x = 0
        OBVIOUS
      <3>. HIDE DEF x
      <3>. QED BY <1>1, <1>6, <2>2, <3>1
    <2>4. 2 * b * d = 4 * x
      BY <1>3, <1>4, <2>1, <2>3
    <2>. HIDE DEF x
    <2>. QED BY <1>1, <2>1, <2>2, <2>4
  <1>7. ASSUME NEW n \in Nat \ {0}, a = 2 * n * b PROVE d = 2 * n
    <2>1. 2 * a + b = (2 * b) * (2 * n) + b
      BY <1>7
    <2>2. t = 2 * n
      <3>. SUFFICES ASSUME t # 2 * n PROVE FALSE
        OBVIOUS
      <3>. DEFINE k == t - 2 * n
      <3>0. k \in Int /\ t = 2 * n + k /\ k # 0
        BY <1>1
      <3>. HIDE DEF k
      <3>. DEFINE y == b * k
      <3>1. b = 2 * y + r /\ y \in Int
        <4>1. (2 * b) * t = (2 * b) * (2 * n) + 2 * y /\ y \in Int
          BY <3>0
        <4>. DEFINE z == (2 * b) * (2 * n)
        <4>2. z \in Int
          OBVIOUS
        <4>. HIDE DEF y, z
        <4>3. 2 * a + b = z + b /\ 2 * a + b = z + 2 * y + r
          BY <1>1, <2>1, <4>1 DEF z
        <4>. QED BY <1>1, <4>1, <4>2, <4>3
      <3>2. CASE k <= -1
        <4>1. y <= -b
          BY <3>0, <3>2
        <4>. HIDE DEF y
        <4>. QED BY <1>1, <3>1, <4>1
      <3>3. CASE k >= 1
        <4>1. y >= b
          BY <3>0, <3>3
        <4>. HIDE DEF y
        <4>. QED BY <1>1, <3>1, <4>1
      <3>. QED BY <3>0, <3>2, <3>3
    <2>3. h = n
      BY <1>3, <2>2
    <2>. QED BY <1>4, <2>3
  <1>8. \A n \in Nat \ {0} : a = 2 * n * b => d = 2 * n
    BY <1>7
  <1>9. 2 * b <= a => 2 * b * d <= 2 * a + b /\ 2 * a < 2 * b * d + 3 * b
    BY <1>6
  <1>. QED BY <1>4, <1>5, <1>8, <1>9 DEF d

-----------------------------------------------------------------------------
(* The trigger *)

\* Dividers the sample clock is given: even, and with room for the start.
Even == {d \in Nat : 4 <= d /\ d = 2 * (d \div 2)}

\* The registers the trigger is made from
RegistersEven ==
    /\ run \in BOOLEAN
    /\ run \/ pc = "start" => divider \in Even
    /\ pc = "divider" => arg \in Even

\* A trigger that was started counts the halves of an even number.
TriggerCounts ==
    /\ irq_count \in 0..(Divider - 1)
    /\ ready \in BOOLEAN /\ clock \in BOOLEAN
    /\ ready => max \in Even /\ count \in 1..(max \div 2)

IInv == RegistersEven /\ TriggerCounts

LEMMA RequestsEven == \A n \in Requests : even_divider(Divider, n) \in Even
  <1>1. Divider \in Nat \ {0} /\ Conversion \in Nat /\ CuentasCalcAvg \in Nat \ {0}
    BY SamplingAssumption
  <1>2. ASSUME NEW n \in Requests PROVE even_divider(Divider, n) \in Even
    <2>1. n \in Nat \ {0}
      BY SamplingAssumption
    <2>. DEFINE d == even_divider(Divider, n)
    <2>2. d \in Nat /\ d = 2 * (d \div 2)
      BY <1>1, <2>1, EvenDivider
    <2>3. Conversion + CuentasCalcAvg + 2 <= d /\ 2 <= Conversion
      BY SamplingAssumption
    <2>. HIDE DEF d
    <2>4. 4 <= d
      BY <1>1, <2>2, <2>3
    <2>5. d \in Even
      BY <2>2, <2>4 DEF Even
    <2>. QED BY <2>5 DEF d
  <1>. QED BY <1>2

\* No access of a driver changes the trigger or what it counts with.
LEMMA DriverStep ==
    ASSUME IInv, Drivers
    PROVE  IInv' /\ UNCHANGED <<irq_count, age, ready, max, count, clock>>
  <1>. USE DEF IInv, RegistersEven, TriggerCounts, Access, irq, trigger
  <1>1. CASE mz_adcSampleClock_set_samples_per_isr
    <2>. USE <1>1 DEF mz_adcSampleClock_set_samples_per_isr
    <2>1. CASE pc = "idle"
      <3>1. PICK n \in Requests : Access("idle", "divider") /\ run' = FALSE
                                  /\ arg' = even_divider(Divider, n) /\ divider' = divider
        BY <2>1
      <3>2. arg' \in Even
        BY <3>1, RequestsEven
      <3>3. /\ pc' = "divider"
            /\ UNCHANGED <<irq_count, age, ready, max, count, clock>>
        BY <3>1
      <3>4. RegistersEven'
        BY <3>1, <3>2, <3>3
      <3>. QED BY <3>3, <3>4
    <2>2. CASE pc = "divider"
      BY <2>2
    <2>3. CASE pc = "start"
      BY <2>3
    <2>. QED BY <2>1, <2>2, <2>3
  <1>2. CASE mz_adcSampleClock_stop
    BY <1>2 DEF mz_adcSampleClock_stop
  <1>3. CASE mz_averager_set_samples
    BY <1>3 DEF mz_averager_set_samples
  <1>4. CASE mz_averager_disable
    BY <1>4 DEF mz_averager_disable
  <1>. QED BY <1>1, <1>2, <1>3, <1>4 DEF Drivers

\* The interrupt counts its period.
LEMMA InterruptCounts ==
    ASSUME irq_count \in 0..(Divider - 1), Interrupt
    PROVE  /\ irq_count' \in 0..(Divider - 1)
           /\ irq_count' = irq_count + 1 \/ irq_count' = irq_count + 1 - Divider
  <1>1. Divider \in Nat \ {0}
    BY SamplingAssumption
  <1>2. CASE irq_count + 1 < Divider
    <2>1. Divider * 0 + (irq_count + 1) = irq_count + 1 /\ irq_count + 1 \in 0..(Divider - 1)
      BY <1>1, <1>2
    <2>2. (irq_count + 1) % Divider = irq_count + 1
      BY <1>1, <2>1, Remainder
    <2>. QED BY <2>1, <2>2 DEF Interrupt
  <1>3. CASE irq_count + 1 = Divider
    <2>1. Divider % Divider = 0
      BY <1>1
    <2>. QED BY <1>1, <1>3, <2>1 DEF Interrupt
  <1>. QED BY <1>1, <1>2, <1>3

\* A trigger that runs counts its period.
LEMMA ToggleCounts ==
    ASSUME TriggerCounts, Toggle
    PROVE  /\ ready' = TRUE /\ max' = max /\ clock' \in BOOLEAN
           /\ count' \in 1..(max \div 2)
           /\ Elapsed \in Int /\ Elapsed' \in Int
           /\ Elapsed' = Elapsed + 1 \/ Elapsed' = Elapsed + 1 - max
  <1>. DEFINE h == max \div 2
  <1>1. ready /\ max \in Nat /\ max = 2 * h /\ h \in Nat /\ h >= 2 /\ count \in 1..h
    BY DEF TriggerCounts, Toggle, Even
  <1>2. /\ ready' = TRUE /\ max' = max /\ clock \in BOOLEAN /\ h' = h
        /\ clock' = (IF count >= h THEN ~clock ELSE clock)
        /\ count' = (IF count >= h THEN 1 ELSE count + 1)
    BY <1>1 DEF TriggerCounts, Toggle
  <1>3. /\ Elapsed = IF clock THEN count - 1 ELSE h + count - 1
        /\ Elapsed' = IF clock' THEN count' - 1 ELSE h + count' - 1
    BY <1>2 DEF Elapsed
  <1>. HIDE DEF h
  <1>4. /\ count' \in 1..h /\ Elapsed \in Int /\ Elapsed' \in Int
        /\ Elapsed' = Elapsed + 1 \/ Elapsed' = Elapsed + 1 - 2 * h
    <2>1. CASE count >= h /\ clock
      <3>1. count = h /\ count' = 1
        BY <1>1, <1>2, <2>1
      <3>3. clock' = ~clock
        BY <1>2, <2>1
      <3>4. ~clock'
        BY <2>1, <3>3
      <3>2. Elapsed = h - 1 /\ Elapsed' = h
        BY <1>1, <1>3, <2>1, <3>1, <3>4
      <3>. QED BY <1>1, <3>1, <3>2
    <2>2. CASE count >= h /\ ~clock
      <3>1. count = h /\ count' = 1
        BY <1>1, <1>2, <2>2
      <3>3. clock' = ~clock
        BY <1>2, <2>2
      <3>4. clock'
        BY <2>2, <3>3
      <3>2. Elapsed = h + h - 1 /\ Elapsed' = 0
        BY <1>1, <1>3, <2>2, <3>1, <3>4
      <3>. QED BY <1>1, <3>1, <3>2
    <2>3. CASE count < h /\ clock
      <3>0. ~(count >= h)
        BY <1>1, <2>3
      <3>1. clock' = clock /\ count' = count + 1
        BY <1>2, <3>0
      <3>2. Elapsed = count - 1 /\ Elapsed' = count
        BY <1>1, <1>3, <2>3, <3>1
      <3>. QED BY <1>1, <2>3, <3>1, <3>2
    <2>4. CASE count < h /\ ~clock
      <3>0. ~(count >= h)
        BY <1>1, <2>4
      <3>1. clock' = clock /\ count' = count + 1
        BY <1>2, <3>0
      <3>2. Elapsed = h + count - 1 /\ Elapsed' = h + count
        BY <1>1, <1>3, <2>4, <3>1
      <3>. QED BY <1>1, <2>4, <3>1, <3>2
    <2>. QED BY <1>1, <2>1, <2>2, <2>3, <2>4
  <1>5. Elapsed' = Elapsed + 1 \/ Elapsed' = Elapsed + 1 - max
    BY <1>1, <1>4
  <1>6. clock' \in BOOLEAN
    <2>1. CASE count >= h
      BY <1>2, <2>1
    <2>2. CASE ~(count >= h)
      BY <1>2, <2>2
    <2>. QED BY <2>1, <2>2
  <1>. QED BY <1>2, <1>4, <1>5, <1>6 DEF h

\* A clock keeps the invariant.
LEMMA ClockStep == ASSUME IInv, Clock PROVE IInv'
  <1>1. RegistersEven'
    BY DEF IInv, RegistersEven, Clock, registers, driver
  <1>2. irq_count' \in 0..(Divider - 1)
    BY InterruptCounts DEF IInv, TriggerCounts, Clock
  <1>3. SampleClock /\ TriggerCounts /\ RegistersEven
    BY DEF IInv, Clock
  <1>4. CASE run /\ Toggle
    <2>1. ready' = TRUE /\ max' = max /\ clock' \in BOOLEAN /\ count' \in 1..(max \div 2)
      BY <1>3, <1>4, ToggleCounts
    <2>2. max \in Even
      BY <1>3, <1>4 DEF TriggerCounts, Toggle
    <2>. QED BY <1>1, <1>2, <2>1, <2>2 DEF IInv, TriggerCounts
  <1>5. CASE run /\ AwaitIrq
    <2>1. divider \in Even /\ max' = divider /\ ready' \in BOOLEAN /\ clock' = ready'
      BY <1>3, <1>5 DEF AwaitIrq, RegistersEven
    <2>2. ready' => count' = 2
      BY <1>5 DEF AwaitIrq
    <2>3. 2 \in 1..(divider \div 2)
      BY <2>1 DEF Even
    <2>. QED BY <1>1, <1>2, <2>1, <2>2, <2>3 DEF IInv, TriggerCounts
  <1>6. CASE ~run
    <2>1. ready' = FALSE /\ clock' = FALSE
      BY <1>3, <1>6 DEF SampleClock
    <2>. QED BY <1>1, <1>2, <2>1 DEF IInv, TriggerCounts
  <1>. QED BY <1>3, <1>4, <1>5, <1>6 DEF SampleClock

\* The invariant holds from the start.
LEMMA InvInit == Init => IInv
  BY DEF Init, IInv, RegistersEven, TriggerCounts

\* What a driver counts on: the trigger is never given an odd or a zero divider,
\* and never counts past the half of it.
THEOREM TriggerCorrect == Spec => []IInv
  <1>1. IInv /\ [Next]_vars => IInv'
    <2>1. CASE Clock
      BY <2>1, ClockStep
    <2>2. CASE Drivers
      BY <2>2, DriverStep
    <2>3. CASE UNCHANGED vars
      BY <2>3 DEF vars, irq, trigger, registers, driver, IInv, RegistersEven, TriggerCounts
    <2>. QED BY <2>1, <2>2, <2>3 DEF Next
  <1>. QED BY InvInit, <1>1, PTL DEF Spec

\* A trigger whose period divides that of the interrupt keeps its place in it.
LEMMA StepKept ==
    ASSUME IInv, Clock, Exact, ready'
    PROVE  Offset' = Offset /\ max' = max
  <1>1. TriggerCounts /\ ready /\ Interrupt /\ irq_count \in 0..(Divider - 1)
    BY DEF IInv, Exact, Clock, TriggerCounts
  <1>2. Toggle
    BY <1>1 DEF Clock, SampleClock, AwaitIrq
  <1>3. /\ max' = max /\ Elapsed \in Int /\ Elapsed' \in Int
        /\ Elapsed' = Elapsed + 1 \/ Elapsed' = Elapsed + 1 - max
    BY <1>1, <1>2, ToggleCounts
  <1>4. /\ irq_count \in Int /\ irq_count' \in Int
        /\ irq_count' = irq_count + 1 \/ irq_count' = irq_count + 1 - Divider
    BY <1>1, InterruptCounts, SamplingAssumption
  <1>5. max \in Nat \ {0} /\ Divider \in Nat \ {0} /\ Divider % max = 0
    BY <1>1, SamplingAssumption DEF TriggerCounts, Even, Exact
  <1>6. (irq_count' - Elapsed') % max = (irq_count - Elapsed) % max
    <2>1. /\ Advances(irq_count, irq_count', Divider) /\ Advances(Elapsed, Elapsed', max)
          /\ Divides(max, Divider)
      BY <1>3, <1>4, <1>5 DEF Advances, Divides
    <2>2. irq_count \in Int /\ irq_count' \in Int /\ Elapsed \in Int /\ Elapsed' \in Int
      BY <1>3, <1>4
    <2>3. max \in Nat \ {0} /\ Divider \in Nat \ {0}
      BY <1>5
    <2>4. Ahead(irq_count', Elapsed', max) = Ahead(irq_count, Elapsed, max)
      BY <2>1, <2>2, <2>3, TogetherInStep
    <2>. QED BY <2>4 DEF Ahead
  <1>. QED BY <1>3, <1>6 DEF Offset

\* mz_adcSampleClock.h: with an exact divisor the trigger does not drift against
\* the interrupt, for every period and every number of samples.
THEOREM NoDrift == Spec => TriggerKeepsStep
  <1>1. IInv /\ [Next]_vars => [Exact /\ ready' => Offset' = Offset]_vars
    <2>. SUFFICES ASSUME IInv, Next, Exact, ready' PROVE Offset' = Offset
      <3>1. UNCHANGED vars => [Exact /\ ready' => Offset' = Offset]_vars
        OBVIOUS
      <3>. QED BY <3>1
    <2>1. CASE Drivers
      BY <2>1, DriverStep DEF Offset, Elapsed
    <2>2. CASE Clock
      BY <2>2, StepKept
    <2>. QED BY <2>1, <2>2 DEF Next
  <1>. QED BY TriggerCorrect, <1>1, PTL DEF Spec, TriggerKeepsStep

-----------------------------------------------------------------------------
(* Powers of two *)

\* A set of naturals that is not empty has a least element, and a bounded one a
\* greatest.
LEMMA LeastElement ==
    ASSUME NEW S \in SUBSET Nat, S # {}
    PROVE  \E x \in S : \A y \in S : x <= y
  <1>. DEFINE R == OpToRel(<, Nat)
  <1>1. \E x \in S : \A y \in S : ~(<<y, x>> \in R)
    <2>1. IsWellFoundedOn(R, Nat)
      BY NatLessThanWellFounded
    <2>. HIDE DEF R
    <2>. QED BY <2>1, WFMin
  <1>2. \A x, y \in S : <<y, x>> \notin R => x <= y
    BY DEF OpToRel
  <1>. QED BY <1>1, <1>2

LEMMA GreatestElement ==
    ASSUME NEW n \in Nat, NEW S \in SUBSET (0..n), S # {}
    PROVE  \E x \in S : \A y \in S : y <= x
  <1>. DEFINE T == {k \in Nat : n - k \in S}
  <1>1. PICK s \in S : TRUE
    OBVIOUS
  <1>2. n - s \in T
    <2>1. n - s \in Nat /\ n - (n - s) = s
      OBVIOUS
    <2>. QED BY <1>1, <2>1
  <1>3. PICK k \in T : \A j \in T : k <= j
    <2>. HIDE DEF T
    <2>1. T \in SUBSET Nat
      BY DEF T
    <2>. QED BY <1>2, <2>1, LeastElement
  <1>4. n - k \in S /\ k \in Nat
    OBVIOUS
  <1>5. ASSUME NEW y \in S PROVE y <= n - k
    <2>1. n - y \in Nat /\ n - (n - y) = y
      OBVIOUS
    <2>2. k <= n - y
      BY <1>3, <2>1
    <2>. QED BY <1>4, <2>1, <2>2
  <1>. QED BY <1>4, <1>5

LEMMA PowersDouble ==
    /\ Pow2 \subseteq 1..MaxSamples /\ MaxSamples \in Nat \ {0}
    /\ 1 \in Pow2
    /\ \A p \in Pow2 : 2 * p <= MaxSamples => 2 * p \in Pow2
  <1>1. MaxSamples \in Nat \ {0}
    BY SamplingAssumption
  <1>2. Pow2 \subseteq 1..MaxSamples
    BY DEF Pow2
  <1>3. 1 \in Pow2
    BY <1>1 DEF Pow2
  <1>4. ASSUME NEW p \in Pow2, 2 * p <= MaxSamples PROVE 2 * p \in Pow2
    <2>1. 2 * p \in 1..MaxSamples
      BY <1>1, <1>2, <1>4
    <2>2. ASSUME NEW S \in SUBSET (1..MaxSamples),
                 1 \in S, \A q \in S : 2 * q <= MaxSamples => 2 * q \in S
          PROVE  2 * p \in S
      <3>1. p \in S
        BY <2>2 DEF Pow2
      <3>. QED BY <1>4, <2>2, <3>1
    <2>. QED BY <2>1, <2>2 DEF Pow2
  <1>. QED BY <1>1, <1>2, <1>3, <1>4

LEMMA PowersInduct ==
    ASSUME NEW S \in SUBSET Pow2, 1 \in S,
           \A q \in S : 2 * q <= MaxSamples => 2 * q \in S
    PROVE  S = Pow2
  <1>1. S \in SUBSET (1..MaxSamples)
    BY PowersDouble
  <1>2. ASSUME NEW p \in Pow2 PROVE p \in S
    BY <1>1 DEF Pow2
  <1>. QED BY <1>2

\* Between a power of two and its double there is no other.
LEMMA PowersApart == \A p, q \in Pow2 : p < q => 2 * p <= q
  <1>. USE PowersDouble
  <1>. DEFINE H == {p \in Pow2 : p = 1 \/ \E r \in Pow2 : p = 2 * r}
  <1>1. H = Pow2
    <2>1. 1 \in H /\ \A q \in H : 2 * q <= MaxSamples => 2 * q \in H
      OBVIOUS
    <2>2. H \in SUBSET Pow2
      OBVIOUS
    <2>. HIDE DEF H
    <2>. QED BY <2>1, <2>2, PowersInduct
  <1>. DEFINE S == {q \in Pow2 : \A p \in Pow2 : p < q => 2 * p <= q}
  <1>2. 1 \in S
    OBVIOUS
  <1>3. ASSUME NEW q \in S, 2 * q <= MaxSamples PROVE 2 * q \in S
    <2>1. 2 * q \in Pow2 /\ q \in Nat \ {0}
      BY <1>3
    <2>2. ASSUME NEW p \in Pow2, p < 2 * q PROVE 2 * p <= 2 * q
      <3>1. p = 1 \/ \E r \in Pow2 : p = 2 * r
        BY <1>1
      <3>2. CASE p = 1
        BY <2>1, <3>2
      <3>3. ASSUME NEW r \in Pow2, p = 2 * r PROVE 2 * p <= 2 * q
        <4>1. r < q /\ r \in Nat
          BY <2>1, <2>2, <3>3
        <4>2. 2 * r <= q
          BY <4>1
        <4>. QED BY <2>1, <3>3, <4>1, <4>2
      <3>. QED BY <3>1, <3>2, <3>3
    <2>. QED BY <2>1, <2>2
  <1>4. S = Pow2
    <2>1. S \in SUBSET Pow2
      OBVIOUS
    <2>. HIDE DEF S
    <2>. QED BY <1>2, <1>3, <2>1, PowersInduct
  <1>. QED BY <1>4

\* The core takes the greatest power of two that is not above the register.
LEMMA LoadedIsGreatest ==
    ASSUME NEW n \in 1..MaxSamples
    PROVE  /\ Loaded(n) \in Pow2 /\ Loaded(n) <= n
           /\ \A q \in Pow2 : q <= n => q <= Loaded(n)
  <1>. DEFINE S == {p \in Pow2 : p <= n}
  <1>1. PICK p \in S : \A q \in S : q <= p
    <2>1. 1 \in S /\ n \in Nat
      BY PowersDouble
    <2>2. S \in SUBSET (0..n)
      <3>1. ASSUME NEW q \in Pow2, q <= n PROVE q \in 0..n
        BY <2>1, <3>1, PowersDouble
      <3>. QED BY <3>1
    <2>3. S # {}
      BY <2>1
    <2>. HIDE DEF S
    <2>. QED BY <2>1, <2>2, <2>3, GreatestElement
  <1>2. \E x \in Pow2 : x <= n /\ \A q \in Pow2 : q <= n => q <= x
    BY <1>1
  <1>. QED BY <1>2 DEF Loaded

\* mz_averager.c:18: the number that is returned is the one the core takes.
THEOREM SameNumber == \A n \in 1..MaxSamples : floor_pow2(n) = Loaded(n)
  <1>. SUFFICES ASSUME NEW n \in 1..MaxSamples PROVE floor_pow2(n) = Loaded(n)
    OBVIOUS
  <1>. DEFINE Loop(f) == f = [p \in Pow2 |-> IF 2 * p <= n THEN f[2 * p] ELSE p]
  <1>. DEFINE g == [p \in Pow2 |-> IF p <= n THEN Loaded(n) ELSE p]
  <1>0. n \in Nat /\ n <= MaxSamples /\ MaxSamples \in Nat /\ Pow2 \subseteq Nat \ {0}
    BY PowersDouble
  <1>1. ASSUME NEW p \in Pow2, p <= n, 2 * p > n PROVE p = Loaded(n)
    <2>1. p <= Loaded(n) /\ Loaded(n) <= n /\ Loaded(n) \in Pow2
      BY <1>1, LoadedIsGreatest
    <2>2. p < Loaded(n) => 2 * p <= Loaded(n)
      BY <2>1, PowersApart
    <2>3. p \in Nat /\ Loaded(n) \in Nat
      BY <1>0, <2>1
    <2>. HIDE DEF Loop, g
    <2>. QED BY <1>0, <1>1, <2>1, <2>2, <2>3
  <1>2. Loop(g)
    <2>1. ASSUME NEW p \in Pow2 PROVE g[p] = IF 2 * p <= n THEN g[2 * p] ELSE p
      <3>1. CASE 2 * p <= n
        <4>1. 2 * p \in Pow2 /\ p <= n
          BY <1>0, <3>1, PowersDouble
        <4>. QED BY <3>1, <4>1
      <3>2. CASE ~(2 * p <= n) /\ p <= n
        BY <1>0, <1>1, <3>2
      <3>3. CASE ~(p <= n)
        BY <1>0, <3>3
      <3>. QED BY <3>1, <3>2, <3>3
    <2>. QED BY <2>1
  <1>. DEFINE f == CHOOSE h : Loop(h)
  <1>3. Loop(f)
    <2>. HIDE DEF Loop, g
    <2>. QED BY <1>2
  <1>4. ASSUME NEW p \in Pow2, p <= n PROVE f[p] = Loaded(n)
    <2>. HIDE DEF f
    <2>. DEFINE Bad == {q \in Pow2 : q <= n /\ f[q] # Loaded(n)}
    <2>1. ASSUME Bad # {} PROVE FALSE
      <3>1. PICK q \in Bad : \A r \in Bad : r <= q
        <4>1. Bad \in SUBSET (0..n)
          <5>1. \A q \in Pow2 : q <= n => q \in 0..n
            BY <1>0
          <5>. QED BY <5>1
        <4>. HIDE DEF Bad
        <4>. QED BY <1>0, <2>1, <4>1, GreatestElement
      <3>2. q \in Pow2 /\ f[q] = IF 2 * q <= n THEN f[2 * q] ELSE q
        BY <1>3
      <3>3. CASE 2 * q <= n
        <4>1. 2 * q \in Pow2 /\ 2 * q > q
          BY <1>0, <3>2, <3>3, PowersDouble
        <4>2. f[2 * q] = Loaded(n)
          BY <1>0, <3>1, <3>3, <4>1
        <4>. QED BY <3>2, <3>3, <4>2
      <3>4. CASE ~(2 * q <= n)
        BY <1>0, <1>1, <3>2, <3>4
      <3>. QED BY <3>3, <3>4
    <2>. QED BY <1>4, <2>1
  <1>5. floor_pow2(n) = f[1]
    BY DEF floor_pow2
  <1>6. 1 \in Pow2 /\ 1 <= n
    BY PowersDouble
  <1>. QED BY <1>4, <1>5, <1>6

-----------------------------------------------------------------------------
(* Types *)

\* The register of the averager holds what a call asked for.
AskedFor ==
    /\ samples = 0 \/ samples \in Averages
    /\ pc \in {"disable", "sleep"} => samples \in Averages /\ arg = samples

\* The type invariant, one variable at a time
Booleans ==
    /\ run \in BOOLEAN /\ ready \in BOOLEAN /\ clock \in BOOLEAN
    /\ raw_valid \in BOOLEAN /\ raw_before \in BOOLEAN
    /\ enabled \in BOOLEAN /\ sync_wait \in BOOLEAN /\ avg_done \in BOOLEAN
    /\ clocked \in BOOLEAN /\ whole \in BOOLEAN

Numbers ==
    /\ divider \in Nat /\ arg \in Nat /\ samples \in Nat /\ current_samples \in Nat
    /\ position \in Nat /\ max \in Nat /\ count \in Nat
    /\ irq_count \in 0..(Divider - 1)
    /\ age \in 0..3 /\ loads \in 0..2 /\ windows \in 0..3
    /\ conv \in 0..Conversion /\ slept \in 0..SleepClocks
    /\ max_datos \in Pow2 /\ cont_datos \in 0..MaxSamples /\ cont_calc \in 0..CuentasCalcAvg
    /\ pc \in {"idle", "divider", "start", "disable", "sleep"}

Typed == Booleans /\ Numbers

LEMMA TypeParts == TypeOK <=> Typed
  <1>1. Booleans <=> {run, ready, clock, raw_valid, raw_before, enabled, sync_wait, avg_done,
                      clocked, whole} \subseteq BOOLEAN
    BY DEF Booleans
  <1>2. divider \in Nat /\ arg \in Nat /\ samples \in Nat /\ current_samples \in Nat
            /\ position \in Nat
        <=> {divider, arg, samples, current_samples, position} \subseteq Nat
    OBVIOUS
  <1>. QED BY <1>1, <1>2, Zenon DEF TypeOK, Typed, Numbers

LEMMA TypeInit == Init => Typed /\ AskedFor
  <1>. SUFFICES ASSUME Init PROVE Typed /\ AskedFor
    OBVIOUS
  <1>1. max_datos \in Pow2 /\ 0 \in 0..MaxSamples
    BY PowersDouble DEF Init
  <1>2. 0 \in 0..Conversion /\ 0 \in 0..CuentasCalcAvg /\ 0 \in 0..SleepClocks
    BY SamplingAssumption DEF SleepClocks
  <1>3. Booleans
    BY Zenon DEF Init, Booleans
  <1>4. Numbers /\ AskedFor
    BY <1>1, <1>2 DEF Init, Numbers, AskedFor
  <1>. QED BY <1>3, <1>4 DEF Typed

LEMMA LoadType ==
    ASSUME Typed, AskedFor, Load
    PROVE  max_datos' \in Pow2 /\ loads' \in 0..2
  <1>1. samples # 0 => Loaded(samples) \in Pow2
    <2>1. samples # 0 => samples \in 1..MaxSamples
      BY SamplingAssumption DEF AskedFor
    <2>. QED BY <2>1, LoadedIsGreatest
  <1>2. max_datos' = max_datos \/ (samples # 0 /\ max_datos' = Loaded(samples))
    BY DEF Load
  <1>3. loads' \in {0, loads} \/ (loads < 2 /\ loads' = loads + 1)
    BY DEF Load
  <1>. QED BY <1>1, <1>2, <1>3 DEF Typed, Booleans, Numbers

LEMMA AveragerType ==
    ASSUME Typed, AskedFor, Averager
    PROVE  /\ max_datos' \in Pow2 /\ loads' \in 0..2
           /\ cont_datos' \in 0..MaxSamples /\ cont_calc' \in 0..CuentasCalcAvg
           /\ sync_wait' \in BOOLEAN /\ avg_done' \in BOOLEAN
  <1>0. max_datos \in 1..MaxSamples /\ MaxSamples \in Nat \ {0} /\ CuentasCalcAvg \in Nat \ {0}
    BY PowersDouble, SamplingAssumption DEF Typed, Booleans, Numbers
  <1>1. max_datos' \in Pow2 /\ loads' \in 0..2
    BY LoadType DEF Averager
  <1>2. CASE Accumulate
    BY <1>0, <1>1, <1>2 DEF Accumulate, Full, Typed, Booleans, Numbers
  <1>3. CASE Calculate
    <2>1. cont_calc' \in 0..CuentasCalcAvg
      BY <1>0, <1>3 DEF Calculate, Typed, Booleans, Numbers
    <2>2. avg_done' \in BOOLEAN
      BY <1>3 DEF Calculate, Typed, Booleans, Numbers
    <2>. QED BY <1>1, <1>3, <2>1, <2>2 DEF Calculate, Typed, Booleans, Numbers
  <1>4. CASE Restart
    <2>1. cont_datos' \in {cont_datos, 1} /\ cont_calc' \in {cont_calc, 0}
      BY <1>4 DEF Restart
    <2>2. sync_wait' \in BOOLEAN /\ avg_done' \in BOOLEAN
      BY <1>4 DEF Restart
    <2>. QED BY <1>0, <1>1, <2>1, <2>2 DEF Typed, Booleans, Numbers
  <1>5. CASE Pass
    <2>1. cont_datos' \in {cont_datos, 0} /\ cont_calc' \in {cont_calc, 0}
      BY <1>5 DEF Pass
    <2>2. sync_wait' \in BOOLEAN
      BY <1>5 DEF Pass
    <2>3. avg_done' \in BOOLEAN
      <3>1. avg_done \in BOOLEAN
        BY DEF Typed, Booleans, Numbers
      <3>2. CASE Reload
        <4>1. ~(Synced /\ NewData)
          BY <3>2 DEF Reload, OldData, NewData
        <4>. QED BY <1>5, <3>2, <4>1 DEF Pass
      <3>3. CASE ~Reload
        BY <1>5, <3>1, <3>3 DEF Pass
      <3>. QED BY <3>2, <3>3
    <2>. QED BY <1>0, <1>1, <2>1, <2>2, <2>3 DEF Typed, Booleans, Numbers
  <1>. QED BY <1>2, <1>3, <1>4, <1>5 DEF Averager

LEMMA ConverterType ==
    ASSUME Typed, Converter
    PROVE  conv' \in 0..Conversion /\ raw_valid' \in BOOLEAN /\ raw_before' \in BOOLEAN
  <1>0. Conversion \in Nat /\ 2 <= Conversion /\ conv \in 0..Conversion /\ raw_valid \in BOOLEAN
    BY SamplingAssumption DEF Typed, Booleans, Numbers
  <1>1. conv' \in 0..Conversion
    <2>1. CASE conv = 0
      <3>1. conv' \in {0, 1}
        BY <2>1 DEF Converter
      <3>. QED BY <1>0, <3>1
    <2>2. CASE conv # 0 /\ conv = Conversion
      <3>1. conv' = 0
        BY <2>2 DEF Converter
      <3>. QED BY <1>0, <3>1
    <2>3. CASE conv # 0 /\ conv # Conversion
      <3>1. conv' = conv + 1
        BY <2>3 DEF Converter
      <3>. QED BY <1>0, <2>3, <3>1
    <2>. QED BY <2>1, <2>2, <2>3
  <1>2. raw_valid' \in BOOLEAN
    <2>1. CASE conv = 1
      BY <1>0, <2>1 DEF Converter
    <2>2. CASE conv = Conversion
      BY <1>0, <2>2 DEF Converter
    <2>3. CASE conv # 1 /\ conv # Conversion
      BY <1>0, <2>3 DEF Converter
    <2>. QED BY <2>1, <2>2, <2>3
  <1>3. raw_before' \in BOOLEAN
    BY <1>0 DEF Converter
  <1>. QED BY <1>1, <1>2, <1>3

LEMMA SampleClockType ==
    ASSUME Typed, SampleClock
    PROVE  /\ age' \in 0..3 /\ ready' \in BOOLEAN /\ clock' \in BOOLEAN
           /\ max' \in Nat /\ count' \in Nat
  <1>1. CASE run /\ Toggle
    <2>1. age' \in 0..3
      BY <1>1 DEF SampleClock, Toggle, AtMost, Typed, Booleans, Numbers
    <2>2. max' \in Nat /\ count' \in Nat
      BY <1>1 DEF Toggle, Typed, Booleans, Numbers
    <2>3. ready' \in BOOLEAN /\ clock' \in BOOLEAN
      BY <1>1 DEF Toggle, Typed, Booleans, Numbers
    <2>. QED BY <2>1, <2>2, <2>3
  <1>2. CASE run /\ AwaitIrq
    <2>1. age' \in 0..3
      BY <1>2 DEF SampleClock, AtMost, Typed, Booleans, Numbers
    <2>2. max' \in Nat /\ count' \in Nat
      BY <1>2 DEF AwaitIrq, Typed, Booleans, Numbers
    <2>3. ready' \in BOOLEAN /\ clock' \in BOOLEAN
      BY <1>2 DEF AwaitIrq
    <2>. QED BY <2>1, <2>2, <2>3
  <1>3. CASE ~run
    <2>1. age' = 0 /\ max' = 1 /\ count' = 1
      BY <1>3 DEF SampleClock
    <2>2. ready' = FALSE /\ clock' = FALSE
      BY <1>3 DEF SampleClock
    <2>3. ready' \in BOOLEAN /\ clock' \in BOOLEAN
      BY <2>2, Zenon
    <2>. QED BY <2>1, <2>3
  <1>. QED BY <1>1, <1>2, <1>3 DEF SampleClock

LEMMA HistoryType ==
    ASSUME Typed, History
    PROVE  position' \in Nat /\ whole' \in BOOLEAN /\ windows' \in 0..3
  <1>1. position' \in Nat
    BY DEF History, Counted, Typed, Booleans, Numbers
  <1>2. whole' \in BOOLEAN
    BY DEF History, Typed, Booleans, Numbers
  <1>3. windows' \in 0..3
    <2>1. windows' \in {0, windows, AtMost(3, windows + 1)}
      BY DEF History
    <2>. QED BY <2>1 DEF Typed, Booleans, Numbers, AtMost
  <1>. QED BY <1>1, <1>2, <1>3

LEMMA ClockType == Typed /\ AskedFor /\ Clock => Typed' /\ AskedFor'
  <1>. SUFFICES ASSUME Typed, AskedFor, Clock PROVE Typed' /\ AskedFor'
    OBVIOUS
  <1>1. UNCHANGED <<divider, run, samples, enabled, pc, arg, current_samples>> /\ clocked' = TRUE
    BY DEF Clock, registers, driver
  <1>2. irq_count' \in 0..(Divider - 1)
    BY InterruptCounts DEF Typed, Booleans, Numbers, Clock
  <1>3. slept' \in 0..SleepClocks
    <2>1. SleepClocks \in Nat
      BY SamplingAssumption DEF SleepClocks
    <2>. HIDE DEF SleepClocks
    <2>. QED BY <2>1 DEF Typed, Booleans, Numbers, Clock, AtMost
  <1>4. AskedFor'
    BY <1>1 DEF AskedFor
  <1>5. Averager /\ Converter /\ SampleClock /\ History
    BY DEF Clock
  <1>6. /\ max_datos' \in Pow2 /\ loads' \in 0..2
        /\ cont_datos' \in 0..MaxSamples /\ cont_calc' \in 0..CuentasCalcAvg
        /\ sync_wait' \in BOOLEAN /\ avg_done' \in BOOLEAN
    BY <1>5, AveragerType
  <1>7. conv' \in 0..Conversion /\ raw_valid' \in BOOLEAN /\ raw_before' \in BOOLEAN
    BY <1>5, ConverterType
  <1>8. /\ age' \in 0..3 /\ ready' \in BOOLEAN /\ clock' \in BOOLEAN
        /\ max' \in Nat /\ count' \in Nat
    BY <1>5, SampleClockType
  <1>9. position' \in Nat /\ whole' \in BOOLEAN /\ windows' \in 0..3
    BY <1>5, HistoryType
  <1>10. Typed'
    BY <1>1, <1>2, <1>3, <1>6, <1>7, <1>8, <1>9 DEF Typed, Booleans, Numbers
  <1>. QED BY <1>4, <1>10

LEMMA DriversType == Typed /\ AskedFor /\ Drivers => Typed' /\ AskedFor'
  <1>. SUFFICES ASSUME Typed, AskedFor, Drivers PROVE Typed' /\ AskedFor'
    OBVIOUS
  <1>0. /\ pc' \in {"idle", "divider", "start", "disable", "sleep"} /\ clocked' = FALSE
        /\ UNCHANGED <<irq, trigger, converter, averager, slept, history>>
    BY DEF Drivers, mz_adcSampleClock_set_samples_per_isr, mz_adcSampleClock_stop,
       mz_averager_set_samples, mz_averager_disable, Access
  <1>. DEFINE Kept ==
         /\ divider' \in Nat /\ arg' \in Nat /\ samples' \in Nat /\ current_samples' \in Nat
         /\ AskedFor'
  <1>. DEFINE Switched == run' \in {TRUE, FALSE, run} /\ enabled' \in {TRUE, FALSE, enabled}
  <1>1. ASSUME mz_adcSampleClock_set_samples_per_isr PROVE Kept /\ Switched
    <2>1. \A n \in Requests : even_divider(Divider, n) \in Nat
      BY RequestsEven DEF Even
    <2>2. Kept
      BY <1>1, <2>1 DEF mz_adcSampleClock_set_samples_per_isr, Access, Typed, Numbers, AskedFor
    <2>3. Switched
      BY <1>1 DEF mz_adcSampleClock_set_samples_per_isr
    <2>. QED BY <2>2, <2>3
  <1>2. ASSUME mz_adcSampleClock_stop PROVE Kept /\ Switched
    <2>1. Kept
      BY <1>2 DEF mz_adcSampleClock_stop, Access, Typed, Numbers, AskedFor
    <2>. QED BY <1>2, <2>1 DEF mz_adcSampleClock_stop
  <1>3. ASSUME mz_averager_set_samples PROVE Kept /\ Switched
    <2>1. \A n \in Averages : n \in Nat
      BY SamplingAssumption
    <2>2. pc = "sleep" => floor_pow2(arg) \in Nat
      <3>1. pc = "sleep" => arg \in 1..MaxSamples
        BY SamplingAssumption DEF AskedFor
      <3>2. ASSUME arg \in 1..MaxSamples PROVE floor_pow2(arg) \in Nat
        <4>1. floor_pow2(arg) = Loaded(arg)
          BY <3>2, SameNumber
        <4>2. Loaded(arg) \in Pow2
          BY <3>2, LoadedIsGreatest
        <4>3. Loaded(arg) \in 1..MaxSamples /\ MaxSamples \in Nat
          BY <4>2, PowersDouble
        <4>4. Loaded(arg) \in Nat
          BY <4>3
        <4>. QED BY <4>1, <4>4
      <3>. QED BY <3>1, <3>2
    <2>3. Kept
      BY <1>3, <2>1, <2>2 DEF mz_averager_set_samples, Access, Typed, Numbers, AskedFor
    <2>. QED BY <1>3, <2>3 DEF mz_averager_set_samples
  <1>4. ASSUME mz_averager_disable PROVE Kept /\ Switched
    <2>1. Kept
      BY <1>4 DEF mz_averager_disable, Access, Typed, Numbers, AskedFor
    <2>. QED BY <1>4, <2>1 DEF mz_averager_disable
  <1>5. Kept /\ Switched
    BY <1>1, <1>2, <1>3, <1>4 DEF Drivers
  <1>6. run' \in BOOLEAN /\ enabled' \in BOOLEAN
    <2>1. run \in BOOLEAN /\ enabled \in BOOLEAN
      BY DEF Typed, Booleans
    <2>. QED BY <1>5, <2>1
  <1>7. Booleans'
    BY <1>0, <1>6 DEF Typed, Booleans, trigger, converter, averager, history
  <1>8. Numbers'
    BY <1>0, <1>5 DEF Typed, Numbers, irq, trigger, converter, averager, history
  <1>. QED BY <1>5, <1>7, <1>8 DEF Typed

LEMMA TypeStep == Typed /\ AskedFor /\ [Next]_vars => Typed' /\ AskedFor'
  <1>1. UNCHANGED vars /\ Typed /\ AskedFor => Typed' /\ AskedFor'
    BY DEF vars, irq, trigger, converter, averager, registers, driver, history, Typed, Booleans, Numbers, AskedFor
  <1>. QED BY <1>1, ClockType, DriversType DEF Next

\* Registers, counters and locals keep their types: the counter of the samples stays
\* within max_samples and the core takes a power of two, whatever is asked for.
THEOREM TypeCorrect == Spec => []TypeOK
  BY TypeStep, TypeInit, TypeParts, PTL DEF Spec

===============================================================================
