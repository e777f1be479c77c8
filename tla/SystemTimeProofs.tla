--------------------------- MODULE SystemTimeProofs ---------------------------
(***************************************************************************)
(* Proofs about SystemTime, for registers of any width: its types, and     *)
(* that a time put together from several reads of a counting timer is one  *)
(* the timer had meanwhile.                                                *)
(***************************************************************************)
EXTENDS SystemTime, TLAPS

\* The numbers the results are made of.
LEMMA Numbers ==
    /\ Word \in Nat \ {0} /\ PerMs \in Nat \ {0} /\ PerSec \in Nat \ {0}
    /\ \A n \in Nat : n \div PerMs \in Nat /\ n \div PerSec \in Nat
    /\ \A n \in Nat : Unsigned(n) \in 0..(Word - 1)
    /\ \A t \in Time : Ticks(t) \in Nat
    /\ \A s, t \in Time : Diff(t, s) \in Int
  <1>1. Word \in Nat \ {0} /\ PerMs \in Nat \ {0} /\ PerSec \in Nat \ {0}
    BY TimeAssumption
  <1>2. \A n \in Nat : n \div PerMs \in Nat /\ n \div PerSec \in Nat
    BY <1>1
  <1>3. \A n \in Nat : Unsigned(n) \in 0..(Word - 1)
    BY <1>1 DEF Unsigned
  <1>4. ASSUME NEW t \in Time PROVE Ticks(t) \in Nat
    <2>1. t.upper \in Nat /\ t.lower \in Nat
      BY <1>1 DEF Time
    <2>2. t.upper * Word \in Nat
      BY <1>1, <2>1
    <2>. QED BY <2>1, <2>2 DEF Ticks
  <1>5. ASSUME NEW s \in Time, NEW t \in Time PROVE Diff(t, s) \in Int
    <2>. DEFINE half == Word \div 2
    <2>1. half \in Int
      BY <1>1
    <2>2. Ticks(t) - Ticks(s) + half \in Int
      BY <1>4, <2>1
    <2>. HIDE DEF half
    <2>3. ((Ticks(t) - Ticks(s) + half) % Word) \in Int
      BY <1>1, <2>2
    <2>. QED BY <2>1, <2>3 DEF Diff, half
  <1>. QED BY <1>1, <1>2, <1>3, <1>4, <1>5

\* A value is a time.
LEMMA ValueIsTime == ASSUME TypeOK PROVE Value \in Time
  BY DEF TypeOK, Value, Time

\* Counting keeps a time a time, and takes it to the next one.
LEMMA Counting ==
    ASSUME NEW t \in Time
    PROVE  /\ Count(t) \in Time
           /\ \/ Count(t).upper = t.upper /\ Count(t).lower = t.lower + 1
              \/ Count(t).upper = t.upper + 1 /\ Count(t).lower = 0
  BY Numbers DEF Count, Time

\* One step keeps the types.
LEMMA TypeStep == TypeOK /\ [Next]_vars => TypeOK'
  <1>. SUFFICES ASSUME TypeOK, [Next]_vars PROVE TypeOK'
    OBVIOUS
  <1>. USE DEF TypeOK
  <1>1. CASE Tick
    BY <1>1, Counting DEF Tick, regs, stamps, results, history
  <1>2. CASE Interrupt
    BY <1>2 DEF Interrupt, Reads, regs, stamps, results
  <1>3. ASSUME NEW p \in {"tic", "toc"}, ReadValue64Bit(p) PROVE TypeOK'
    <2>. USE <1>3 DEF ReadValue64Bit, Goto, Reads, stamps, results
    <2>1. CASE Call(p)
      BY <2>1 DEF Call, regs
    <2>2. CASE ReadUpper(p)
      BY <2>2 DEF ReadUpper, Time
    <2>3. CASE ReadLower(p)
      BY <2>3 DEF ReadLower, Time
    <2>4. CASE ReadCheck(p)
      BY <2>4 DEF ReadCheck, Time
    <2>5. CASE ReadAgain(p)
      BY <2>5 DEF ReadAgain, Time
    <2>. QED BY <2>1, <2>2, <2>3, <2>4, <2>5
  <1>4. CASE mz_SystemTime_ISR_Tic
    <2>1. CASE ReadValue64Bit("tic")
      BY <2>1, <1>3
    <2>2. CASE ~ReadValue64Bit("tic")
      <3>1. /\ isr' = <<"control", "none">>
            /\ timestamp_ISR_start' = Value
            /\ mz_SystemTime_update(Value)
            /\ TicTocLock' = TRUE
            /\ UNCHANGED <<timer, regs, timestamp_ISR_end, history>>
        BY <1>4, <2>2 DEF mz_SystemTime_ISR_Tic
      <3>2. uptime_ms' \in 0..(Word - 1) /\ uptime_sec' \in Nat
        BY <3>1, ValueIsTime, Numbers DEF mz_SystemTime_update
      <3>3. isr_execution_time' \in Int /\ isr_period' \in Int
        BY <3>1, ValueIsTime, Numbers DEF mz_SystemTime_update
      <3>. QED BY <3>1, <3>2, <3>3, ValueIsTime DEF mz_SystemTime_update, regs, history
    <2>. QED BY <2>1, <2>2
  <1>5. CASE mz_SystemTime_ISR_Toc
    <2>1. CASE ReadValue64Bit("toc")
      BY <2>1, <1>3
    <2>2. CASE isr = <<"control", "none">>
      <3>1. ~ReadValue64Bit("toc")
        BY <2>2 DEF ReadValue64Bit, Call, ReadUpper, ReadLower, ReadCheck, ReadAgain, Goto
      <3>2. isr' = <<"toc", "call">> /\ TicTocLock' = FALSE
        BY <2>2, <3>1, <1>5 DEF mz_SystemTime_ISR_Toc
      <3>3. UNCHANGED <<timer, regs, stamps, results, history>>
        BY <2>2, <3>1, <1>5 DEF mz_SystemTime_ISR_Toc
      <3>. QED BY <3>2, <3>3 DEF Reads, regs, stamps, results, history
    <2>3. CASE isr = <<"toc", "return">> /\ ~ReadValue64Bit("toc")
      <3>1. Ticks(timer) - Ticks(entered) \in Int
        BY Numbers
      <3>. QED BY <2>3, <3>1, <1>5, ValueIsTime DEF mz_SystemTime_ISR_Toc, regs, results
    <2>. QED BY <2>1, <2>2, <2>3, <1>5 DEF mz_SystemTime_ISR_Toc
  <1>6. CASE UNCHANGED vars
    BY <1>6 DEF vars, regs, stamps, results, history
  <1>. QED BY <1>1, <1>2, <1>4, <1>5, <1>6 DEF Next

\* The registers, the statements and the results have their types: a saturated
\* conversion stays in its range, a difference in an int.
THEOREM TypeCorrect == Spec => []TypeOK
  <1>1. Init => TypeOK
    <2>1. 0 \in 0..(Word - 1)
      BY Numbers
    <2>2. Start \in Time
      BY <2>1 DEF Start, Time
    <2>. HAVE Init
    <2>3. /\ timer \in Time /\ called \in Time /\ entered \in Time
          /\ {timestamp_ISR_start, timestamp_ISR_end, previous_timestamp_ISR_start} \subseteq Time
      BY <2>2 DEF Init
    <2>4. /\ reg_upper \in Nat /\ reg_lower \in 0..(Word - 1) /\ reg_upper_check \in Nat
          /\ uptime_ms \in 0..(Word - 1) /\ uptime_sec \in Nat /\ interrupt_counter \in 0..2
      BY <2>1 DEF Init
    <2>5. /\ isr \in {<<"none", "none">>, <<"control", "none">>} \cup ({"tic", "toc"} \X Reads)
          /\ TicTocLock \in BOOLEAN
      BY DEF Init
    <2>6. isr_execution_time \in Int /\ isr_period \in Int /\ lasted \in Int
      BY DEF Init
    <2>. QED BY <2>3, <2>4, <2>5, <2>6 DEF TypeOK
  <1>. QED BY <1>1, TypeStep, PTL DEF Spec
-----------------------------------------------------------------------------
(* The order of times *)

\* Times are ordered, and counting goes on.
LEMMA Ordered ==
    /\ \A t \in Time : Leq(t, t) /\ Leq(Start, t) /\ Leq(t, Count(t))
    /\ \A s, t, u \in Time : Leq(s, t) /\ Leq(t, u) => Leq(s, u)
  <1>1. \A t \in Time : Leq(t, t)
    BY Numbers DEF Time, Leq
  <1>2. \A t \in Time : Leq(Start, t)
    BY Numbers DEF Time, Leq, Start
  <1>3. ASSUME NEW t \in Time PROVE Leq(t, Count(t))
    <2>1. t.upper \in Nat /\ t.lower \in Nat
      BY Numbers DEF Time
    <2>. QED BY <2>1, Counting DEF Leq
  <1>4. \A s, t, u \in Time : Leq(s, t) /\ Leq(t, u) => Leq(s, u)
    BY Numbers DEF Time, Leq
  <1>. QED BY <1>1, <1>2, <1>3, <1>4

\* The order of times is the order of their counts.
LEMMA TicksOrdered ==
    ASSUME NEW s \in Time, NEW t \in Time, Leq(s, t)
    PROVE  Ticks(s) <= Ticks(t)
  <1>1. /\ s.upper \in Nat /\ t.upper \in Nat
        /\ s.lower \in 0..(Word - 1) /\ t.lower \in 0..(Word - 1)
    BY DEF Time
  <1>2. CASE s.upper = t.upper /\ s.lower <= t.lower
    <2>1. s.upper * Word \in Nat
      BY <1>1, Numbers
    <2>. QED BY <1>1, <1>2, <2>1, Numbers DEF Ticks
  <1>3. CASE s.upper < t.upper
    <2>1. PICK d \in Nat : t.upper = s.upper + 1 + d
      <3>1. t.upper - s.upper - 1 \in Nat
        BY <1>1, <1>3
      <3>. QED BY <1>1, <3>1
    <2>2. t.upper * Word = s.upper * Word + Word + d * Word
      BY <2>1, <1>1, Numbers
    <2>. DEFINE x == s.upper * Word
                y == d * Word
    <2>3. x \in Nat /\ y \in Nat
      BY <1>1, Numbers
    <2>4. Ticks(s) = x + s.lower /\ Ticks(t) = x + Word + y + t.lower
      BY <2>2 DEF Ticks
    <2>. HIDE DEF x, y
    <2>5. Word \in Nat /\ s.lower \in Nat /\ t.lower \in Nat /\ s.lower < Word
      BY <1>1, Numbers
    <2>6. x + s.lower <= x + Word + y + t.lower
      BY <2>3, <2>5
    <2>. QED BY <2>4, <2>6
  <1>. QED BY <1>2, <1>3 DEF Leq

\* A later time is not a smaller number of milliseconds, nor of seconds.
LEMMA UptimeOrdered ==
    ASSUME NEW s \in Time, NEW t \in Time, Leq(s, t)
    PROVE  /\ Unsigned(Ticks(s) \div PerMs) <= Unsigned(Ticks(t) \div PerMs)
           /\ Unsigned(Ticks(s) \div PerMs) \div PerSec <= Unsigned(Ticks(t) \div PerMs) \div PerSec
  <1>1. ASSUME NEW a \in Nat, NEW b \in Nat, NEW d \in Nat \ {0}, a <= b
        PROVE  a \div d <= b \div d
    BY <1>1
  <1>2. Ticks(s) \in Nat /\ Ticks(t) \in Nat /\ Ticks(s) <= Ticks(t)
    BY TicksOrdered, Numbers
  <1>3. Ticks(s) \div PerMs \in Nat /\ Ticks(t) \div PerMs \in Nat
    BY <1>2, Numbers
  <1>4. Ticks(s) \div PerMs <= Ticks(t) \div PerMs
    BY <1>1, <1>2, Numbers
  <1>. DEFINE m(x) == Unsigned(Ticks(x) \div PerMs)
  <1>5. m(s) <= m(t) /\ m(s) \in Nat /\ m(t) \in Nat
    BY <1>3, <1>4, Numbers DEF Unsigned
  <1>. HIDE DEF m
  <1>6. m(s) \div PerSec <= m(t) \div PerSec
    BY <1>1, <1>5, Numbers
  <1>. QED BY <1>5, <1>6 DEF m

-----------------------------------------------------------------------------
(* The read *)

\* The time the lower register was read at: since then the upper one may have
\* gone on.
At(u) == [upper |-> u, lower |-> reg_lower]

\* What the registers read so far say of the timer.  It counts at most one carry
\* during a read, and the comparison tells whether the upper register was read
\* before it and again after.
ReadInv ==
    /\ Reading => /\ Leq(called, timer)
                  /\ \/ timer.upper = called.upper
                     \/ timer.upper = called.upper + 1 /\ timer.lower < called.lower
    /\ isr[2] \in {"lower", "check", "again"} =>
           called.upper <= reg_upper /\ reg_upper <= timer.upper
    /\ isr[2] = "check" =>
           \E u \in Nat : /\ reg_upper <= u /\ u <= timer.upper
                          /\ Leq(called, At(u)) /\ Leq(At(u), timer)
    /\ isr[2] = "again" => reg_upper < reg_upper_check /\ reg_upper_check <= timer.upper
    /\ ReadIsTimely

\* The timer counts on during a read.
LEMMA TickReadInv ==
    ASSUME TypeOK, TypeOK', ReadInv, Tick
    PROVE  ReadInv'
  <1>1. /\ timer \in Time /\ timer' \in Time /\ called \in Time /\ Value \in Time
        /\ Leq(timer, timer')
    BY ValueIsTime, Ordered DEF TypeOK, Tick
  <1>2. UNCHANGED <<isr, called, reg_upper, reg_lower, reg_upper_check>>
    BY DEF Tick, regs, history
  <1>3. Reading' = Reading /\ Value' = Value /\ \A u : At(u)' = At(u)
    BY <1>2 DEF Reading, Value, At
  <1>4. Reading => /\ Leq(called, timer')
                   /\ \/ timer'.upper = called.upper
                      \/ timer'.upper = called.upper + 1 /\ timer'.lower < called.lower
    BY <1>1, Ordered DEF ReadInv, Tick, InTime
  <1>5. timer.upper <= timer'.upper /\ timer.upper \in Nat /\ timer'.upper \in Nat
    BY <1>1 DEF Leq, Time
  <1>6. isr[2] \in {"lower", "check", "again"} =>
            called.upper <= reg_upper /\ reg_upper <= timer'.upper
    BY <1>1, <1>5 DEF ReadInv, TypeOK, Time
  <1>7. ASSUME isr[2] = "check"
        PROVE  \E u \in Nat : /\ reg_upper <= u /\ u <= timer'.upper
                              /\ Leq(called, At(u)) /\ Leq(At(u), timer')
    <2>1. PICK u \in Nat : /\ reg_upper <= u /\ u <= timer.upper
                           /\ Leq(called, At(u)) /\ Leq(At(u), timer)
      BY <1>7 DEF ReadInv
    <2>2. At(u) \in Time
      BY DEF At, Time, TypeOK
    <2>3. Leq(At(u), timer')
      BY <2>1, <2>2, <1>1, Ordered
    <2>4. u <= timer'.upper
      BY <2>1, <1>5
    <2>. QED BY <2>1, <2>3, <2>4
  <1>8. isr[2] = "again" => reg_upper < reg_upper_check /\ reg_upper_check <= timer'.upper
    BY <1>5 DEF ReadInv, TypeOK
  <1>9. isr[2] = "return" => Leq(called, Value) /\ Leq(Value, timer')
    BY <1>1, Ordered DEF ReadInv, ReadIsTimely
  <1>. QED BY <1>2, <1>3, <1>4, <1>6, <1>7, <1>8, <1>9 DEF ReadInv, ReadIsTimely

\* Each register read adds to what is known.
LEMMA ReadReadInv ==
    ASSUME TypeOK, TypeOK', ReadInv, NEW p \in {"tic", "toc"}, ReadValue64Bit(p)
    PROVE  ReadInv'
  <1>. USE DEF ReadInv, Goto, Reading, Reads, ReadIsTimely
  <1>1. timer' = timer /\ timer \in Time /\ called \in Time /\ called' \in Time
    BY DEF ReadValue64Bit, Call, ReadUpper, ReadLower, ReadCheck, ReadAgain, TypeOK
  <1>2. timer.upper \in Nat /\ timer.lower \in Nat /\ called.upper \in Nat /\ called.lower \in Nat
    BY <1>1, Numbers DEF Time
  <1>3. CASE Call(p)
    <2>1. isr' = <<p, "upper">> /\ called' = timer
      BY <1>3 DEF Call
    <2>2. Leq(called', timer') /\ timer'.upper = called'.upper
      BY <2>1, <1>1, Ordered
    <2>. QED BY <2>1, <2>2
  <1>4. CASE ReadUpper(p)
    <2>1. /\ isr = <<p, "upper">> /\ isr' = <<p, "lower">>
          /\ reg_upper' = timer.upper /\ called' = called
      BY <1>4 DEF ReadUpper
    <2>2. called.upper <= timer.upper
      BY <2>1, <1>2
    <2>. QED BY <2>1, <2>2, <1>1, <1>2
  <1>5. CASE ReadLower(p)
    <2>1. /\ isr = <<p, "lower">> /\ isr' = <<p, "check">>
          /\ reg_lower' = timer.lower /\ called' = called /\ reg_upper' = reg_upper
      BY <1>5 DEF ReadLower
    <2>2. At(timer.upper)' = timer
      BY <2>1, <1>1 DEF At, Time
    <2>3. Leq(called, timer) /\ Leq(timer, timer)
      BY <2>1, <1>1, Ordered
    <2>4. /\ reg_upper' <= timer'.upper
          /\ Leq(called', At(timer.upper)') /\ Leq(At(timer.upper)', timer')
      BY <2>1, <2>2, <2>3, <1>1
    <2>5. \E u \in Nat : /\ reg_upper' <= u /\ u <= timer'.upper
                         /\ Leq(called', At(u)') /\ Leq(At(u)', timer')
      BY <2>2, <2>4, <1>1, <1>2 DEF At
    <2>. QED BY <2>1, <2>5, <1>1
  <1>6. CASE ReadCheck(p)
    <2>1. /\ isr = <<p, "check">>
          /\ isr' = <<p, IF reg_upper # timer.upper THEN "again" ELSE "return">>
          /\ reg_upper_check' = timer.upper /\ called' = called
          /\ reg_upper' = reg_upper /\ reg_lower' = reg_lower
      BY <1>6 DEF ReadCheck, regs
    <2>2. reg_upper \in Nat /\ reg_upper <= timer.upper /\ called.upper <= reg_upper
      BY <2>1 DEF TypeOK
    <2>3. PICK u \in Nat : /\ reg_upper <= u /\ u <= timer.upper
                           /\ Leq(called, At(u)) /\ Leq(At(u), timer)
      BY <2>1
    <2>4. CASE reg_upper = timer.upper
      <3>1. u = timer.upper
        BY <2>2, <2>3, <2>4, <1>2
      <3>2. Value' = At(u)
        BY <2>1, <3>1 DEF Value, At
      <3>. QED BY <2>1, <2>3, <2>4, <3>2, <1>1
    <2>5. CASE reg_upper # timer.upper
      BY <2>1, <2>2, <2>5, <1>1, <1>2
    <2>. QED BY <2>4, <2>5
  <1>7. CASE ReadAgain(p)
    <2>1. /\ isr = <<p, "again">> /\ isr' = <<p, "return">>
          /\ reg_lower' = timer.lower /\ called' = called
          /\ reg_upper_check' = reg_upper_check
      BY <1>7 DEF ReadAgain
    <2>2. reg_upper \in Nat /\ reg_upper_check \in Nat
      BY DEF TypeOK
    <2>3. reg_upper_check = timer.upper
      BY <2>1, <2>2, <1>2
    <2>4. Value' = timer
      BY <2>1, <2>3, <1>1 DEF Value, Time
    <2>. QED BY <2>1, <2>4, <1>1, Ordered
  <1>. QED BY <1>3, <1>4, <1>5, <1>6, <1>7 DEF ReadValue64Bit

\* What is known of the timer during a read stays true.
LEMMA ReadStep == TypeOK /\ TypeOK' /\ ReadInv /\ [Next]_vars => ReadInv'
  <1>. SUFFICES ASSUME TypeOK, TypeOK', ReadInv, [Next]_vars PROVE ReadInv'
    OBVIOUS
  <1>1. CASE Tick
    BY <1>1, TickReadInv
  <1>2. CASE \E p \in {"tic", "toc"} : ReadValue64Bit(p)
    BY <1>2, ReadReadInv
  <1>3. CASE isr' \in {<<"tic", "call">>, <<"toc", "call">>, <<"none", "none">>, <<"control", "none">>}
    BY <1>3 DEF ReadInv, Reading, Reads, ReadIsTimely
  <1>4. CASE UNCHANGED vars
    BY <1>4 DEF vars, regs, history, ReadInv, Reading, ReadIsTimely, Value, At
  <1>. QED BY <1>1, <1>2, <1>3, <1>4 DEF Next, Interrupt, mz_SystemTime_ISR_Tic, mz_SystemTime_ISR_Toc

\* A read returns a time the timer had while it was being read, for registers of
\* any width.
THEOREM ReadTimely == Spec => []ReadIsTimely
  <1>1. Init => ReadInv
    BY DEF Init, ReadInv, Reading, Reads, ReadIsTimely
  <1>2. ReadInv => ReadIsTimely
    BY DEF ReadInv
  <1>. QED BY <1>1, <1>2, ReadStep, TypeCorrect, PTL DEF Spec

-----------------------------------------------------------------------------
(* The stored times *)

\* What was stored is past, and was when the read that is going on began.
TimeInv ==
    /\ Leq(timestamp_ISR_start, timer) /\ Leq(timestamp_ISR_end, timer)
    /\ Reading => Leq(timestamp_ISR_start, called) /\ Leq(timestamp_ISR_end, called)
    /\ uptime_ms = Unsigned(Ticks(timestamp_ISR_start) \div PerMs)
    /\ uptime_sec = uptime_ms \div PerSec

\* The parts of TypeOK that are times.
LEMMA Times ==
    ASSUME TypeOK
    PROVE  /\ timer \in Time /\ called \in Time /\ Value \in Time
           /\ timestamp_ISR_start \in Time /\ timestamp_ISR_end \in Time
  BY ValueIsTime DEF TypeOK

\* Where a read returns, its value is past and not before what is stored.
LEMMA ValueFits ==
    ASSUME TypeOK, ReadIsTimely, TimeInv, isr[2] = "return"
    PROVE  /\ Leq(Value, timer)
           /\ Leq(timestamp_ISR_start, Value) /\ Leq(timestamp_ISR_end, Value)
  <1>1. Leq(called, Value) /\ Leq(Value, timer)
    BY DEF ReadIsTimely
  <1>2. Leq(timestamp_ISR_start, called) /\ Leq(timestamp_ISR_end, called)
    BY DEF TimeInv, Reading, Reads
  <1>. QED BY <1>1, <1>2, Times, Ordered

\* What a step may do to the stored times.
Onward ==
    /\ Leq(timestamp_ISR_start, timestamp_ISR_start')
    /\ Leq(timestamp_ISR_end, timestamp_ISR_end')
    /\ timestamp_ISR_end' # timestamp_ISR_end => Leq(timestamp_ISR_start, timestamp_ISR_end')
    /\ uptime_ms <= uptime_ms' /\ uptime_sec <= uptime_sec'

\* Where nothing is stored, nothing goes back.
LEMMA Stays ==
    ASSUME TypeOK, UNCHANGED <<timestamp_ISR_start, timestamp_ISR_end, uptime_ms, uptime_sec>>
    PROVE  Onward
  <1>1. uptime_ms \in Int /\ uptime_sec \in Int
    BY Numbers DEF TypeOK
  <1>. QED BY <1>1, Times, Ordered DEF Onward

\* One step keeps what is stored in the past, and takes it onward.
LEMMA TimeStep ==
    TypeOK /\ TypeOK' /\ ReadIsTimely /\ TimeInv /\ [Next]_vars => TimeInv' /\ Onward
  <1>. SUFFICES ASSUME TypeOK, TypeOK', ReadIsTimely, TimeInv, [Next]_vars
                PROVE  TimeInv' /\ Onward
    OBVIOUS
  <1>1. CASE Tick
    <2>1. /\ Leq(timer, timer') /\ timer' \in Time
          /\ UNCHANGED <<isr, timestamp_ISR_start, timestamp_ISR_end, uptime_ms, uptime_sec, called>>
      BY <1>1, Times, Ordered DEF Tick, stamps, results, history, TypeOK
    <2>2. Leq(timestamp_ISR_start, timer') /\ Leq(timestamp_ISR_end, timer')
      BY <2>1, Times, Ordered DEF TimeInv
    <2>3. TimeInv'
      BY <2>1, <2>2 DEF TimeInv, Reading
    <2>. QED BY <2>1, <2>3, Stays
  <1>2. CASE \E p \in {"tic", "toc"} : ReadValue64Bit(p)
    <2>1. PICK p \in {"tic", "toc"} : ReadValue64Bit(p)
      BY <1>2
    <2>2. UNCHANGED <<timer, timestamp_ISR_start, timestamp_ISR_end, uptime_ms, uptime_sec>>
      BY <2>1 DEF ReadValue64Bit, Call, ReadUpper, ReadLower, ReadCheck, ReadAgain, Goto,
         stamps, results
    <2>3. called' = timer \/ (called' = called /\ Reading)
      BY <2>1 DEF ReadValue64Bit, Call, ReadUpper, ReadLower, ReadCheck, ReadAgain, Goto,
         Reading, Reads
    <2>4. TimeInv'
      BY <2>2, <2>3 DEF TimeInv
    <2>. QED BY <2>2, <2>4, Stays
  <1>3. CASE isr = <<"tic", "return">> /\ isr' = <<"control", "none">> /\ mz_SystemTime_ISR_Tic
    <2>1. /\ timestamp_ISR_start' = Value /\ timestamp_ISR_end' = timestamp_ISR_end
          /\ timer' = timer
          /\ uptime_ms' = Unsigned(Ticks(Value) \div PerMs)
          /\ uptime_sec' = uptime_ms' \div PerSec
      BY <1>3 DEF mz_SystemTime_ISR_Tic, mz_SystemTime_update, ReadValue64Bit, Call, ReadUpper,
         ReadLower, ReadCheck, ReadAgain, Goto
    <2>2. /\ Leq(Value, timer) /\ Leq(timestamp_ISR_start, Value)
          /\ Leq(timestamp_ISR_end, timestamp_ISR_end)
      BY <1>3, ValueFits, Times, Ordered
    <2>3. ~Reading'
      BY <1>3 DEF Reading, Reads
    <2>4. TimeInv'
      BY <2>1, <2>2, <2>3 DEF TimeInv
    <2>5. uptime_ms <= uptime_ms' /\ uptime_sec <= uptime_sec'
      BY <2>1, <2>2, Times, UptimeOrdered DEF TimeInv
    <2>. QED BY <2>1, <2>2, <2>4, <2>5 DEF Onward
  <1>4. CASE isr = <<"toc", "return">> /\ isr' = <<"none", "none">> /\ mz_SystemTime_ISR_Toc
    <2>1. /\ timestamp_ISR_end' = Value
          /\ UNCHANGED <<timer, timestamp_ISR_start, uptime_ms, uptime_sec>>
      BY <1>4 DEF mz_SystemTime_ISR_Toc, results, ReadValue64Bit, Call, ReadUpper,
         ReadLower, ReadCheck, ReadAgain, Goto
    <2>2. /\ Leq(Value, timer) /\ Leq(timestamp_ISR_end, Value)
          /\ Leq(timestamp_ISR_start, Value) /\ Leq(timestamp_ISR_start, timestamp_ISR_start)
      BY <1>4, ValueFits, Times, Ordered
    <2>3. ~Reading'
      BY <1>4 DEF Reading, Reads
    <2>4. TimeInv'
      BY <2>1, <2>2, <2>3 DEF TimeInv
    <2>5. uptime_ms \in Int /\ uptime_sec \in Int
      BY Numbers DEF TypeOK
    <2>. QED BY <2>1, <2>2, <2>4, <2>5 DEF Onward
  <1>5. CASE /\ isr' \in {<<"tic", "call">>, <<"toc", "call">>}
             /\ UNCHANGED <<timer, timestamp_ISR_start, timestamp_ISR_end, uptime_ms, uptime_sec>>
    <2>1. TimeInv'
      BY <1>5 DEF TimeInv, Reading, Reads
    <2>. QED BY <1>5, <2>1, Stays
  <1>6. CASE UNCHANGED vars
    <2>1. TimeInv'
      BY <1>6 DEF vars, stamps, results, history, TimeInv, Reading
    <2>. QED BY <1>6, <2>1, Stays DEF vars, stamps, results
  <1>7. mz_SystemTime_ISR_Tic =>
            ReadValue64Bit("tic") \/ (isr = <<"tic", "return">> /\ isr' = <<"control", "none">>)
    BY DEF mz_SystemTime_ISR_Tic
  <1>8. mz_SystemTime_ISR_Toc =>
            \/ ReadValue64Bit("toc")
            \/ isr = <<"toc", "return">> /\ isr' = <<"none", "none">>
            \/ /\ isr' = <<"toc", "call">>
               /\ UNCHANGED <<timer, timestamp_ISR_start, timestamp_ISR_end, uptime_ms, uptime_sec>>
    BY DEF mz_SystemTime_ISR_Toc, stamps, results
  <1>9. Interrupt =>
            /\ isr' = <<"tic", "call">>
            /\ UNCHANGED <<timer, timestamp_ISR_start, timestamp_ISR_end, uptime_ms, uptime_sec>>
    BY DEF Interrupt, stamps, results
  <1>. QED BY <1>1, <1>2, <1>3, <1>4, <1>5, <1>6, <1>7, <1>8, <1>9 DEF Next

\* The timer and the stored times start together.
LEMMA InitTimeInv == Init => TimeInv
  <1>. SUFFICES ASSUME Init PROVE TimeInv
    OBVIOUS
  <1>1. Start \in Time /\ Leq(Start, Start) /\ Ticks(Start) = 0
    BY Numbers DEF Start, Time, Leq, Ticks
  <1>2. 0 \div PerMs = 0 /\ 0 \div PerSec = 0 /\ Unsigned(0) = 0
    BY Numbers DEF Unsigned
  <1>. QED BY <1>1, <1>2 DEF Init, TimeInv, Reading, Reads

\* The stored times and the uptime never go back, whatever the width of the
\* registers and whenever the interrupt comes.
THEOREM TimesGoOn == Spec => TimeGoesOn
  <1>2. TypeOK /\ TypeOK' /\ ReadIsTimely /\ TimeInv /\ [Next]_vars => TimeInv' /\ [Onward]_vars
    BY TimeStep
  <1>3. Spec => [][Onward]_vars
    BY InitTimeInv, <1>2, TypeCorrect, ReadTimely, PTL DEF Spec
  <1>. QED BY <1>3 DEF TimeGoesOn, Onward

-----------------------------------------------------------------------------
(* The measured times *)

\* A difference that fits an int is computed exactly.
LEMMA SmallDiff ==
    ASSUME NEW s \in Time, NEW t \in Time, Leq(s, t), Ticks(t) - Ticks(s) < Word \div 2
    PROVE  Diff(t, s) = Ticks(t) - Ticks(s)
  <1>. DEFINE half == Word \div 2
              d == Ticks(t) - Ticks(s)
  <1>1. half \in Nat /\ 2 * half <= Word /\ Word \in Nat \ {0}
    BY Numbers
  <1>2. d \in Nat /\ d < half
    BY TicksOrdered, Numbers
  <1>. HIDE DEF half, d
  <1>3. d + half \in 0..(Word - 1)
    BY <1>1, <1>2
  <1>4. \A x \in 0..(Word - 1) : x % Word = x
    BY <1>1
  <1>5. ((d + half) % Word) - half = d
    BY <1>1, <1>2, <1>3, <1>4
  <1>. QED BY <1>5 DEF Diff, half, d

\* How far the timer is from what the interrupt stored, and what is known of the
\* interrupt before when its times are subtracted.
MeasureInv ==
    /\ previous_timestamp_ISR_start = timestamp_ISR_start
    /\ interrupt_counter > 0 => Ticks(timer) - Ticks(timestamp_ISR_start) < Word \div 2
    /\ isr[1] # "none" => Leq(entered, timer) /\ Ticks(timer) - Ticks(entered) < Word \div 2
    /\ isr[1] = "tic" /\ Reading => Leq(entered, called)
    /\ isr[1] \in {"control", "toc"} => interrupt_counter > 0 /\ Leq(entered, timestamp_ISR_start)
    /\ isr[1] \in {"none", "tic"} /\ interrupt_counter > 0 =>
           /\ Leq(timestamp_ISR_start, timestamp_ISR_end)
           /\ Ticks(timestamp_ISR_end) - Ticks(timestamp_ISR_start) <= lasted
    /\ MeasuresLastInterrupt

\* One step keeps the times of the last interrupt together.
LEMMA MeasureStep ==
    TypeOK /\ TypeOK' /\ ReadIsTimely /\ TimeInv /\ MeasureInv /\ [Next]_vars => MeasureInv'
  <1>. SUFFICES ASSUME TypeOK, TypeOK', ReadIsTimely, TimeInv, MeasureInv, [Next]_vars
                PROVE  MeasureInv'
    OBVIOUS
  <1>0. /\ entered \in Time /\ entered' \in Time /\ timer \in Time /\ timer' \in Time
        /\ lasted \in Int /\ interrupt_counter \in 0..2
    BY DEF TypeOK
  <1>1. CASE Tick
    <2>1. /\ UNCHANGED <<isr, called, entered, lasted, interrupt_counter, isr_execution_time, isr_period>>
          /\ UNCHANGED <<timestamp_ISR_start, timestamp_ISR_end, previous_timestamp_ISR_start>>
          /\ Leq(timer, timer') /\ InTime(timer')
      BY <1>1, <1>0, Ordered DEF Tick, stamps, results, history
    <2>2. isr[1] # "none" => Leq(entered, timer') /\ Ticks(timer') - Ticks(entered) < Word \div 2
      BY <2>1, <1>0, Ordered DEF MeasureInv, InTime
    <2>3. interrupt_counter > 0 => Ticks(timer') - Ticks(timestamp_ISR_start) < Word \div 2
      BY <2>1 DEF InTime
    <2>. QED BY <2>1, <2>2, <2>3 DEF MeasureInv, MeasuresLastInterrupt, Reading, Ticks
  <1>2. CASE Interrupt
    <2>1. /\ isr' = <<"tic", "call">> /\ entered' = timer /\ isr = <<"none", "none">>
          /\ UNCHANGED <<timer, lasted, interrupt_counter, isr_execution_time, isr_period>>
          /\ UNCHANGED <<timestamp_ISR_start, timestamp_ISR_end, previous_timestamp_ISR_start>>
      BY <1>2 DEF Interrupt, stamps, results
    <2>2. Leq(timer, timer) /\ Ticks(timer) \in Nat /\ Word \div 2 > 0
      BY <1>0, Ordered, Numbers, TimeAssumption
    <2>3. Ticks(timer) - Ticks(timer) < Word \div 2
      BY <2>2, TimeAssumption
    <2>. QED BY <2>1, <2>2, <2>3 DEF MeasureInv, MeasuresLastInterrupt, Reading, Reads
  <1>3. CASE \E p \in {"tic", "toc"} : ReadValue64Bit(p)
    <2>1. PICK p \in {"tic", "toc"} : ReadValue64Bit(p)
      BY <1>3
    <2>2. /\ UNCHANGED <<timer, entered, lasted, interrupt_counter, isr_execution_time, isr_period>>
          /\ UNCHANGED <<timestamp_ISR_start, timestamp_ISR_end, previous_timestamp_ISR_start>>
      BY <2>1 DEF ReadValue64Bit, Call, ReadUpper, ReadLower, ReadCheck, ReadAgain, Goto,
         stamps, results
    <2>3. /\ isr'[1] = isr[1] /\ isr[1] = p
          /\ called' = timer \/ (called' = called /\ Reading)
      BY <2>1 DEF ReadValue64Bit, Call, ReadUpper, ReadLower, ReadCheck, ReadAgain, Goto,
         Reading, Reads
    <2>. QED BY <2>2, <2>3 DEF MeasureInv, MeasuresLastInterrupt
  <1>4. CASE isr = <<"tic", "return">> /\ isr' = <<"control", "none">> /\ mz_SystemTime_ISR_Tic
    <2>1. /\ timestamp_ISR_start' = Value /\ previous_timestamp_ISR_start' = Value
          /\ isr_execution_time' = Diff(timestamp_ISR_end, timestamp_ISR_start)
          /\ isr_period' = Diff(Value, timestamp_ISR_start)
          /\ interrupt_counter' = IF interrupt_counter < 2 THEN interrupt_counter + 1 ELSE 2
          /\ UNCHANGED <<timer, entered, lasted>>
      BY <1>4 DEF mz_SystemTime_ISR_Tic, mz_SystemTime_update, ReadValue64Bit, Call, ReadUpper,
         ReadLower, ReadCheck, ReadAgain, Goto, history, MeasureInv
    <2>2. Leq(Value, timer) /\ Leq(timestamp_ISR_start, Value) /\ Leq(timestamp_ISR_end, Value)
      BY <1>4, ValueFits
    <2>3. Leq(entered, called) /\ Leq(called, Value)
      BY <1>4 DEF MeasureInv, ReadIsTimely, Reading, Reads
    <2>4. Leq(entered, Value)
      BY <2>3, <1>0, Times, Ordered
    <2>5. /\ Ticks(entered) <= Ticks(Value) /\ Ticks(Value) <= Ticks(timer)
          /\ Ticks(timestamp_ISR_end) <= Ticks(Value)
      BY <2>2, <2>4, <1>0, Times, TicksOrdered
    <2>6. /\ Ticks(entered) \in Nat /\ Ticks(Value) \in Nat /\ Ticks(timer) \in Nat
          /\ Ticks(timestamp_ISR_start) \in Nat /\ Ticks(timestamp_ISR_end) \in Nat
          /\ Word \div 2 \in Int
      BY <1>0, Times, Numbers
    <2>7. Ticks(timer) - Ticks(entered) < Word \div 2 /\ Leq(entered, timer)
      BY <1>4 DEF MeasureInv
    <2>8. Ticks(timer) - Ticks(Value) < Word \div 2
      BY <2>5, <2>6, <2>7
    <2>9. ASSUME interrupt_counter > 0
          PROVE  isr_execution_time' \in 0..lasted /\ isr_execution_time' <= isr_period'
      <3>1. /\ Leq(timestamp_ISR_start, timestamp_ISR_end)
            /\ Ticks(timestamp_ISR_end) - Ticks(timestamp_ISR_start) <= lasted
            /\ Ticks(timer) - Ticks(timestamp_ISR_start) < Word \div 2
        BY <1>4, <2>9 DEF MeasureInv
      <3>2. Ticks(timestamp_ISR_start) <= Ticks(timestamp_ISR_end)
        BY <3>1, Times, TicksOrdered
      <3>3. /\ Ticks(timestamp_ISR_end) - Ticks(timestamp_ISR_start) < Word \div 2
            /\ Ticks(Value) - Ticks(timestamp_ISR_start) < Word \div 2
        BY <3>1, <2>5, <2>6
      <3>4. /\ isr_execution_time' = Ticks(timestamp_ISR_end) - Ticks(timestamp_ISR_start)
            /\ isr_period' = Ticks(Value) - Ticks(timestamp_ISR_start)
        BY <2>1, <2>2, <3>1, <3>3, Times, SmallDiff
      <3>. QED BY <3>1, <3>2, <3>4, <2>5, <2>6, <1>0
    <2>10. interrupt_counter' > 0 /\ (interrupt_counter' = 2 => interrupt_counter > 0)
      BY <2>1, <1>0
    <2>11. MeasuresLastInterrupt'
      BY <2>1, <2>9, <2>10 DEF MeasuresLastInterrupt
    <2>12. Ticks(timer)' - Ticks(timestamp_ISR_start)' < Word \div 2
      BY <2>1, <2>8 DEF Ticks
    <2>13. Leq(entered, timer)' /\ Ticks(timer)' - Ticks(entered)' < Word \div 2
      BY <2>1, <2>7 DEF Ticks
    <2>14. Leq(entered', timestamp_ISR_start')
      BY <2>1, <2>4
    <2>. QED BY <1>4, <2>1, <2>10, <2>11, <2>12, <2>13, <2>14 DEF MeasureInv
  <1>5. CASE isr = <<"toc", "return">> /\ isr' = <<"none", "none">> /\ mz_SystemTime_ISR_Toc
    <2>1. /\ timestamp_ISR_end' = Value /\ lasted' = Ticks(timer) - Ticks(entered)
          /\ UNCHANGED <<timer, timestamp_ISR_start, previous_timestamp_ISR_start, interrupt_counter>>
      BY <1>5 DEF mz_SystemTime_ISR_Toc, results, ReadValue64Bit, Call, ReadUpper,
         ReadLower, ReadCheck, ReadAgain, Goto
    <2>2. Leq(Value, timer) /\ Leq(timestamp_ISR_start, Value) /\ Leq(entered, timestamp_ISR_start)
      BY <1>5, ValueFits DEF MeasureInv
    <2>3. Ticks(Value) <= Ticks(timer) /\ Ticks(entered) <= Ticks(timestamp_ISR_start)
      BY <2>2, <1>0, Times, TicksOrdered
    <2>4. /\ Ticks(entered) \in Nat /\ Ticks(Value) \in Nat /\ Ticks(timer) \in Nat
          /\ Ticks(timestamp_ISR_start) \in Nat
      BY <1>0, Times, Numbers
    <2>5. Ticks(Value) - Ticks(timestamp_ISR_start) <= lasted'
      BY <2>1, <2>3, <2>4
    <2>6. /\ Leq(timestamp_ISR_start, timestamp_ISR_end)'
          /\ Ticks(timestamp_ISR_end)' - Ticks(timestamp_ISR_start)' <= lasted'
      BY <2>1, <2>2, <2>5 DEF Ticks
    <2>. QED BY <1>5, <2>1, <2>6 DEF MeasureInv, MeasuresLastInterrupt
  <1>6. CASE /\ isr = <<"control", "none">> /\ isr' = <<"toc", "call">>
             /\ UNCHANGED <<timer, regs, stamps, results, history>>
    BY <1>6 DEF MeasureInv, MeasuresLastInterrupt, stamps, results, history
  <1>7. CASE UNCHANGED vars
    BY <1>7 DEF vars, stamps, results, history, MeasureInv, MeasuresLastInterrupt, Reading
  <1>8. mz_SystemTime_ISR_Tic =>
            ReadValue64Bit("tic") \/ (isr = <<"tic", "return">> /\ isr' = <<"control", "none">>)
    BY DEF mz_SystemTime_ISR_Tic
  <1>9. mz_SystemTime_ISR_Toc =>
            \/ ReadValue64Bit("toc")
            \/ isr = <<"toc", "return">> /\ isr' = <<"none", "none">>
            \/ /\ isr = <<"control", "none">> /\ isr' = <<"toc", "call">>
               /\ UNCHANGED <<timer, regs, stamps, results, history>>
    BY DEF mz_SystemTime_ISR_Toc
  <1>. QED BY <1>1, <1>2, <1>3, <1>4, <1>5, <1>6, <1>7, <1>8, <1>9 DEF Next

\* The measured execution time is one the last interrupt really took, exact in
\* spite of its int, and never longer than the period.
THEOREM MeasuredTime == Spec => []MeasuresLastInterrupt
  <1>1. Init => MeasureInv
    BY DEF Init, MeasureInv, MeasuresLastInterrupt
  <1>2. MeasureInv => MeasuresLastInterrupt
    BY DEF MeasureInv
  <1>. QED BY <1>1, <1>2, InitTimeInv, TimeStep, MeasureStep, TypeCorrect, ReadTimely, PTL DEF Spec

=============================================================================
