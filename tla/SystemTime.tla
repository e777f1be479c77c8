------------------------------ MODULE SystemTime ------------------------------
(***************************************************************************)
(* The time of the R5: an AXI timer of two cascaded registers that are     *)
(* read one after the other while it counts, and what the control          *)
(* interrupt, which reads it when it begins and when it ends, makes of it. *)
(* A time is a record of the two registers.                                *)
(***************************************************************************)
EXTENDS Integers

CONSTANTS Word,      \* 2^32: values of a register and of an unsigned int
          PerMs,     \* timer counts of a millisecond
          PerSec,    \* milliseconds of a second
          MaxUpper   \* bound on the upper register

ASSUME TimeAssumption ==
    /\ Word \in Nat \ {0, 1} /\ {PerMs, PerSec} \subseteq Nat \ {0}
    /\ MaxUpper \in Nat

VARIABLES
    timer,                \* the registers TCR1 and TCR0
    isr,                  \* the next statement of ISR_Control
    reg_upper, reg_lower, reg_upper_check,
    timestamp_ISR_start, timestamp_ISR_end, previous_timestamp_ISR_start,
    isr_execution_time, isr_period,
    uptime_ms, uptime_sec,
    interrupt_counter,    \* 0, 1 or 2 for more: the first period is not one
    TicTocLock,
    called, entered, lasted  \* history: when the read began, when the interrupt
                             \* came, and how long the last one took

regs    == <<reg_upper, reg_lower, reg_upper_check>>
stamps  == <<timestamp_ISR_start, timestamp_ISR_end, previous_timestamp_ISR_start>>
results == <<isr_execution_time, isr_period, uptime_ms, uptime_sec, interrupt_counter>>
history == <<called, entered, lasted>>
vars == <<timer, isr, regs, stamps, results, TicTocLock, history>>

Time == [upper : Nat, lower : 0..(Word - 1)]
Start == [upper |-> 0, lower |-> 0]

Leq(s, t) == s.upper < t.upper \/ (s.upper = t.upper /\ s.lower <= t.lower)
Ticks(t) == t.upper * Word + t.lower

\* The difference of two times in an int, and a double in an unsigned int: what
\* does not fit is undefined, the conversion of the R5 saturates.
Diff(t, s) == ((Ticks(t) - Ticks(s) + (Word \div 2)) % Word) - (Word \div 2)
Unsigned(n) == IF n < Word THEN n ELSE Word - 1

\* Where the registers are read, for the first and for the last statement
Reads == {"call", "upper", "lower", "check", "again", "return"}

Init ==
    /\ timer = Start
    /\ isr = <<"none", "none">>
    /\ reg_upper = 0 /\ reg_lower = 0 /\ reg_upper_check = 0
    /\ timestamp_ISR_start = Start
    /\ timestamp_ISR_end = Start
    /\ previous_timestamp_ISR_start = Start
    /\ isr_execution_time = 0 /\ isr_period = 0
    /\ uptime_ms = 0 /\ uptime_sec = 0
    /\ interrupt_counter = 0
    /\ TicTocLock = FALSE
    /\ called = Start /\ entered = Start /\ lasted = 0

-----------------------------------------------------------------------------
(* The timer *)

\* Faulty variant: the carry comes one count late.
CountLate(t) == IF t.lower = Word THEN [upper |-> t.upper + 1, lower |-> 0]
                                  ELSE [t EXCEPT !.lower = @ + 1]

Count(t) == IF t.lower = Word - 1 THEN [upper |-> t.upper + 1, lower |-> 0]
                                  ELSE [t EXCEPT !.lower = @ + 1]

Reading == isr[2] \in Reads \ {"call"}

\* A read does not take as long as the lower register takes to come round (43 s),
\* and an interrupt begins and ends within half of that after the last.
InTime(t) ==
    /\ Reading => \/ t.upper = called.upper
                  \/ t.upper = called.upper + 1 /\ t.lower < called.lower
    /\ interrupt_counter > 0 => Ticks(t) - Ticks(timestamp_ISR_start) < (Word \div 2)
    /\ isr[1] # "none" => Ticks(t) - Ticks(entered) < (Word \div 2)

Tick ==
    /\ timer' = Count(timer)
    /\ timer'.upper <= MaxUpper /\ InTime(timer')
    /\ UNCHANGED <<isr, regs, stamps, results, TicTocLock, history>>

-----------------------------------------------------------------------------
(* mz_AxiTimer64Bit_ReadValue64Bit, called by statement p *)

Goto(p, from, to) == isr = <<p, from>> /\ isr' = <<p, to>> /\ UNCHANGED timer

Call(p) ==
    /\ Goto(p, "call", "upper")
    /\ called' = timer
    /\ UNCHANGED regs

ReadUpper(p) ==
    /\ Goto(p, "upper", "lower")
    /\ reg_upper' = timer.upper
    /\ UNCHANGED <<reg_lower, reg_upper_check, called>>

ReadLower(p) ==
    /\ Goto(p, "lower", "check")
    /\ reg_lower' = timer.lower
    /\ UNCHANGED <<reg_upper, reg_upper_check, called>>

\* Faulty variant: a carry between the reads goes unnoticed.
ReadCheckOnly(p) ==
    /\ Goto(p, "check", "return")
    /\ reg_upper_check' = timer.upper
    /\ UNCHANGED <<reg_upper, reg_lower, called>>

ReadCheck(p) ==
    /\ Goto(p, "check", IF reg_upper # timer.upper THEN "again" ELSE "return")
    /\ reg_upper_check' = timer.upper
    /\ UNCHANGED <<reg_upper, reg_lower, called>>

ReadAgain(p) ==
    /\ Goto(p, "again", "return")
    /\ reg_lower' = timer.lower
    /\ UNCHANGED <<reg_upper, reg_upper_check, called>>

\* Faulty variant: the upper register as it was first read.
ValueOfFirst == [upper |-> reg_upper, lower |-> reg_lower]

Value == [upper |-> reg_upper_check, lower |-> reg_lower]

ReadValue64Bit(p) ==
    /\ Call(p) \/ ReadUpper(p) \/ ReadLower(p) \/ ReadCheck(p) \/ ReadAgain(p)
    /\ UNCHANGED <<stamps, results, TicTocLock, entered, lasted>>

-----------------------------------------------------------------------------
(* mz_SystemTime and the interrupt that uses it *)

\* Faulty variant: the last start is overwritten before it is used.
ForgetfulUpdate(start) ==
    /\ uptime_ms' = Unsigned(Ticks(start) \div PerMs)
    /\ uptime_sec' = uptime_ms' \div PerSec
    /\ interrupt_counter' = IF interrupt_counter < 2 THEN interrupt_counter + 1 ELSE 2
    /\ previous_timestamp_ISR_start' = start
    /\ isr_execution_time' = Diff(timestamp_ISR_end, previous_timestamp_ISR_start')
    /\ isr_period' = Diff(start, previous_timestamp_ISR_start)

mz_SystemTime_update(start) ==
    /\ uptime_ms' = Unsigned(Ticks(start) \div PerMs)
    /\ uptime_sec' = uptime_ms' \div PerSec
    /\ interrupt_counter' = IF interrupt_counter < 2 THEN interrupt_counter + 1 ELSE 2
    /\ isr_execution_time' = Diff(timestamp_ISR_end, previous_timestamp_ISR_start)
    /\ isr_period' = Diff(start, previous_timestamp_ISR_start)
    /\ previous_timestamp_ISR_start' = start

Interrupt ==
    /\ isr = <<"none", "none">> /\ isr' = <<"tic", "call">>
    /\ entered' = timer
    /\ UNCHANGED <<timer, regs, stamps, results, TicTocLock, called, lasted>>

mz_SystemTime_ISR_Tic ==
    \/ ReadValue64Bit("tic")
    \/ /\ isr = <<"tic", "return">> /\ isr' = <<"control", "none">>
       /\ timestamp_ISR_start' = Value
       /\ mz_SystemTime_update(Value)
       /\ TicTocLock' = TRUE
       /\ UNCHANGED <<timer, regs, timestamp_ISR_end, history>>

mz_SystemTime_ISR_Toc ==
    \/ /\ isr = <<"control", "none">> /\ isr' = <<"toc", "call">>
       /\ TicTocLock /\ TicTocLock' = FALSE
       /\ UNCHANGED <<timer, regs, stamps, results, history>>
    \/ ReadValue64Bit("toc")
    \/ /\ isr = <<"toc", "return">> /\ isr' = <<"none", "none">>
       /\ timestamp_ISR_end' = Value
       /\ lasted' = Ticks(timer) - Ticks(entered)
       /\ UNCHANGED <<timer, regs, timestamp_ISR_start, previous_timestamp_ISR_start,
                      results, TicTocLock, called, entered>>

Next == Tick \/ Interrupt \/ mz_SystemTime_ISR_Tic \/ mz_SystemTime_ISR_Toc

Spec == Init /\ [][Next]_vars

-----------------------------------------------------------------------------
(* Properties *)

\* Types of the registers, the statements of the interrupt and the results.
TypeOK ==
    /\ timer \in Time
    /\ isr \in {<<"none", "none">>, <<"control", "none">>} \cup ({"tic", "toc"} \X Reads)
    /\ reg_upper \in Nat /\ reg_lower \in 0..(Word - 1) /\ reg_upper_check \in Nat
    /\ {timestamp_ISR_start, timestamp_ISR_end, previous_timestamp_ISR_start} \subseteq Time
    /\ isr_execution_time \in Int /\ isr_period \in Int
    /\ uptime_ms \in 0..(Word - 1) /\ uptime_sec \in Nat
    /\ interrupt_counter \in 0..2
    /\ TicTocLock \in BOOLEAN
    /\ called \in Time /\ entered \in Time /\ lasted \in Int

\* mz_AxiTimer64Bit.c:31: a read returns a time the timer had while it was being
\* read, whatever was carried into the upper register meanwhile.
ReadIsTimely == isr[2] = "return" => Leq(called, Value) /\ Leq(Value, timer)

\* The times the interrupt stores never go back, the end follows the start, and
\* neither does the uptime, beyond the range of an unsigned int included.
TimeGoesOn ==
    [][/\ Leq(timestamp_ISR_start, timestamp_ISR_start')
       /\ Leq(timestamp_ISR_end, timestamp_ISR_end')
       /\ timestamp_ISR_end' # timestamp_ISR_end => Leq(timestamp_ISR_start, timestamp_ISR_end')
       /\ uptime_ms <= uptime_ms' /\ uptime_sec <= uptime_sec']_vars

\* mz_SystemTime.c:47-53: from the second interrupt on, the execution time is one
\* that the interrupt before really took, and no longer than the period.
MeasuresLastInterrupt ==
    isr[1] = "control" /\ interrupt_counter = 2 =>
        isr_execution_time \in 0..lasted /\ isr_execution_time <= isr_period
=============================================================================
