--------------------- MODULE PlatformStateMachineProofs ---------------------
(***************************************************************************)
(* Proofs about PlatformStateMachine, for every set of GUI commands and    *)
(* whichever assertions may fail.  The invariant says, besides the         *)
(* property itself, what is known half way through a handler.              *)
(***************************************************************************)
EXTENDS PlatformStateMachine, TLAPS

\* entry and event_handled are opposite flags, except before the first step
EntryFlags ==
    /\ ~event_handled => entry
    /\ entry /\ event_handled => current_state = "idle" /\ ~CpldOn
    /\ pc = "boot" => current_state = "idle" /\ ~CpldOn

\* handler is the state whose functions run, until one of them has switched; a
\* switch is called with the last one handled, by the main loop or in error
Handlers ==
    /\ pc = "entry" => entry /\ handler = current_state
    /\ pc = "during" =>
          \/ event_handled /\ ~entry /\ handler = current_state
          \/ /\ ~event_handled
             /\ \/ handler = "idle" /\ line = 3
                \/ handler = "running" /\ line = 4 /\ stop_flag
    /\ pc = "switch" =>
          /\ event_handled /\ ~entry /\ handler = current_state
          /\ \/ handler = "idle" /\ line = 2
             \/ handler = "running" /\ line = 3 /\ stop_flag
             \/ handler = "running" /\ line = 4
             \/ handler = "control" /\ line = 3
             \/ handler = "error" /\ line = 1

\* What an entry function has done to the CPLD at each of its lines
CpldLines ==
    /\ pc = "entry" /\ handler \in {"idle", "error"} /\ line > 1 => ~CpldOn
    /\ pc = "entry" /\ handler = "running" /\ line > 5 => CpldOn
    /\ current_state = "running" /\ ~entry => CpldOn
    /\ current_state = "control" => CpldOn

\* Above a failed assertion only the error state is ever executed
Callback ==
    /\ pc = "set_error" => ctx # "main"
    /\ pc = "hung" => ctx # "main" /\ ~CpldOn
    /\ ctx = "main" => ~error_flag
    /\ ctx # "main" => pc # "boot"
    /\ ctx # "main" /\ pc = "step" => current_state = "error"
    /\ ctx # "main" /\ pc \in {"entry", "during", "switch", "poll"} => handler = "error"
    /\ ctx # "main" /\ pc \in {"during", "switch", "poll"} => ~CpldOn

StepInv == CpldOnlyWhenRunning /\ EntryFlags /\ Handlers /\ CpldLines /\ Callback

IInv == TypeOK /\ StepInv

\* A line of a handler, done or stopped by a failed assertion
NextOrAssert == NextLine \/ Assertion

-----------------------------------------------------------------------------

USE DEF machine, flags, position, startup, inputs, panel

\* The initial state has the type and satisfies the invariant.
LEMMA InitIInv == Init => IInv
<1> SUFFICES ASSUME Init PROVE IInv
  OBVIOUS
<1>1. MachineType /\ FlagsType /\ StartupType
  BY DEF Init, MachineType, FlagsType, StartupType, States, Chain
<1>2. PositionType
  BY DEF Init, PositionType, Labels, States, Contexts
<1>3. OutputsType /\ InputsType
  BY DEF Init, OutputsType, InputsType, GuiCommands
<1>4. CpldOnlyWhenRunning /\ EntryFlags
  BY DEF Init, CpldOnlyWhenRunning, EntryFlags, CpldOn
<1>5. Handlers /\ CpldLines /\ Callback
  BY DEF Init, Handlers, CpldLines, Callback, CpldOn
<1> QED
  BY <1>1, <1>2, <1>3, <1>4, <1>5 DEF IInv, TypeOK, StepInv

-----------------------------------------------------------------------------
(* Types *)

\* Every step keeps the types, action by action and group by group.
LEMMA NextTypeOK == TypeOK /\ [Next]_vars => TypeOK'
<1> SUFFICES ASSUME TypeOK, [Next]_vars PROVE TypeOK'
  OBVIOUS
<1>0. /\ MachineType /\ FlagsType /\ PositionType
      /\ OutputsType /\ StartupType /\ InputsType
  BY DEF TypeOK
<1>1. CASE Dispatch
  <2>1. MachineType' /\ FlagsType' /\ OutputsType' /\ StartupType' /\
       InputsType'
    BY <1>0, <1>1 DEF Dispatch, MachineType, FlagsType, OutputsType,
         StartupType, InputsType
  <2>2. PositionType'
    BY <1>0, <1>1 DEF Dispatch, PositionType, Labels, States, Contexts,
         MachineType
  <2> QED
    BY <2>1, <2>2 DEF TypeOK
<1>2. CASE idle_entry
  <2>1. StartupType' /\ InputsType'
    BY <1>0, <1>2 DEF idle_entry, InHandler, LedLine, WriteLed, WriteGpio,
         mz_axigpio_disable_cpld, EventHandled, NextLine, Goto, Assertion,
         DuringLines, StartupType, InputsType
  <2>2. MachineType'
    BY <1>0, <1>2 DEF idle_entry, InHandler, LedLine, WriteLed, WriteGpio,
         mz_axigpio_disable_cpld, EventHandled, NextLine, Goto, Assertion,
         DuringLines, MachineType, States
  <2>3. FlagsType'
    BY <1>0, <1>2 DEF idle_entry, InHandler, LedLine, WriteLed, WriteGpio,
         mz_axigpio_disable_cpld, EventHandled, NextLine, Goto, Assertion,
         DuringLines, FlagsType
  <2>4. PositionType'
    BY <1>0, <1>2 DEF idle_entry, InHandler, LedLine, WriteLed, WriteGpio,
         mz_axigpio_disable_cpld, EventHandled, NextLine, Goto, Assertion,
         DuringLines, PositionType, Labels, States, Contexts
  <2>5. OutputsType'
    BY <1>0, <1>2 DEF idle_entry, InHandler, LedLine, WriteLed, WriteGpio,
         mz_axigpio_disable_cpld, EventHandled, NextLine, Goto, Assertion,
         DuringLines, OutputsType, Leds
  <2> QED
    BY <2>1, <2>2, <2>3, <2>4, <2>5 DEF TypeOK
<1>3. CASE running_entry
  <2>1. FlagsType' /\ StartupType' /\ InputsType'
    BY <1>0, <1>3 DEF running_entry, InHandler, LedLine, WriteLed, WriteGpio,
         mz_axigpio_enable_cpld, EventHandled, NextLine, Goto, Assertion,
         DuringLines, FlagsType, StartupType, InputsType
  <2>2. MachineType'
    BY <1>0, <1>3 DEF running_entry, InHandler, LedLine, WriteLed, WriteGpio,
         mz_axigpio_enable_cpld, EventHandled, NextLine, Goto, Assertion,
         DuringLines, MachineType, States
  <2>3. PositionType'
    BY <1>0, <1>3 DEF running_entry, InHandler, LedLine, WriteLed, WriteGpio,
         mz_axigpio_enable_cpld, EventHandled, NextLine, Goto, Assertion,
         DuringLines, PositionType, Labels, States, Contexts
  <2>4. OutputsType'
    BY <1>0, <1>3 DEF running_entry, InHandler, LedLine, WriteLed, WriteGpio,
         mz_axigpio_enable_cpld, EventHandled, NextLine, Goto, Assertion,
         DuringLines, OutputsType, Leds
  <2> QED
    BY <2>1, <2>2, <2>3, <2>4 DEF TypeOK
<1>4. CASE control_entry
  <2>1. FlagsType' /\ StartupType' /\ InputsType'
    BY <1>0, <1>4 DEF control_entry, InHandler, LedLine, WriteLed,
         EventHandled, NextLine, Goto, Assertion, DuringLines, FlagsType,
         StartupType, InputsType
  <2>2. MachineType'
    BY <1>0, <1>4 DEF control_entry, InHandler, LedLine, WriteLed,
         EventHandled, NextLine, Goto, Assertion, DuringLines, MachineType,
         States
  <2>3. PositionType'
    BY <1>0, <1>4 DEF control_entry, InHandler, LedLine, WriteLed,
         EventHandled, NextLine, Goto, Assertion, DuringLines, PositionType,
         Labels, States, Contexts
  <2>4. OutputsType'
    BY <1>0, <1>4 DEF control_entry, InHandler, LedLine, WriteLed,
         EventHandled, NextLine, Goto, Assertion, DuringLines, OutputsType,
         Leds
  <2> QED
    BY <2>1, <2>2, <2>3, <2>4 DEF TypeOK
<1>5. CASE error_entry
  <2>1. FlagsType' /\ StartupType' /\ InputsType'
    BY <1>0, <1>5 DEF error_entry, InHandler, LedLine, WriteLed,
         BlinkReadyLed, WriteGpio, mz_axigpio_disable_cpld, EventHandled,
         NextLine, Goto, Assertion, DuringLines, FlagsType, StartupType,
         InputsType
  <2>2. MachineType'
    BY <1>0, <1>5 DEF error_entry, InHandler, LedLine, WriteLed,
         BlinkReadyLed, WriteGpio, mz_axigpio_disable_cpld, EventHandled,
         NextLine, Goto, Assertion, DuringLines, MachineType, States
  <2>3. PositionType'
    BY <1>0, <1>5 DEF error_entry, InHandler, LedLine, WriteLed,
         BlinkReadyLed, WriteGpio, mz_axigpio_disable_cpld, EventHandled,
         NextLine, Goto, Assertion, DuringLines, PositionType, Labels, States,
         Contexts
  <2>4. OutputsType'
    BY <1>0, <1>5 DEF error_entry, InHandler, LedLine, WriteLed,
         BlinkReadyLed, WriteGpio, mz_axigpio_disable_cpld, EventHandled,
         NextLine, Goto, Assertion, DuringLines, OutputsType, Leds
  <2> QED
    BY <2>1, <2>2, <2>3, <2>4 DEF TypeOK
<1>6. CASE idle_during
  <2>1. FlagsType' /\ OutputsType' /\ StartupType' /\ InputsType'
    BY <1>0, <1>6 DEF idle_during, InDuring, InHandler, BlinkReadyLed,
         SwitchIf, switch_to_state, NextLine, Goto, Assertion, DuringLines,
         FlagsType, OutputsType, StartupType, InputsType
  <2>2. MachineType'
    BY <1>0, <1>6 DEF idle_during, InDuring, InHandler, BlinkReadyLed,
         SwitchIf, switch_to_state, NextLine, Goto, Assertion, DuringLines,
         MachineType, States
  <2>3. PositionType'
    BY <1>0, <1>6 DEF idle_during, InDuring, InHandler, BlinkReadyLed,
         SwitchIf, switch_to_state, NextLine, Goto, Assertion, DuringLines,
         PositionType, Labels, States, Contexts
  <2> QED
    BY <2>1, <2>2, <2>3 DEF TypeOK
<1>7. CASE running_during
  <2>1. FlagsType' /\ OutputsType' /\ StartupType' /\ InputsType'
    BY <1>0, <1>7 DEF running_during, InDuring, InHandler, BlinkReadyLed,
         SwitchIf, switch_to_state, NextLine, Goto, Assertion, DuringLines,
         FlagsType, OutputsType, StartupType, InputsType
  <2>2. MachineType'
    BY <1>0, <1>7 DEF running_during, InDuring, InHandler, BlinkReadyLed,
         SwitchIf, switch_to_state, NextLine, Goto, Assertion, DuringLines,
         MachineType, States
  <2>3. PositionType'
    BY <1>0, <1>7 DEF running_during, InDuring, InHandler, BlinkReadyLed,
         SwitchIf, switch_to_state, NextLine, Goto, Assertion, DuringLines,
         PositionType, Labels, States, Contexts
  <2> QED
    BY <2>1, <2>2, <2>3 DEF TypeOK
<1>8. CASE control_during
  <2>1. FlagsType' /\ OutputsType' /\ StartupType' /\ InputsType'
    BY <1>0, <1>8 DEF control_during, InDuring, InHandler, BlinkReadyLed,
         SwitchIf, switch_to_state, NextLine, Goto, Assertion, DuringLines,
         FlagsType, OutputsType, StartupType, InputsType
  <2>2. MachineType'
    BY <1>0, <1>8 DEF control_during, InDuring, InHandler, BlinkReadyLed,
         SwitchIf, switch_to_state, NextLine, Goto, Assertion, DuringLines,
         MachineType, States
  <2>3. PositionType'
    BY <1>0, <1>8 DEF control_during, InDuring, InHandler, BlinkReadyLed,
         SwitchIf, switch_to_state, NextLine, Goto, Assertion, DuringLines,
         PositionType, Labels, States, Contexts
  <2> QED
    BY <2>1, <2>2, <2>3 DEF TypeOK
<1>9. CASE error_during
  <2>1. FlagsType' /\ OutputsType' /\ StartupType' /\ InputsType'
    BY <1>0, <1>9 DEF error_during, InDuring, InHandler, BlinkReadyLed,
         SwitchIf, switch_to_state, NextLine, Goto, Assertion, DuringLines,
         FlagsType, OutputsType, StartupType, InputsType
  <2>2. MachineType'
    BY <1>0, <1>9 DEF error_during, InDuring, InHandler, BlinkReadyLed,
         SwitchIf, switch_to_state, NextLine, Goto, Assertion, DuringLines,
         MachineType, States
  <2>3. PositionType'
    BY <1>0, <1>9 DEF error_during, InDuring, InHandler, BlinkReadyLed,
         SwitchIf, switch_to_state, NextLine, Goto, Assertion, DuringLines,
         PositionType, Labels, States, Contexts
  <2> QED
    BY <2>1, <2>2, <2>3 DEF TypeOK
<1>10. CASE poll_buttons
  <2>1. MachineType' /\ OutputsType' /\ StartupType' /\ InputsType'
    BY <1>0, <1>10 DEF poll_buttons, mz_GetPushButtonStop, NextLine, Goto,
         DuringLines, MachineType, OutputsType, StartupType, InputsType
  <2>2. FlagsType'
    BY <1>0, <1>10 DEF poll_buttons, mz_GetPushButtonStop, NextLine, Goto,
         DuringLines, FlagsType, InputsType, Buttons
  <2>3. PositionType'
    BY <1>0, <1>10 DEF poll_buttons, mz_GetPushButtonStop, NextLine, Goto,
         DuringLines, PositionType, Labels, States, Contexts
  <2> QED
    BY <2>1, <2>2, <2>3 DEF TypeOK
<1>11. CASE set_error
  <2>1. OutputsType' /\ StartupType' /\ InputsType'
    BY <1>0, <1>11 DEF set_error, switch_to_state, Goto, OutputsType,
         StartupType, InputsType
  <2>2. MachineType'
    BY <1>0, <1>11 DEF set_error, switch_to_state, Goto, MachineType, States
  <2>3. FlagsType'
    BY <1>0, <1>11 DEF set_error, switch_to_state, Goto, FlagsType
  <2>4. PositionType'
    BY <1>0, <1>11 DEF set_error, switch_to_state, Goto, PositionType, Labels,
         States, Contexts
  <2> QED
    BY <2>1, <2>2, <2>3, <2>4 DEF TypeOK
<1>12. CASE Startup
  <2>1. MachineType' /\ FlagsType' /\ InputsType'
    BY <1>0, <1>12 DEF Startup, mz_init_platform, mz_init_software,
         mz_init_ip_cores, mz_init_interrupts, Boot, Goto, MachineType,
         FlagsType, InputsType
  <2>2. PositionType'
    <3>1. UNCHANGED position \/ Goto("step", 0)
      BY <1>12 DEF Startup, mz_init_platform, mz_init_software, mz_init_ip_cores,
           mz_init_interrupts
    <3> QED
      BY <1>0, <3>1 DEF Goto, PositionType, Labels
  <2>3. OutputsType'
    BY <1>0, <1>12 DEF Startup, mz_init_platform, mz_init_software,
         mz_init_ip_cores, mz_init_interrupts, Boot, Goto, OutputsType, Leds
  <2>4. StartupType'
    BY <1>0, <1>12 DEF Startup, mz_init_platform, mz_init_software,
         mz_init_ip_cores, mz_init_interrupts, Boot, Goto, StartupType, Chain
  <2> QED
    BY <2>1, <2>2, <2>3, <2>4 DEF TypeOK
<1>13. CASE InitFails
  <2>1. MachineType' /\ FlagsType' /\ OutputsType' /\ StartupType' /\
       InputsType'
    BY <1>0, <1>13 DEF InitFails, Assertion, MachineType, FlagsType,
         OutputsType, StartupType, InputsType
  <2>2. PositionType'
    BY <1>0, <1>13 DEF InitFails, Assertion, PositionType, Labels, States,
         Contexts
  <2> QED
    BY <2>1, <2>2 DEF TypeOK
<1>14. CASE ISR_Control
  <2>1. MachineType' /\ StartupType' /\ InputsType'
    BY <1>0, <1>14 DEF ISR_Control, ipc_Control_func, GuiFlags, UserButton,
         SetUserLed, AssertionInIsr, MachineType, StartupType, InputsType
  <2>2. FlagsType'
    BY <1>0, <1>14 DEF ISR_Control, ipc_Control_func, GuiFlags, UserButton,
         SetUserLed, AssertionInIsr, FlagsType
  <2>3. PositionType'
    BY <1>0, <1>14 DEF ISR_Control, ipc_Control_func, GuiFlags, UserButton,
         SetUserLed, AssertionInIsr, PositionType, Labels, States, Contexts
  <2>4. OutputsType'
    BY <1>0, <1>14 DEF ISR_Control, ipc_Control_func, GuiFlags, UserButton,
         SetUserLed, AssertionInIsr, OutputsType, Leds
  <2> QED
    BY <2>1, <2>2, <2>3, <2>4 DEF TypeOK
<1>15. CASE Environment
  <2>1. MachineType' /\ FlagsType' /\ PositionType' /\ OutputsType' /\
       StartupType'
    BY <1>0, <1>15 DEF Environment, PressOrRelease, GuiCommand, LoseLedOutput,
         MachineType, FlagsType, PositionType, OutputsType, StartupType
  <2>2. InputsType'
    BY PlatformAssumption, <1>0, <1>15 DEF Environment, PressOrRelease,
         GuiCommand, LoseLedOutput, InputsType, GuiCommands, Buttons
  <2> QED
    BY <2>1, <2>2 DEF TypeOK
<1>16. CASE UNCHANGED vars
  <2>1. MachineType' /\ FlagsType' /\ PositionType' /\ OutputsType' /\
       StartupType' /\ InputsType'
    BY <1>0, <1>16 DEF vars, MachineType, FlagsType, PositionType,
         OutputsType, StartupType, InputsType
  <2> QED
    BY <2>1 DEF TypeOK
<1> QED
  BY <1>1, <1>2, <1>3, <1>4, <1>5, <1>6, <1>7, <1>8, <1>9, <1>10, <1>11,
       <1>12, <1>13, <1>14, <1>15, <1>16 DEF Next, MainThread, step

\* The type invariant holds in every state of every execution.
THEOREM TypeCorrect == Spec => []TypeOK
<1>1. Init => TypeOK
  BY InitIInv DEF IInv
<1> QED
  BY <1>1, NextTypeOK, PTL DEF Spec

-----------------------------------------------------------------------------
(* The CPLD enable and the state *)

\* What mz_axigpio_disable_cpld and mz_axigpio_enable_cpld do to the enable bit.
LEMMA DisableCpld ==
    mz_axigpio_disable_cpld
        => (~CpldOn' /\ NextLine) \/ (Assertion /\ (CpldOn' <=> CpldOn))
  BY DEF mz_axigpio_disable_cpld, WriteGpio, CpldOn

LEMMA EnableCpld ==
    mz_axigpio_enable_cpld
        => \/ CpldOn' /\ NextLine
           \/ Assertion /\ (CpldOn' <=> CpldOn)
  BY DEF mz_axigpio_enable_cpld, WriteGpio, CpldOn

LEMMA SameCpld == UNCHANGED gpio_out => (CpldOn' <=> CpldOn)
  BY DEF CpldOn

\* Every step keeps the invariant.  In an entry or during function the cases
\* are what the current line does: a write that may assert, the change of the
\* CPLD, a switch, the end of the entry function.
LEMMA NextStepInv == IInv /\ [Next]_vars => StepInv'
<1> SUFFICES ASSUME IInv, [Next]_vars PROVE StepInv'
  OBVIOUS
<1>0. /\ MachineType /\ FlagsType /\ PositionType
      /\ CpldOnlyWhenRunning /\ EntryFlags /\ Handlers /\ CpldLines /\ Callback
  BY DEF IInv, TypeOK, StepInv
<1> USE DEF MachineType, FlagsType, PositionType, StepInv, CpldOnlyWhenRunning,
            EntryFlags, Handlers, CpldLines, Callback
<1>1. CASE idle_entry
  <2>0. pc = "entry" /\ handler = "idle" /\ (error_flag \/ ~error_flag')
    <3>1. error_flag' = FALSE \/ error_flag' = error_flag
      BY <1>1 DEF idle_entry
    <3> QED
      BY <1>0, <1>1, <3>1 DEF idle_entry, InHandler
  <2>1. CASE line = 1 /\ UNCHANGED machine /\ UNCHANGED flags /\ mz_axigpio_disable_cpld
    BY <1>0, <2>0, <2>1, DisableCpld DEF NextOrAssert, NextLine, Goto, Assertion
  <2>2. CASE line \in 2..6 /\ UNCHANGED machine /\ UNCHANGED gpio_out /\ NextOrAssert
    BY <1>0, <2>0, <2>2, SameCpld DEF NextOrAssert, NextLine, Goto, Assertion
  <2>3. CASE line = 7 /\ UNCHANGED flags /\ UNCHANGED gpio_out /\ EventHandled
    BY <1>0, <2>0, <2>3, SameCpld DEF EventHandled, Goto
  <2>4. \/ line = 1 /\ UNCHANGED machine /\ UNCHANGED flags /\ mz_axigpio_disable_cpld
        \/ line \in 2..6 /\ UNCHANGED machine /\ UNCHANGED gpio_out /\ NextOrAssert
        \/ line = 7 /\ UNCHANGED flags /\ UNCHANGED gpio_out /\ EventHandled
    BY <1>1 DEF idle_entry, LedLine, WriteLed, BlinkReadyLed,
         NextOrAssert
  <2> QED
    BY <2>1, <2>2, <2>3, <2>4
<1>2. CASE running_entry
  <2>0. pc = "entry" /\ handler = "running" /\ UNCHANGED flags
    BY <1>2 DEF running_entry, InHandler
  <2>1. CASE line \in 1..4 /\ UNCHANGED machine /\ UNCHANGED gpio_out /\ NextOrAssert
    BY <1>0, <2>0, <2>1, SameCpld DEF NextOrAssert, NextLine, Goto, Assertion
  <2>2. CASE line = 5 /\ UNCHANGED machine /\ mz_axigpio_enable_cpld
    BY <1>0, <2>0, <2>2, EnableCpld DEF NextOrAssert, NextLine, Goto, Assertion
  <2>3. CASE line = 6 /\ UNCHANGED gpio_out /\ EventHandled
    BY <1>0, <2>0, <2>3, SameCpld DEF EventHandled, Goto
  <2>4. \/ line \in 1..4 /\ UNCHANGED machine /\ UNCHANGED gpio_out /\ NextOrAssert
        \/ line = 5 /\ UNCHANGED machine /\ mz_axigpio_enable_cpld
        \/ line = 6 /\ UNCHANGED gpio_out /\ EventHandled
    BY <1>2 DEF running_entry, LedLine, WriteLed, BlinkReadyLed,
         NextOrAssert
  <2> QED
    BY <2>1, <2>2, <2>3, <2>4
<1>3. CASE control_entry
  <2>0. pc = "entry" /\ handler = "control" /\ UNCHANGED flags /\ UNCHANGED gpio_out
    BY <1>3 DEF control_entry, InHandler
  <2>1. CASE UNCHANGED machine /\ NextOrAssert
    BY <1>0, <2>0, <2>1, SameCpld DEF NextOrAssert, NextLine, Goto, Assertion
  <2>2. CASE EventHandled
    BY <1>0, <2>0, <2>2, SameCpld DEF EventHandled, Goto
  <2>3. \/ UNCHANGED machine /\ NextOrAssert
        \/ EventHandled
    BY <1>3 DEF control_entry, LedLine, WriteLed, BlinkReadyLed,
         NextOrAssert
  <2> QED
    BY <2>1, <2>2, <2>3
<1>4. CASE error_entry
  <2>0. pc = "entry" /\ handler = "error" /\ UNCHANGED flags
    BY <1>4 DEF error_entry, InHandler
  <2>1. CASE line = 1 /\ UNCHANGED machine /\ mz_axigpio_disable_cpld
    BY <1>0, <2>0, <2>1, DisableCpld DEF NextOrAssert, NextLine, Goto, Assertion
  <2>2. CASE line \in 2..8 /\ UNCHANGED machine /\ UNCHANGED gpio_out /\ NextOrAssert
    BY <1>0, <2>0, <2>2, SameCpld DEF NextOrAssert, NextLine, Goto, Assertion
  <2>3. CASE line = 9 /\ UNCHANGED gpio_out /\ EventHandled
    BY <1>0, <2>0, <2>3, SameCpld DEF EventHandled, Goto
  <2>4. \/ line = 1 /\ UNCHANGED machine /\ mz_axigpio_disable_cpld
        \/ line \in 2..8 /\ UNCHANGED machine /\ UNCHANGED gpio_out /\ NextOrAssert
        \/ line = 9 /\ UNCHANGED gpio_out /\ EventHandled
    BY <1>4 DEF error_entry, LedLine, WriteLed, BlinkReadyLed,
         NextOrAssert
  <2> QED
    BY <2>1, <2>2, <2>3, <2>4
<1>5. CASE idle_during
  <2>0. /\ pc \in {"during", "switch"} /\ handler = "idle"
        /\ UNCHANGED flags /\ UNCHANGED gpio_out
    BY <1>5 DEF idle_during, InDuring, InHandler
  <2>1. CASE pc = "during" /\ UNCHANGED machine /\ NextOrAssert
    BY <1>0, <2>0, <2>1, SameCpld DEF NextOrAssert, NextLine, Goto, Assertion, DuringLines
  <2>2. CASE line = 2 /\ SwitchIf(MayRun, "running")
    BY <1>0, <2>0, <2>2, SameCpld DEF SwitchIf, switch_to_state, NextLine, Goto, Assertion,
       DuringLines, MayRun
  <2>3. CASE line = 3 /\ SwitchIf(error_flag, "error")
    BY <1>0, <2>0, <2>3, SameCpld DEF SwitchIf, switch_to_state, NextLine, Goto, Assertion,
       DuringLines
  <2>4. \/ pc = "during" /\ UNCHANGED machine /\ NextOrAssert
        \/ line = 2 /\ SwitchIf(MayRun, "running")
        \/ line = 3 /\ SwitchIf(error_flag, "error")
    BY <1>0, <1>5, <2>0 DEF idle_during, BlinkReadyLed, NextOrAssert
  <2> QED
    BY <2>1, <2>2, <2>3, <2>4
<1>6. CASE running_during
  <2>0. /\ pc \in {"during", "switch"} /\ handler = "running"
        /\ UNCHANGED flags /\ UNCHANGED gpio_out
    BY <1>6 DEF running_during, InDuring, InHandler
  <2>1. CASE pc = "during" /\ UNCHANGED machine /\ NextOrAssert
    BY <1>0, <2>0, <2>1, SameCpld DEF NextOrAssert, NextLine, Goto, Assertion, DuringLines
  <2>2. CASE line = 2 /\ SwitchIf(error_flag, "error")
    BY <1>0, <2>0, <2>2, SameCpld DEF SwitchIf, switch_to_state, NextLine, Goto, Assertion,
       DuringLines
  <2>3. CASE line = 3 /\ SwitchIf(MustStop, "idle")
    BY <1>0, <2>0, <2>3, SameCpld DEF SwitchIf, switch_to_state, NextLine, Goto, Assertion,
       DuringLines, MustStop
  <2>4. CASE line = 4 /\ SwitchIf(MayControl, "control")
    BY <1>0, <2>0, <2>4, SameCpld DEF SwitchIf, switch_to_state, NextLine, Goto, Assertion,
       DuringLines, MayControl
  <2>5. \/ pc = "during" /\ UNCHANGED machine /\ NextOrAssert
        \/ line = 2 /\ SwitchIf(error_flag, "error")
        \/ line = 3 /\ SwitchIf(MustStop, "idle")
        \/ line = 4 /\ SwitchIf(MayControl, "control")
    BY <1>0, <1>6, <2>0 DEF running_during, BlinkReadyLed, NextOrAssert
  <2> QED
    BY <2>1, <2>2, <2>3, <2>4, <2>5
<1>7. CASE control_during
  <2>0. /\ pc \in {"during", "switch"} /\ handler = "control"
        /\ UNCHANGED flags /\ UNCHANGED gpio_out
    BY <1>7 DEF control_during, InDuring, InHandler
  <2>1. CASE pc = "during" /\ UNCHANGED machine /\ NextOrAssert
    BY <1>0, <2>0, <2>1, SameCpld DEF NextOrAssert, NextLine, Goto, Assertion, DuringLines
  <2>2. CASE line = 2 /\ SwitchIf(error_flag, "error")
    BY <1>0, <2>0, <2>2, SameCpld DEF SwitchIf, switch_to_state, NextLine, Goto, Assertion,
       DuringLines
  <2>3. CASE line = 3 /\ SwitchIf(MustStop, "idle")
    BY <1>0, <2>0, <2>3, SameCpld DEF SwitchIf, switch_to_state, NextLine, Goto, Assertion,
       DuringLines, MustStop
  <2>4. \/ pc = "during" /\ UNCHANGED machine /\ NextOrAssert
        \/ line = 2 /\ SwitchIf(error_flag, "error")
        \/ line = 3 /\ SwitchIf(MustStop, "idle")
    BY <1>0, <1>7, <2>0 DEF control_during, BlinkReadyLed, NextOrAssert
  <2> QED
    BY <2>1, <2>2, <2>3, <2>4
<1>8. CASE error_during
  <2>0. /\ pc \in {"during", "switch"} /\ handler = "error"
        /\ UNCHANGED flags /\ UNCHANGED gpio_out
    BY <1>8 DEF error_during, InDuring, InHandler
  <2>1. CASE line = 1 /\ SwitchIf(stop_flag, "idle")
    BY <1>0, <2>0, <2>1, SameCpld DEF SwitchIf, switch_to_state, NextLine, Goto, Assertion,
       DuringLines
  <2>2. line = 1 /\ SwitchIf(stop_flag, "idle")
    BY <1>0, <1>8, <2>0 DEF error_during, BlinkReadyLed, NextOrAssert
  <2> QED
    BY <2>1, <2>2
<1>9. CASE Dispatch
  BY <1>0, <1>9, SameCpld DEF Dispatch
<1>10. CASE poll_buttons
  BY <1>0, <1>10, SameCpld DEF poll_buttons, NextLine, Goto
<1>11. CASE set_error
  BY <1>0, <1>11, SameCpld DEF set_error, switch_to_state, Goto
<1>12. CASE Startup
  <2>1. pc = "boot" /\ UNCHANGED machine /\ UNCHANGED flags
    BY <1>12 DEF Startup, mz_init_platform, mz_init_software, mz_init_ip_cores,
         mz_init_interrupts, Boot
  <2>2. UNCHANGED position \/ Goto("step", 0)
    BY <1>12 DEF Startup, mz_init_platform, mz_init_software, mz_init_ip_cores,
         mz_init_interrupts
  <2>3. ~CpldOn'
    <3>1. gpio_out' \in {gpio_out, {}, gpio_out \cup {AXI2TCM}}
      BY <1>12 DEF Startup, mz_init_platform, mz_init_software, mz_init_ip_cores,
           mz_init_interrupts
    <3> QED
      BY <1>0, <2>1, <3>1 DEF CpldOn, CPLD, AXI2TCM
  <2> QED
    BY <1>0, <2>1, <2>2, <2>3 DEF Goto
<1>13. CASE InitFails
  BY <1>0, <1>13, SameCpld DEF InitFails, Assertion
<1>14. CASE ISR_Control
  BY <1>0, <1>14, SameCpld DEF ISR_Control, ipc_Control_func, GuiFlags,
       UserButton, SetUserLed, AssertionInIsr
<1>15. CASE Environment
  BY <1>0, <1>15, SameCpld DEF Environment
<1>16. CASE UNCHANGED vars
  BY <1>0, <1>16, SameCpld DEF vars
<1> QED
  BY <1>1, <1>2, <1>3, <1>4, <1>5, <1>6, <1>7, <1>8, <1>9, <1>10, <1>11,
       <1>12, <1>13, <1>14, <1>15, <1>16 DEF Next, MainThread, step

\* The inductive invariant holds in every reachable state.
LEMMA Inductive == Spec => []IInv
<1>1. IInv /\ [Next]_vars => IInv'
  BY NextTypeOK, NextStepInv DEF IInv
<1> QED
  BY <1>1, InitIInv, PTL DEF Spec

\* The CPLD is enabled only in running and control, or until the entry function
\* of the new state has run.
THEOREM CpldFollowsState == Spec => []CpldOnlyWhenRunning
<1>1. IInv => CpldOnlyWhenRunning
  BY DEF IInv, StepInv
<1> QED
  BY <1>1, Inductive, PTL

\* A program stopped after its assertion callback returned drives no gates.
THEOREM HungDrivesNoGates == Spec => []HungIsSafe
<1>1. IInv => HungIsSafe
  BY DEF IInv, StepInv, Callback, HungIsSafe
<1> QED
  BY <1>1, Inductive, PTL

-----------------------------------------------------------------------------
(* The front panel *)

Lit(led)  == leds[led]
Copy(led) == mz_led_states[led]

\* In the entry function of s, the LED is written in line n and its copy in the
\* next one.
Written(s, n, led, on) ==
    pc = "entry" /\ handler = s => /\ line > n     => (Lit(led) <=> on)
                                   /\ line > n + 1 => (Copy(led) <=> on)

\* What an entry function has done to the LEDs at each of its lines; before the
\* first step the entry of idle is still pending.
LedLines ==
    /\ pc = "boot" => entry
    /\ Written("idle", 3, "error", FALSE)    /\ Written("idle", 5, "running", FALSE)
    /\ Written("running", 1, "error", FALSE) /\ Written("running", 3, "running", FALSE)
    /\ Written("control", 1, "error", FALSE) /\ Written("control", 3, "running", TRUE)
    /\ Written("error", 2, "error", TRUE)    /\ Written("error", 4, "running", FALSE)

LedInv == LedLines /\ LedsTellState

\* A step that writes a LED or its copy, or asserts and writes neither.
LEMMA LedWritten ==
    ASSUME OutputsType, PositionType, pc = "entry", NEW n \in 0..9, NEW led \in Leds,
           NEW on \in BOOLEAN, LedLine(n, led, on)
    PROVE  /\ UNCHANGED handler /\ line \in {n, n + 1}
           /\ \A other \in Leds \ {led} : /\ Lit(other)' <=> Lit(other)
                                          /\ Copy(other)' <=> Copy(other)
           /\ \/ pc' = "set_error"
              \/ /\ pc' = "entry" /\ line' = line + 1
                 /\ line = n => (Lit(led)' <=> on)
                 /\ line = n + 1 => (Copy(led)' <=> on) /\ (Lit(led)' <=> Lit(led))
<1>1. CASE line = n /\ LedOk /\ leds' = [leds EXCEPT ![led] = on] /\ NextLine /\ UNCHANGED mz_led_states
  BY <1>1 DEF OutputsType, PositionType, Lit, Copy, NextLine, Goto
<1>2. CASE line = n /\ ~LedOk /\ Assertion /\ UNCHANGED panel
  BY <1>2 DEF Assertion, Lit, Copy
<1>3. CASE line = n + 1 /\ mz_led_states' = [mz_led_states EXCEPT ![led] = on] /\ NextLine
           /\ UNCHANGED leds
  BY <1>3 DEF OutputsType, PositionType, Lit, Copy, NextLine, Goto
<1> QED
  BY <1>1, <1>2, <1>3 DEF LedLine, WriteLed

\* Which LED is written in lines n and n + 1 of the entry function
IsLedLine(n, led, on) ==
    \/ handler = "idle"    /\ n = 3 /\ led = "error"   /\ on = FALSE
    \/ handler = "idle"    /\ n = 5 /\ led = "running" /\ on = FALSE
    \/ handler = "running" /\ n = 1 /\ led = "error"   /\ on = FALSE
    \/ handler = "running" /\ n = 3 /\ led = "running" /\ on = FALSE
    \/ handler = "control" /\ n = 1 /\ led = "error"   /\ on = FALSE
    \/ handler = "control" /\ n = 3 /\ led = "running" /\ on = TRUE
    \/ handler = "error"   /\ n = 2 /\ led = "error"   /\ on = TRUE
    \/ handler = "error"   /\ n = 4 /\ led = "running" /\ on = FALSE
    \/ handler = "error"   /\ n = 6 /\ led = "user"    /\ on = FALSE

\* The LED lines of the entry functions keep what the LEDs tell.
LEMMA LedLineKept ==
    ASSUME OutputsType, PositionType, pc = "entry", entry, LedInv, UNCHANGED machine,
           NEW n \in 0..9, NEW led \in Leds, NEW on \in BOOLEAN, LedLine(n, led, on),
           IsLedLine(n, led, on)
    PROVE  LedInv'
<1>a. {"error", "running", "user"} = Leds
  BY DEF Leds
<1>1. /\ UNCHANGED handler /\ line \in {n, n + 1}
      /\ \A o \in Leds \ {led} : (Lit(o)' <=> Lit(o)) /\ (Copy(o)' <=> Copy(o))
      /\ \/ pc' = "set_error"
         \/ /\ pc' = "entry" /\ line' = line + 1
            /\ line = n => (Lit(led)' <=> on)
            /\ line = n + 1 => (Copy(led)' <=> on) /\ (Lit(led)' <=> Lit(led))
  BY LedWritten
<1>2. led # "error" => (Lit("error")' <=> Lit("error")) /\ (Copy("error")' <=> Copy("error"))
  BY <1>a, <1>1
<1>3. led # "running" => /\ Lit("running")' <=> Lit("running")
                         /\ Copy("running")' <=> Copy("running")
  BY <1>a, <1>1
<1>4. CASE pc' = "set_error"
  BY <1>4 DEF LedInv, LedLines, Written, LedsTellState
<1>5. CASE led = "error" /\ pc' = "entry"
  BY <1>1, <1>3, <1>5 DEF PositionType, IsLedLine, LedInv, LedLines, Written, LedsTellState
<1>6. CASE led = "running" /\ pc' = "entry"
  BY <1>1, <1>2, <1>6 DEF PositionType, IsLedLine, LedInv, LedLines, Written, LedsTellState
<1>7. CASE led = "user" /\ pc' = "entry"
  BY <1>1, <1>2, <1>3, <1>7 DEF PositionType, IsLedLine, LedInv, LedLines, Written, LedsTellState
<1> QED
  BY <1>a, <1>1, <1>4, <1>5, <1>6, <1>7

\* Steps after which an entry is pending, or which change neither the LEDs nor
\* where an entry function is, keep what the LEDs tell.
LEMMA LedsKept ==
    ASSUME LedInv, UNCHANGED panel, pc' # "boot" \/ entry', entry' \/ UNCHANGED machine,
           pc' # "entry" \/ line' = 1 \/ UNCHANGED <<pc, line, handler>>
    PROVE  LedInv'
BY DEF LedInv, LedLines, Written, LedsTellState, Shows, Lit, Copy

\* A line of an entry function that writes no LED
LEMMA OtherLineKept ==
    ASSUME LedInv, PositionType, UNCHANGED panel, UNCHANGED machine, pc = "entry", entry, NextOrAssert,
           \/ handler = "idle" /\ line \in {1, 2}
           \/ handler = "running" /\ line = 5
           \/ handler = "error" /\ line \in {1, 8}
    PROVE  LedInv'
BY DEF NextOrAssert, NextLine, Goto, Assertion, PositionType, LedInv, LedLines, Written,
   LedsTellState, Shows, Lit, Copy

\* At the end of an entry function every LED of the panel is written.
LEMMA PanelWritten ==
    ASSUME LedInv, UNCHANGED panel, pc = "entry", EventHandled, handler = current_state,
           \/ handler = "idle" /\ line = 7
           \/ handler = "running" /\ line = 6
           \/ handler = "control" /\ line = 5
           \/ handler = "error" /\ line = 9
    PROVE  LedInv'
BY DEF EventHandled, Goto, LedInv, LedLines, Written, LedsTellState, Shows, Lit, Copy

\* Every step keeps what the LEDs tell.
LEMMA NextLedInv == IInv /\ LedInv /\ [Next]_vars => LedInv'
<1> SUFFICES ASSUME IInv, LedInv, [Next]_vars PROVE LedInv'
  OBVIOUS
<1>0. /\ MachineType /\ PositionType /\ OutputsType /\ EntryFlags /\ Handlers
  BY DEF IInv, TypeOK, StepInv
<1>a. {"error", "running", "user"} = Leds
  BY DEF Leds
<1>n. {1, 2, 3, 4, 5, 6} \subseteq 0..9
  OBVIOUS
<1>1. CASE idle_entry
  <2>0. pc = "entry" /\ handler = "idle" /\ entry /\ current_state = "idle"
    BY <1>0, <1>1 DEF idle_entry, InHandler, Handlers
  <2>1. CASE line \in {1, 2} /\ UNCHANGED machine /\ UNCHANGED panel /\ NextOrAssert
    BY <1>0, <2>0, <2>1, OtherLineKept
  <2>2. CASE UNCHANGED machine /\ (LedLine(3, "error", FALSE) \/ LedLine(5, "running", FALSE))
    <3>1. IsLedLine(3, "error", FALSE) /\ IsLedLine(5, "running", FALSE)
      BY <2>0 DEF IsLedLine
    <3>2. CASE LedLine(3, "error", FALSE)
      BY <1>0, <1>a, <1>n, <2>0, <2>2, <3>1, <3>2, LedLineKept, Zenon
    <3>3. CASE LedLine(5, "running", FALSE)
      BY <1>0, <1>a, <1>n, <2>0, <2>2, <3>1, <3>3, LedLineKept, Zenon
    <3> QED
      BY <2>2, <3>2, <3>3
  <2>3. CASE line = 7 /\ UNCHANGED panel /\ EventHandled
    BY <2>0, <2>3, PanelWritten
  <2>4. \/ line \in {1, 2} /\ UNCHANGED machine /\ UNCHANGED panel /\ NextOrAssert
        \/ UNCHANGED machine /\ (LedLine(3, "error", FALSE) \/ LedLine(5, "running", FALSE))
        \/ line = 7 /\ UNCHANGED panel /\ EventHandled
    BY <1>1 DEF idle_entry, mz_axigpio_disable_cpld, WriteGpio, NextOrAssert
  <2> QED
    BY <2>1, <2>2, <2>3, <2>4
<1>2. CASE running_entry
  <2>0. pc = "entry" /\ handler = "running" /\ entry /\ current_state = "running"
    BY <1>0, <1>2 DEF running_entry, InHandler, Handlers
  <2>1. CASE UNCHANGED machine /\ (LedLine(1, "error", FALSE) \/ LedLine(3, "running", FALSE))
    <3>1. IsLedLine(1, "error", FALSE) /\ IsLedLine(3, "running", FALSE)
      BY <2>0 DEF IsLedLine
    <3>2. CASE LedLine(1, "error", FALSE)
      BY <1>0, <1>a, <1>n, <2>0, <2>1, <3>1, <3>2, LedLineKept, Zenon
    <3>3. CASE LedLine(3, "running", FALSE)
      BY <1>0, <1>a, <1>n, <2>0, <2>1, <3>1, <3>3, LedLineKept, Zenon
    <3> QED
      BY <2>1, <3>2, <3>3
  <2>2. CASE line = 5 /\ UNCHANGED machine /\ UNCHANGED panel /\ NextOrAssert
    BY <1>0, <2>0, <2>2, OtherLineKept
  <2>3. CASE line = 6 /\ UNCHANGED panel /\ EventHandled
    BY <2>0, <2>3, PanelWritten
  <2>4. \/ UNCHANGED machine /\ (LedLine(1, "error", FALSE) \/ LedLine(3, "running", FALSE))
        \/ line = 5 /\ UNCHANGED machine /\ UNCHANGED panel /\ NextOrAssert
        \/ line = 6 /\ UNCHANGED panel /\ EventHandled
    BY <1>2 DEF running_entry, mz_axigpio_enable_cpld, WriteGpio, NextOrAssert
  <2> QED
    BY <2>1, <2>2, <2>3, <2>4
<1>3. CASE control_entry
  <2>0. pc = "entry" /\ handler = "control" /\ entry /\ current_state = "control"
    BY <1>0, <1>3 DEF control_entry, InHandler, Handlers
  <2>1. CASE UNCHANGED machine /\ (LedLine(1, "error", FALSE) \/ LedLine(3, "running", TRUE))
    <3>1. IsLedLine(1, "error", FALSE) /\ IsLedLine(3, "running", TRUE)
      BY <2>0 DEF IsLedLine
    <3>2. CASE LedLine(1, "error", FALSE)
      BY <1>0, <1>a, <1>n, <2>0, <2>1, <3>1, <3>2, LedLineKept, Zenon
    <3>3. CASE LedLine(3, "running", TRUE)
      BY <1>0, <1>a, <1>n, <2>0, <2>1, <3>1, <3>3, LedLineKept, Zenon
    <3> QED
      BY <2>1, <3>2, <3>3
  <2>2. CASE line = 5 /\ UNCHANGED panel /\ EventHandled
    BY <2>0, <2>2, PanelWritten
  <2> QED
    BY <1>3, <2>1, <2>2 DEF control_entry
<1>4. CASE error_entry
  <2>0. pc = "entry" /\ handler = "error" /\ entry /\ current_state = "error"
    BY <1>0, <1>4 DEF error_entry, InHandler, Handlers
  <2>1. CASE line \in {1, 8} /\ UNCHANGED machine /\ UNCHANGED panel /\ NextOrAssert
    BY <1>0, <2>0, <2>1, OtherLineKept
  <2>2. CASE /\ UNCHANGED machine
             /\ \/ LedLine(2, "error", TRUE)
                \/ LedLine(4, "running", FALSE) \/ LedLine(6, "user", FALSE)
    <3>1. /\ IsLedLine(2, "error", TRUE)
          /\ IsLedLine(4, "running", FALSE)
          /\ IsLedLine(6, "user", FALSE)
      BY <2>0 DEF IsLedLine
    <3>2. CASE LedLine(2, "error", TRUE)
      BY <1>0, <1>a, <1>n, <2>0, <2>2, <3>1, <3>2, LedLineKept, Zenon
    <3>3. CASE LedLine(4, "running", FALSE)
      BY <1>0, <1>a, <1>n, <2>0, <2>2, <3>1, <3>3, LedLineKept, Zenon
    <3>4. CASE LedLine(6, "user", FALSE)
      BY <1>0, <1>a, <1>n, <2>0, <2>2, <3>1, <3>4, LedLineKept, Zenon
    <3> QED
      BY <2>2, <3>2, <3>3, <3>4
  <2>3. CASE line = 9 /\ UNCHANGED panel /\ EventHandled
    BY <2>0, <2>3, PanelWritten
  <2>4. \/ line \in {1, 8} /\ UNCHANGED machine /\ UNCHANGED panel /\ NextOrAssert
        \/ /\ UNCHANGED machine
           /\ \/ LedLine(2, "error", TRUE)
              \/ LedLine(4, "running", FALSE) \/ LedLine(6, "user", FALSE)
        \/ line = 9 /\ UNCHANGED panel /\ EventHandled
    BY <1>4 DEF error_entry, mz_axigpio_disable_cpld, WriteGpio, BlinkReadyLed, NextOrAssert
  <2> QED
    BY <2>1, <2>2, <2>3, <2>4
<1>5. CASE idle_during \/ running_during \/ control_during \/ error_during
  <2>1. UNCHANGED panel /\ pc \in {"during", "switch"} /\ (entry' \/ UNCHANGED machine)
    BY <1>5 DEF idle_during, running_during, control_during, error_during,
         InDuring, InHandler, SwitchIf, switch_to_state
  <2>2. NextLine \/ Assertion \/ Goto("switch", line)
    BY <1>5 DEF idle_during, running_during, control_during, error_during,
         SwitchIf, BlinkReadyLed
  <2>3. pc' # "entry" /\ pc' # "boot"
    BY <2>1, <2>2 DEF NextLine, Goto, Assertion
  <2> QED
    BY <2>1, <2>3, LedsKept
<1>6. CASE Dispatch
  BY <1>6, LedsKept DEF Dispatch
<1>7. CASE poll_buttons
  BY <1>7, LedsKept DEF poll_buttons, Goto
<1>8. CASE set_error
  BY <1>8, LedsKept DEF set_error, switch_to_state, Goto
<1>9. CASE Startup
  <2>1. pc = "boot" /\ UNCHANGED machine /\ entry
    BY <1>9 DEF Startup, mz_init_platform, mz_init_software, mz_init_ip_cores,
         mz_init_interrupts, Boot, LedInv, LedLines
  <2>2. pc' \in {"boot", "step"}
    BY <1>9, <2>1 DEF Startup, mz_init_platform, mz_init_software,
         mz_init_ip_cores, mz_init_interrupts, Goto
  <2> QED
    BY <2>1, <2>2 DEF LedInv, LedLines, Written, LedsTellState
<1>10. CASE InitFails
  BY <1>10, LedsKept DEF InitFails, Assertion
<1>11. CASE ISR_Control
  <2>1. UNCHANGED machine /\ (UNCHANGED position \/ AssertionInIsr)
    BY <1>11 DEF ISR_Control, ipc_Control_func, UserButton
  <2>2. /\ (Lit("error")' <=> Lit("error")) /\ (Lit("running")' <=> Lit("running"))
        /\ (Copy("error")' <=> Copy("error")) /\ (Copy("running")' <=> Copy("running"))
    <3>1. CASE UNCHANGED panel
      BY <3>1 DEF Lit, Copy
    <3>2. CASE \E on \in BOOLEAN : SetUserLed(on)
      BY <1>0, <1>a, <3>2 DEF SetUserLed, OutputsType, Lit, Copy
    <3> QED
      BY <1>11, <3>1, <3>2 DEF ISR_Control, ipc_Control_func, UserButton
  <2> QED
    BY <2>1, <2>2 DEF AssertionInIsr, LedInv, LedLines, Written, LedsTellState, Shows, Lit, Copy
<1>12. CASE Environment
  BY <1>12, LedsKept DEF Environment, LedInv, LedLines
<1>13. CASE UNCHANGED vars
  BY <1>13, LedsKept DEF vars, LedInv, LedLines
<1> QED
  BY <1>1, <1>2, <1>3, <1>4, <1>5, <1>6, <1>7, <1>8, <1>9, <1>10, <1>11,
       <1>12, <1>13 DEF Next, MainThread, step

\* Once the entry function has run, the error LED and its copy are on exactly in
\* error and those of the running LED exactly in control.
THEOREM FrontPanelTellsState == Spec => []LedsTellState
<1>1. Init => LedInv
  BY DEF Init, LedInv, LedLines, Written, LedsTellState
<1>2. LedInv => LedsTellState
  BY DEF LedInv
<1> QED
  BY <1>1, <1>2, Inductive, NextLedInv, PTL DEF Spec

-----------------------------------------------------------------------------
(* The user LED *)

\* What is known of the user LED on the way: nobody sets it before the
\* interrupts are enabled, and only the entry function of error writes it apart
\* from its copy.
UserInv ==
    /\ UserLedFollowsCvOn
    /\ pc = "boot" => ~Copy("user") /\ ~isr_enabled /\ entry
    /\ Copy("user") /\ ~Lit("user") => current_state = "error" /\ entry
    /\ pc = "entry" /\ handler = "error" /\ line > 7 => (Copy("user") => Lit("user"))

\* A step that leaves the user LED, its copy and the command as they are
LEMMA UserLedKept ==
    ASSUME UserInv, UNCHANGED cv_on, Lit("user")' <=> Lit("user"), Copy("user")' <=> Copy("user"),
           ctx = "isr" => ctx' = "isr",
           \/ UNCHANGED machine
           \/ current_state' = "error" /\ entry'
           \/ Copy("user") => Lit("user"),
           pc' # "boot" \/ UNCHANGED <<pc, isr_enabled, machine>>,
           \/ pc' # "entry" \/ handler' # "error" \/ ~(line' > 7)
           \/ UNCHANGED <<pc, line, handler>>
           \/ Copy("user") => Lit("user")
    PROVE  UserInv'
BY DEF UserInv, UserLedFollowsCvOn, Lit, Copy

\* An interrupt that asserted never ends.
LEMMA IsrStays == [Next]_vars /\ ctx = "isr" => ctx' = "isr"
BY DEF Next, MainThread, step, Dispatch, idle_entry, running_entry, control_entry,
   error_entry, idle_during, running_during, control_during, error_during,
   poll_buttons, set_error, Startup, mz_init_platform, mz_init_software,
   mz_init_ip_cores, mz_init_interrupts, InitFails, ISR_Control, Environment,
   InDuring, InHandler, LedLine, WriteLed, BlinkReadyLed, WriteGpio, SwitchIf,
   mz_axigpio_enable_cpld, mz_axigpio_disable_cpld, EventHandled, NextLine, Goto,
   Assertion, vars

\* A GUI button changes the command of the outputs and the user LED together,
\* or its write of the LED asserts and the interrupt never ends.
LEMMA ButtonSetsBoth ==
    ASSUME OutputsType, ISR_Control, UserInv
    PROVE  UserInv'
<1>a. {"error", "running", "user"} = Leds
  BY DEF Leds
<1>1. UNCHANGED <<machine, isr_enabled>> /\ pc # "boot"
  BY DEF ISR_Control, UserInv
<1>2. CASE AssertionInIsr /\ UNCHANGED panel
  BY <1>1, <1>2 DEF AssertionInIsr, UserInv, UserLedFollowsCvOn, Lit, Copy
<1>3. CASE UNCHANGED <<panel, position, cv_on>>
  BY <1>1, <1>3 DEF UserInv, UserLedFollowsCvOn, Lit, Copy
<1>4. ASSUME NEW on \in BOOLEAN, SetUserLed(on), cv_on' = on, UNCHANGED position
      PROVE  UserInv'
  <2>1. (Lit("user")' <=> on) /\ (Copy("user")' <=> on)
    BY <1>a, <1>4 DEF SetUserLed, OutputsType, Lit, Copy
  <2> QED
    BY <1>1, <1>4, <2>1 DEF UserInv, UserLedFollowsCvOn, Lit, Copy
<1>5. \/ AssertionInIsr /\ UNCHANGED panel
      \/ UNCHANGED <<panel, position, cv_on>>
      \/ \E on \in BOOLEAN : SetUserLed(on) /\ cv_on' = on /\ UNCHANGED position
  BY DEF ISR_Control, ipc_Control_func, UserButton
<1> QED
  BY <1>2, <1>3, <1>4, <1>5

\* A LED line of another LED
LEMMA OtherLedKept ==
    ASSUME OutputsType, PositionType, UserInv, [Next]_vars, pc = "entry",
           NEW n \in 0..5, NEW led \in Leds \ {"user"}, NEW on \in BOOLEAN, LedLine(n, led, on),
           UNCHANGED <<machine, cv_on>>
    PROVE  UserInv'
<1>1. /\ UNCHANGED handler /\ line \in {n, n + 1}
      /\ (Lit("user")' <=> Lit("user")) /\ (Copy("user")' <=> Copy("user"))
      /\ (pc' = "set_error" \/ (pc' = "entry" /\ line' = line + 1))
  BY LedWritten DEF Leds
<1>2. pc' # "entry" \/ ~(line' > 7)
  BY <1>1 DEF PositionType
<1> QED
  BY <1>1, <1>2, IsrStays, UserLedKept

\* error_entry puts the user LED out, then its copy.
LEMMA UserLedPutOut ==
    ASSUME OutputsType, PositionType, UserInv, [Next]_vars, pc = "entry", handler = "error",
           entry, current_state = "error", LedLine(6, "user", FALSE), UNCHANGED <<machine, cv_on>>
    PROVE  UserInv'
<1>a. "user" \in Leds
  BY DEF Leds
<1>1. CASE line = 6 /\ LedOk /\ leds' = [leds EXCEPT !["user"] = FALSE] /\ NextLine
           /\ UNCHANGED mz_led_states
  <2>1. ~Lit("user")' /\ (Copy("user")' <=> Copy("user"))
    BY <1>a, <1>1 DEF OutputsType, Lit, Copy
  <2> QED
    BY <1>1, <2>1 DEF NextLine, Goto, UserInv, UserLedFollowsCvOn, Lit, Copy
<1>2. CASE line = 6 /\ ~LedOk /\ Assertion /\ UNCHANGED panel
  BY <1>2 DEF Assertion, UserInv, UserLedFollowsCvOn, Lit, Copy
<1>3. CASE line = 7 /\ mz_led_states' = [mz_led_states EXCEPT !["user"] = FALSE] /\ NextLine
           /\ UNCHANGED leds
  <2>1. ~Copy("user")' /\ (Lit("user")' <=> Lit("user"))
    BY <1>a, <1>3 DEF OutputsType, Lit, Copy
  <2> QED
    BY <1>3, <2>1 DEF NextLine, Goto, UserInv, UserLedFollowsCvOn, Lit, Copy
<1> QED
  BY <1>1, <1>2, <1>3 DEF LedLine, WriteLed

\* Every step keeps what is known of the user LED.
LEMMA NextUserInv == IInv /\ UserInv /\ [Next]_vars => UserInv'
<1> SUFFICES ASSUME IInv, UserInv, [Next]_vars PROVE UserInv'
  OBVIOUS
<1>0. /\ OutputsType /\ PositionType /\ EntryFlags /\ Handlers
      /\ (ctx = "isr" => ctx' = "isr")
  BY IsrStays DEF IInv, TypeOK, StepInv
<1>a. {"error", "running", "user"} = Leds
  BY DEF Leds
<1>b. UNCHANGED panel => (Lit("user")' <=> Lit("user")) /\ (Copy("user")' <=> Copy("user"))
  BY DEF Lit, Copy
<1>1. CASE idle_entry \/ running_entry \/ control_entry \/ error_entry
  <2>0. /\ pc = "entry" /\ entry /\ handler = current_state /\ UNCHANGED cv_on
    BY <1>0, <1>1 DEF idle_entry, running_entry, control_entry, error_entry, InHandler, Handlers
  <2>1. CASE UNCHANGED panel /\ UNCHANGED machine /\ NextOrAssert
             /\ (handler # "error" \/ line \in {1, 8})
    <3>1. \/ pc' # "entry" \/ handler' # "error" \/ ~(line' > 7)
          \/ line = 8 /\ handler = "error"
      BY <2>0, <2>1 DEF NextOrAssert, NextLine, Goto, Assertion
    <3>2. line = 8 /\ handler = "error" => (Copy("user") => Lit("user"))
      BY <2>0 DEF UserInv
    <3>3. pc' # "boot"
      BY <2>0, <2>1 DEF NextOrAssert, NextLine, Goto, Assertion
    <3> QED
      BY <1>0, <1>b, <2>0, <2>1, <3>1, <3>2, <3>3, UserLedKept
  <2>2. CASE UNCHANGED panel /\ EventHandled /\ (handler # "error" \/ line = 9)
    <3>1. Copy("user") => Lit("user")
      BY <2>0, <2>2 DEF UserInv
    <3> QED
      BY <1>0, <1>b, <2>0, <2>2, <3>1, UserLedKept DEF EventHandled, Goto
  <2>3. ASSUME UNCHANGED machine
        PROVE  /\ LedLine(1, "error", FALSE)   => UserInv'
               /\ LedLine(2, "error", TRUE)    => UserInv'
               /\ LedLine(3, "error", FALSE)   => UserInv'
               /\ LedLine(3, "running", FALSE) => UserInv'
               /\ LedLine(3, "running", TRUE)  => UserInv'
               /\ LedLine(4, "running", FALSE) => UserInv'
               /\ LedLine(5, "running", FALSE) => UserInv'
    <3>1. {1, 2, 3, 4, 5} \subseteq 0..5
      OBVIOUS
    <3>2. UNCHANGED <<machine, cv_on>> /\ {"error", "running"} \subseteq Leds \ {"user"}
      BY <1>a, <2>0, <2>3
    <3> QED
      BY <1>0, <2>0, <3>1, <3>2, OtherLedKept, Zenon
  <2>4. ASSUME error_entry, UNCHANGED machine, LedLine(6, "user", FALSE)
        PROVE  UserInv'
    BY <1>0, <2>0, <2>4, UserLedPutOut DEF error_entry, InHandler
  <2>5. CASE idle_entry
    <3>1. \/ UNCHANGED panel /\ UNCHANGED machine /\ NextOrAssert
          \/ UNCHANGED panel /\ EventHandled
          \/ UNCHANGED machine /\ (LedLine(3, "error", FALSE) \/ LedLine(5, "running", FALSE))
      BY <2>5 DEF idle_entry, mz_axigpio_disable_cpld, WriteGpio, NextOrAssert
    <3>2. handler # "error"
      BY <2>5 DEF idle_entry, InHandler
    <3> QED
      BY <2>1, <2>2, <2>3, <3>1, <3>2
  <2>6. CASE running_entry
    <3>1. \/ UNCHANGED panel /\ UNCHANGED machine /\ NextOrAssert
          \/ UNCHANGED panel /\ EventHandled
          \/ UNCHANGED machine /\ (LedLine(1, "error", FALSE) \/ LedLine(3, "running", FALSE))
      BY <2>6 DEF running_entry, mz_axigpio_enable_cpld, WriteGpio, NextOrAssert
    <3>2. handler # "error"
      BY <2>6 DEF running_entry, InHandler
    <3> QED
      BY <2>1, <2>2, <2>3, <3>1, <3>2
  <2>7. CASE control_entry
    <3>1. \/ UNCHANGED panel /\ EventHandled
          \/ UNCHANGED machine /\ (LedLine(1, "error", FALSE) \/ LedLine(3, "running", TRUE))
      BY <2>7 DEF control_entry
    <3>2. handler # "error"
      BY <2>7 DEF control_entry, InHandler
    <3> QED
      BY <2>2, <2>3, <3>1, <3>2
  <2>8. CASE error_entry
    <3>1. \/ UNCHANGED panel /\ UNCHANGED machine /\ NextOrAssert /\ line \in {1, 8}
          \/ UNCHANGED panel /\ EventHandled /\ line = 9
          \/ /\ UNCHANGED machine
             /\ \/ LedLine(2, "error", TRUE)
                \/ LedLine(4, "running", FALSE) \/ LedLine(6, "user", FALSE)
      BY <2>8 DEF error_entry, mz_axigpio_disable_cpld, WriteGpio, BlinkReadyLed, NextOrAssert
    <3> QED
      BY <2>1, <2>2, <2>3, <2>4, <2>8, <3>1
  <2> QED
    BY <1>1, <2>5, <2>6, <2>7, <2>8
<1>2. CASE idle_during \/ running_during \/ control_during \/ error_during
  <2>1. pc \in {"during", "switch"} /\ UNCHANGED panel /\ UNCHANGED cv_on
        /\ (UNCHANGED machine \/ pc = "switch")
    BY <1>2 DEF idle_during, running_during, control_during, error_during,
         InDuring, InHandler, SwitchIf
  <2>2. NextLine \/ Assertion \/ Goto("switch", line)
    BY <1>2 DEF idle_during, running_during, control_during, error_during,
         SwitchIf, BlinkReadyLed
  <2>3. pc' # "entry" /\ pc' # "boot"
    BY <2>1, <2>2 DEF NextLine, Goto, Assertion
  <2>4. pc = "switch" => (Copy("user") => Lit("user"))
    BY <1>0 DEF Handlers, UserInv
  <2> QED
    BY <1>0, <1>b, <2>1, <2>3, <2>4, UserLedKept
<1>3. CASE Dispatch
  BY <1>0, <1>3, <1>b, UserLedKept DEF Dispatch
<1>4. CASE poll_buttons
  BY <1>0, <1>4, <1>b, UserLedKept DEF poll_buttons, Goto
<1>5. CASE set_error
  BY <1>0, <1>5, <1>b, UserLedKept DEF set_error, switch_to_state, Goto
<1>6. CASE Startup
  <2>1. /\ pc = "boot" /\ UNCHANGED <<machine, mz_led_states, cv_on, ctx>>
        /\ (UNCHANGED <<pc, isr_enabled>> \/ pc' = "step")
    BY <1>6 DEF Startup, mz_init_platform, mz_init_software, mz_init_ip_cores,
         mz_init_interrupts, Boot, Goto
  <2>2. Lit("user")' => Lit("user")
    <3>1. leds' \in {leds, [l \in Leds |-> FALSE]}
      BY <1>6 DEF Startup, mz_init_platform, mz_init_software, mz_init_ip_cores,
           mz_init_interrupts
    <3> QED
      BY <1>a, <3>1 DEF Lit
  <2> QED
    BY <2>1, <2>2 DEF UserInv, UserLedFollowsCvOn, Lit, Copy
<1>7. CASE InitFails
  BY <1>0, <1>7, <1>b, UserLedKept DEF InitFails, Assertion
<1>8. CASE ISR_Control
  BY <1>0, <1>8, ButtonSetsBoth
<1>9. CASE Environment
  BY <1>0, <1>9, <1>b, UserLedKept DEF Environment
<1>10. CASE UNCHANGED vars
  BY <1>0, <1>10, <1>b, UserLedKept DEF vars
<1> QED
  BY <1>1, <1>2, <1>3, <1>4, <1>5, <1>6, <1>7, <1>8, <1>9, <1>10
     DEF Next, MainThread, step

\* Neither the user LED nor its copy is lit with the outputs' command off, unless
\* its write asserted in the interrupt, and the copy never shows a dark LED lit.
THEOREM UserLedIsCommand == Spec => []UserLedFollowsCvOn
<1>1. Init => UserInv
  BY DEF Init, UserInv, UserLedFollowsCvOn, Leds, Lit, Copy
<1>2. UserInv => UserLedFollowsCvOn
  BY DEF UserInv
<1> QED
  BY <1>1, <1>2, Inductive, NextUserInv, PTL DEF Spec

-----------------------------------------------------------------------------
(* What no step may do *)

\* Gate drivers are enabled by the main loop in running_entry and nowhere else.
THEOREM OnlyRunningEnables == Spec => EnableOnlyByRunningEntry
<1> DEFINE A == ~CpldOn /\ CpldOn' =>
                   /\ ctx = "main"
                   /\ current_state = "running"
                   /\ entry /\ ~event_handled /\ ~error_flag
<1>1. IInv /\ [Next]_vars => A
  <2> SUFFICES ASSUME IInv, [Next]_vars, ~CpldOn, CpldOn'
               PROVE  /\ ctx = "main"
                      /\ current_state = "running"
                      /\ entry /\ ~event_handled /\ ~error_flag
    OBVIOUS
  <2>1. ~UNCHANGED gpio_out
    BY SameCpld
  <2>2. running_entry \/ idle_entry \/ error_entry \/ Startup
    BY <2>1 DEF Next, MainThread, step, vars, Dispatch, control_entry, InDuring,
         idle_during, running_during, control_during, error_during,
         poll_buttons, set_error, InitFails, ISR_Control, Environment
  <2>3. ~idle_entry /\ ~error_entry
    <3>1. ~mz_axigpio_disable_cpld
      BY DisableCpld
    <3>2. idle_entry \/ error_entry => mz_axigpio_disable_cpld \/ UNCHANGED gpio_out
      BY DEF idle_entry, error_entry
    <3> QED
      BY <2>1, <3>1, <3>2
  <2>4. ~Startup
    <3>1. Startup => gpio_out' \in {gpio_out, {}, gpio_out \cup {AXI2TCM}}
      BY DEF Startup, mz_init_platform, mz_init_software, mz_init_ip_cores,
           mz_init_interrupts
    <3> QED
      BY <3>1 DEF CpldOn, CPLD, AXI2TCM
  <2>5. running_entry
    BY <2>2, <2>3, <2>4
  <2>6. pc = "entry" /\ handler = "running"
    BY <2>5 DEF running_entry, InHandler
  <2>7. MachineType /\ EntryFlags /\ Handlers /\ Callback /\ PositionType
    BY DEF IInv, StepInv, TypeOK
  <2>8. entry /\ current_state = "running"
    BY <2>6, <2>7 DEF Handlers
  <2>9. ctx = "main" /\ ~error_flag
    BY <2>6, <2>7 DEF Callback
  <2>10. ~event_handled
    BY <2>7, <2>8 DEF EntryFlags
  <2> QED
    BY <2>8, <2>9, <2>10
<1> QED
  BY <1>1, Inductive, PTL DEF Spec, EnableOnlyByRunningEntry

\* The assertion of switch_to_state does not fail in a during function, even if
\* the interrupt comes between a test and the switch it decides.
THEOREM OneSwitchPerStep == Spec => NoDoubleSwitch
<1> DEFINE A == pc' = "set_error" /\ ctx' # "isr" /\ pc \in {"during", "switch"} => ~LedOk
<1>1. IInv /\ [Next]_vars => A
  <2> SUFFICES ASSUME IInv, [Next]_vars, pc \in {"during", "switch"}, pc' = "set_error",
                      ctx' # "isr", LedOk
               PROVE  FALSE
    OBVIOUS
  <2>0. /\ MachineType /\ FlagsType /\ PositionType /\ Handlers /\ Callback
    BY DEF IInv, TypeOK, StepInv
  <2>1. ~NextLine
    BY DEF NextLine, Goto
  <2>2. idle_during \/ running_during \/ control_during \/ error_during
    BY DEF Next, MainThread, step, Dispatch, idle_entry, running_entry,
         control_entry, error_entry, InHandler, poll_buttons, set_error,
         Startup, mz_init_platform, mz_init_software, mz_init_ip_cores,
         mz_init_interrupts, Boot, InitFails, ISR_Control, ipc_Control_func,
         UserButton, AssertionInIsr, Environment, vars
  <2>3. pc = "switch" /\ ~event_handled
    BY <2>1, <2>2 DEF idle_during, running_during, control_during, error_during,
         SwitchIf, BlinkReadyLed, Goto
  <2> QED
    BY <2>0, <2>3 DEF Handlers
<1> QED
  BY <1>1, Inductive, PTL DEF Spec, NoDoubleSwitch

\* Control is entered from running with the gate drivers enabled, and error is
\* left for idle only.
THEOREM ControlNeedsRunning == Spec => ControlOnlyFromRunning
<1> DEFINE A == /\ current_state' = "control" /\ current_state # "control"
                     => current_state = "running" /\ CpldOn
                /\ current_state = "error" => current_state' \in {"error", "idle"}
<1>1. IInv /\ [Next]_vars => A
  <2> SUFFICES ASSUME IInv, [Next]_vars, current_state' # current_state
               PROVE  A
    BY DEF IInv, TypeOK, MachineType, States
  <2>0. /\ MachineType /\ Handlers /\ CpldLines
    BY DEF IInv, TypeOK, StepInv
  <2>1. ~UNCHANGED machine
    OBVIOUS
  <2>2. \/ idle_during \/ running_during \/ control_during \/ error_during
        \/ set_error
    BY <2>1 DEF Next, MainThread, step, Dispatch, idle_entry, running_entry,
         control_entry, error_entry, EventHandled, poll_buttons,
         Startup, mz_init_platform, mz_init_software, mz_init_ip_cores,
         mz_init_interrupts, Boot, InitFails, ISR_Control, Environment, vars
  <2>3. CASE set_error
    BY <2>1, <2>3 DEF set_error, switch_to_state
  <2>4. CASE idle_during \/ running_during \/ control_during \/ error_during
    <3>1. pc = "switch"
      BY <2>1, <2>4 DEF idle_during, running_during, control_during, error_during,
           InDuring, InHandler, SwitchIf
    <3>2. ~entry /\ handler = current_state
      BY <2>0, <3>1 DEF Handlers
    <3>3. current_state = "running" => CpldOn
      BY <2>0, <3>2 DEF CpldLines
    <3> QED
      BY <2>1, <2>4, <3>2, <3>3 DEF idle_during, running_during, control_during,
         error_during, InDuring, InHandler, SwitchIf, switch_to_state
  <2> HIDE DEF A
  <2> QED
    BY <2>2, <2>3, <2>4
<1> QED
  BY <1>1, Inductive, PTL DEF Spec, ControlOnlyFromRunning
\* What is known, between the test of stop_flag and the end of the step, of a
\* stop that was pending when the step began.
StopInv ==
    ctx = "main" /\ stop_found /\ handler \in {"running", "control"} =>
        /\ pc \in {"entry", "during", "switch"} => stop_flag
        /\ pc = "switch" => line = 3
        /\ pc = "during" /\ line = 4 => current_state = "idle"
        /\ pc = "poll" => current_state = "idle"

\* An X_entry function of running or control leaves the stop pending.
LEMMA EntryKeepsStop ==
    ASSUME StopInv, PositionType, running_entry \/ control_entry
    PROVE  StopInv'
<1>1. /\ pc = "entry" /\ UNCHANGED <<flags, handler, stop_found>>
      /\ ctx' = "main" => ctx = "main" /\ UNCHANGED ctx
      /\ \/ pc' = "entry" \/ pc' = "set_error"
         \/ pc' = "during" /\ line' = 1
  BY DEF running_entry, control_entry, InHandler, LedLine, WriteLed, WriteGpio,
     mz_axigpio_enable_cpld, EventHandled, NextLine, Goto, Assertion, PositionType, Contexts
<1> QED
  BY <1>1 DEF StopInv

\* The during function of running or control that finds a stop serves it, in its
\* third line, and asks for nothing more.
LEMMA DuringServesStop ==
    ASSUME IInv, StopInv, ctx = "main", stop_found, running_during \/ control_during, ctx' = "main"
    PROVE  StopInv'
<1>a. Handlers /\ PositionType /\ ~error_flag
  BY DEF IInv, TypeOK, StepInv, Callback
<1>b. /\ handler \in {"running", "control"} /\ UNCHANGED <<flags, stop_found>>
      /\ pc \in {"during", "switch"}
  BY DEF running_during, control_during, InDuring, InHandler
<1>c. UNCHANGED handler
  BY DEF running_during, control_during, SwitchIf, BlinkReadyLed, NextLine, Goto, Assertion
<1>0. /\ Handlers /\ PositionType /\ ~error_flag
      /\ handler \in {"running", "control"} /\ UNCHANGED <<flags, handler, stop_found>>
      /\ pc \in {"during", "switch"} /\ stop_flag
      /\ pc = "switch" => line = 3
      /\ pc = "during" /\ line = 4 => current_state = "idle"
  BY <1>a, <1>b, <1>c DEF StopInv
<1>1. MustStop /\ ~MayControl
  BY <1>0 DEF MustStop, MayControl
<1>2. ~Assertion
  BY DEF Assertion
<1>3. pc = "switch" => event_handled /\ line = 3
  BY <1>0 DEF Handlers
<1>4. CASE pc = "switch"
  <2>1. switch_to_state("idle") /\ NextLine
    BY <1>2, <1>3, <1>4 DEF running_during, control_during, SwitchIf, BlinkReadyLed
  <2> QED
    BY <1>0, <1>3, <1>4, <2>1 DEF switch_to_state, NextLine, Goto, DuringLines, StopInv
<1>5. CASE pc = "during" /\ line \in {1, 2}
  <2>1. NextLine
    BY <1>0, <1>2, <1>5 DEF running_during, control_during, SwitchIf, BlinkReadyLed
  <2> QED
    BY <1>0, <1>5, <2>1 DEF NextLine, Goto, DuringLines, StopInv
<1>6. CASE pc = "during" /\ line = 3
  <2>1. Goto("switch", 3)
    BY <1>1, <1>6 DEF running_during, control_during, SwitchIf
  <2> QED
    BY <1>0, <2>1 DEF Goto, StopInv
<1>7. CASE pc = "during" /\ line = 4
  <2>1. handler = "running" /\ UNCHANGED machine /\ NextLine
    BY <1>1, <1>7 DEF running_during, control_during, InDuring, InHandler, SwitchIf
  <2> QED
    BY <1>0, <1>7, <2>1 DEF NextLine, Goto, DuringLines, StopInv
<1>8. pc = "during" => line \in {1, 2, 3, 4}
  BY DEF running_during, control_during
<1> QED
  BY <1>0, <1>4, <1>5, <1>6, <1>7, <1>8

\* Every step keeps what is known of a stop that was found.
LEMMA NextStopInv == IInv /\ StopInv /\ [Next]_vars => StopInv'
<1> SUFFICES ASSUME IInv, StopInv, [Next]_vars PROVE StopInv'
  OBVIOUS
<1>0. PositionType
  BY DEF IInv, TypeOK
<1>1. CASE Dispatch
  BY <1>1 DEF Dispatch, StopInv
<1>2. CASE handler' \in {"idle", "error"} \/ pc' \notin {"entry", "during", "switch", "poll"}
  BY <1>2 DEF StopInv
<1>3. CASE idle_entry \/ error_entry \/ idle_during \/ error_during
  <2>1. UNCHANGED handler
    BY <1>3 DEF idle_entry, error_entry, idle_during, error_during, LedLine, WriteLed,
         mz_axigpio_disable_cpld, WriteGpio, BlinkReadyLed, EventHandled, SwitchIf,
         NextLine, Goto, Assertion
  <2>2. handler \in {"idle", "error"}
    BY <1>3 DEF idle_entry, error_entry, idle_during, error_during, InDuring, InHandler
  <2> QED
    BY <1>2, <2>1, <2>2
<1>4. CASE running_entry \/ control_entry
  BY <1>0, <1>4, EntryKeepsStop
<1>5. CASE running_during \/ control_during
  <2>1. UNCHANGED stop_found
    BY <1>5 DEF running_during, control_during, InDuring, InHandler
  <2>2. ctx' = "main" => ctx = "main"
    <3>1. NextLine \/ Assertion \/ Goto("switch", line)
      BY <1>5 DEF running_during, control_during, SwitchIf, BlinkReadyLed
    <3> QED
      BY <3>1 DEF NextLine, Goto, Assertion
  <2> QED
    BY <1>5, <2>1, <2>2, DuringServesStop DEF StopInv
<1>6. CASE poll_buttons
  BY <1>6 DEF poll_buttons, Goto, StopInv
<1>7. CASE set_error \/ Startup \/ InitFails
  <2>1. pc' \notin {"entry", "during", "switch", "poll"}
    BY <1>7 DEF set_error, Startup, mz_init_platform, mz_init_software, mz_init_ip_cores,
         mz_init_interrupts, Boot, InitFails, Goto, Assertion
  <2> QED
    BY <1>2, <2>1
<1>8. CASE ISR_Control
  <2>1. UNCHANGED <<machine, stop_found>>
    BY <1>8 DEF ISR_Control
  <2>2. UNCHANGED position \/ pc' = "set_error"
    BY <1>8 DEF ISR_Control, ipc_Control_func, UserButton, AssertionInIsr
  <2>3. stop_flag => stop_flag'
    BY <1>8, Zenon DEF ISR_Control, ipc_Control_func, GuiFlags
  <2> QED
    BY <1>2, <2>1, <2>2, <2>3 DEF StopInv
<1>9. CASE Environment
  BY <1>9 DEF Environment, StopInv
<1>10. CASE UNCHANGED vars
  BY <1>10 DEF vars, StopInv
<1> QED
  BY <1>1, <1>3, <1>4, <1>5, <1>6, <1>7, <1>8, <1>9, <1>10 DEF Next, MainThread, step

\* A stop that is pending when a step of running or control begins takes the
\* platform to idle in that step, whatever the interrupt sets meanwhile.
THEOREM FoundStopIsServed == Spec => []StopFoundIsServed
<1>1. Init => StopInv
  BY DEF Init, StopInv
<1>2. StopInv => StopFoundIsServed
  BY DEF StopInv, StopFoundIsServed
<1> QED
  BY <1>1, <1>2, Inductive, NextStopInv, PTL DEF Spec

=============================================================================
