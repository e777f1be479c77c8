------------------------ MODULE PlatformStateMachine ------------------------
(***************************************************************************)
(* The R5 platform: the start-up chain of main.c, the state machine of     *)
(* mz_platform_state_machine.c, the assertion callback and the control     *)
(* interrupt, on one core.                                                 *)
(*                                                                         *)
(* The main loop is cut at every point where the interrupt can tell the    *)
(* difference: pc names the function being executed, line the statement in *)
(* it and handler the state step() dispatched on (a *_during function may  *)
(* change current_state half way).  A condition of several flags is one    *)
(* step: one interrupt at most falls between its loads, and it sets one    *)
(* flag.  The interrupt runs to completion, so it is one action.  An       *)
(* assertion that fails in it never gives the core back to the main loop;  *)
(* pc and line then belong to it.                                          *)
(***************************************************************************)
EXTENDS Naturals

CONSTANTS
    Commands,      \* GUI commands the IPI mailbox may hold
    IsrMayAssert,  \* an assertion of the code called by ISR_Control may fail
    LedsMayFail,   \* the output enable of a LED pin may be lost (mz_gpio.c:44)
    InitMayFail    \* an assertion of the start-up chain may fail

GuiCommands == {"none", "Enable_System", "Enable_Control", "Stop",
                "Error_Reset", "My_Button_1", "My_Button_2"}

ASSUME PlatformAssumption ==
    /\ Commands \subseteq GuiCommands /\ "none" \in Commands
    /\ {IsrMayAssert, LedsMayFail, InitMayFail} \subseteq BOOLEAN

VARIABLES
    chain,           \* initialization_chain, with mz_init_platform in three steps
    pc, line, handler,
    ctx,             \* who executes: main loop, callback above it, or interrupt
    current_state, event_handled, entry,
    enable_system, enable_control, stop_flag, error_flag,
    leds,            \* the LED pins that are set
    mz_led_states,   \* the copies the GUI is shown
    gpio_out,        \* bits of the AXI GPIO that are set
    isr_enabled,
    cv_on,           \* Global_Data.cv.on
    buttons, mailbox, led_oe,
    stop_found       \* history: the present step found stop_flag set

machine  == <<current_state, event_handled, entry>>
flags    == <<enable_system, enable_control, stop_flag, error_flag>>
position == <<pc, line, handler, ctx>>
startup  == <<chain, isr_enabled>>
inputs   == <<buttons, mailbox, led_oe>>
panel    == <<leds, mz_led_states>>
vars == <<machine, flags, position, startup, inputs,
          panel, gpio_out, cv_on, stop_found>>

States   == {"idle", "running", "control", "error"}
Contexts == {"main", "callback", "isr"}
Leds     == {"running", "error", "user"}
Buttons  == {"enable_system", "enable_control", "stop"}
Chain    == {"assert_configuration", "axigpio_init", "frontplane_init",
             "software", "ip_cores", "interrupts", "infinite_loop"}
Labels   == {"boot", "step", "entry", "during", "switch", "poll",
             "set_error", "recursing", "hung"}

CPLD     == "ENABLE_CPLD"
AXI2TCM  == "ENABLE_AXI2TCM"

\* Number of statements of the X_during functions
DuringLines(s) == IF s = "running" THEN 4 ELSE IF s = "error" THEN 1 ELSE 3

GpioReady == chain \notin {"assert_configuration", "axigpio_init"}
LedOk     == GpioReady /\ chain # "frontplane_init" /\ led_oe
CpldOn    == CPLD \in gpio_out

-----------------------------------------------------------------------------
(* Control flow *)

Goto(label, n) == pc' = label /\ line' = n /\ UNCHANGED <<handler, ctx>>

NextLine ==
    IF pc = "entry"                      THEN Goto("entry", line + 1)
    ELSE IF line = DuringLines(handler)  THEN Goto("poll", 1)
                                         ELSE Goto("during", line + 1)

\* A failed mz_assert calls the callback, above whatever was executing.
Assertion ==
    /\ pc' = "set_error" /\ line' = 0
    /\ ctx' = IF ctx = "main" THEN "callback" ELSE ctx
    /\ UNCHANGED handler

AssertionInIsr == pc' = "set_error" /\ line' = 0 /\ ctx' = "isr" /\ UNCHANGED handler

\* The three assignments of switch_to_state, which its assertion precedes.
switch_to_state(s) ==
    /\ event_handled' = FALSE
    /\ entry' = TRUE
    /\ current_state' = s

\* "if (condition) switch_to_state(s);" in an X_during function: the test, and
\* the call, before which the interrupt may change what was tested.
SwitchIf(condition, s) ==
    \/ /\ pc = "during"
       /\ \/ ~condition /\ NextLine
          \/ condition /\ Goto("switch", line)
       /\ UNCHANGED machine
    \/ pc = "switch" /\ event_handled /\ switch_to_state(s) /\ NextLine
    \/ pc = "switch" /\ ~event_handled /\ Assertion /\ UNCHANGED machine

\* Faulty variant: the write of a LED without its output-enable assertion.
WriteLedUnchecked(led, on) ==
    /\ leds' = IF LedOk THEN [leds EXCEPT ![led] = on] ELSE leds
    /\ NextLine

\* mz_gpio_write_pin asserts the pin's output enable
WriteLed(led, on) ==
    \/ LedOk /\ leds' = [leds EXCEPT ![led] = on] /\ NextLine
    \/ ~LedOk /\ Assertion /\ UNCHANGED leds

\* The LED is written in line n, its copy in microzohm_state in line n + 1.
LedLine(n, led, on) ==
    \/ line = n /\ WriteLed(led, on) /\ UNCHANGED mz_led_states
    \/ /\ line = n + 1
       /\ mz_led_states' = [mz_led_states EXCEPT ![led] = on]
       /\ NextLine
       /\ UNCHANGED leds

\* ready_LED_blink_slow / _fast: the level of this LED is abstracted
BlinkReadyLed ==
    \/ LedOk /\ NextLine
    \/ ~LedOk /\ Assertion

\* XGpio_DiscreteSet/Clear assert that the driver was initialised
WriteGpio(value) ==
    \/ GpioReady /\ gpio_out' = value /\ NextLine
    \/ ~GpioReady /\ Assertion /\ UNCHANGED gpio_out

\* Faulty variants: a wrong bit set, a wrong bit cleared.
EnableBit5  == WriteGpio(gpio_out \cup {"bit 5"})
DisableBit4 == WriteGpio(gpio_out \ {AXI2TCM})

mz_axigpio_enable_cpld  == WriteGpio(gpio_out \cup {CPLD})
mz_axigpio_disable_cpld == WriteGpio(gpio_out \ {CPLD})

EventHandled ==
    /\ event_handled' = TRUE
    /\ entry' = FALSE
    /\ UNCHANGED current_state
    /\ Goto("during", 1)

-----------------------------------------------------------------------------
(* microzohm_state_machine_step *)

\* switch (current_state), and the "if (entry)" that opens every X_entry
Dispatch ==
    /\ pc = "step"
    /\ pc' = IF entry THEN "entry" ELSE "during"
    /\ line' = 1
    /\ handler' = current_state
    /\ stop_found' = stop_flag
    /\ UNCHANGED <<machine, flags, startup, inputs, ctx, panel, gpio_out, cv_on>>

InHandler(label, s) ==
    /\ pc = label
    /\ handler = s
    /\ UNCHANGED <<startup, inputs, cv_on, stop_found>>

idle_entry ==
    /\ InHandler("entry", "idle")
    /\ \/ /\ line = 1
          /\ mz_axigpio_disable_cpld
          /\ UNCHANGED <<machine, flags, panel>>
       \/ /\ line = 2
          /\ enable_control' = FALSE /\ enable_system' = FALSE
          /\ stop_flag' = FALSE /\ error_flag' = FALSE
          /\ NextLine
          /\ UNCHANGED <<machine, panel, gpio_out>>
       \/ /\ LedLine(3, "error", FALSE) \/ LedLine(5, "running", FALSE)
          /\ UNCHANGED <<machine, flags, gpio_out>>
       \/ /\ line = 7
          /\ EventHandled
          /\ UNCHANGED <<flags, panel, gpio_out>>

running_entry ==
    /\ InHandler("entry", "running")
    /\ UNCHANGED flags
    /\ \/ /\ LedLine(1, "error", FALSE) \/ LedLine(3, "running", FALSE)
          /\ UNCHANGED <<machine, gpio_out>>
       \/ /\ line = 5
          /\ mz_axigpio_enable_cpld
          /\ UNCHANGED <<machine, panel>>
       \/ /\ line = 6
          /\ EventHandled
          /\ UNCHANGED <<panel, gpio_out>>

control_entry ==
    /\ InHandler("entry", "control")
    /\ UNCHANGED <<flags, gpio_out>>
    /\ \/ /\ LedLine(1, "error", FALSE) \/ LedLine(3, "running", TRUE)
          /\ UNCHANGED machine
       \/ /\ line = 5
          /\ EventHandled
          /\ UNCHANGED panel

error_entry ==
    /\ InHandler("entry", "error")
    /\ UNCHANGED flags
    /\ \/ /\ line = 1
          /\ mz_axigpio_disable_cpld
          /\ UNCHANGED <<machine, panel>>
       \/ /\ \/ LedLine(2, "error", TRUE)
             \/ LedLine(4, "running", FALSE)
             \/ LedLine(6, "user", FALSE)
             \/ line = 8 /\ BlinkReadyLed /\ UNCHANGED panel
          /\ UNCHANGED <<machine, gpio_out>>
       \/ /\ line = 9
          /\ EventHandled
          /\ UNCHANGED <<panel, gpio_out>>

MayRun == enable_system /\ ~error_flag /\ ~stop_flag

\* Faulty variant: an enabled control is not stopped.
MustStopDisabled == stop_flag /\ ~enable_control
MustStop == stop_flag /\ ~error_flag

\* Faulty variant: stop is not looked at before control is entered.
MayControlUnstopped == enable_control /\ ~error_flag
MayControl == enable_control /\ ~error_flag /\ ~stop_flag

\* In an X_during function, or in the switch_to_state it calls
InDuring(s) ==
    /\ InHandler("during", s) \/ InHandler("switch", s)
    /\ UNCHANGED <<flags, panel, gpio_out>>

idle_during ==
    /\ InDuring("idle")
    /\ \/ line = 1 /\ BlinkReadyLed /\ UNCHANGED machine
       \/ line = 2 /\ SwitchIf(MayRun, "running")
       \/ line = 3 /\ SwitchIf(error_flag, "error")

running_during ==
    /\ InDuring("running")
    /\ \/ line = 1 /\ BlinkReadyLed /\ UNCHANGED machine
       \/ line = 2 /\ SwitchIf(error_flag, "error")
       \/ line = 3 /\ SwitchIf(MustStop, "idle")
       \/ line = 4 /\ SwitchIf(MayControl, "control")

control_during ==
    /\ InDuring("control")
    /\ \/ line = 1 /\ BlinkReadyLed /\ UNCHANGED machine
       \/ line = 2 /\ SwitchIf(error_flag, "error")
       \/ line = 3 /\ SwitchIf(MustStop, "idle")

error_during == InDuring("error") /\ line = 1 /\ SwitchIf(stop_flag, "idle")

\* Faulty variant: the polarity of the stop button inverted.
StopButtonActiveLow == ~buttons["stop"]
mz_GetPushButtonStop == buttons["stop"]

\* The last button read ends the step: back to main's loop, or from the
\* callback to Xil_Assert, which never returns.
poll_buttons ==
    /\ pc = "poll"
    /\ UNCHANGED <<machine, startup, inputs, error_flag, panel, gpio_out, cv_on>>
    /\ \/ /\ line = 1
          /\ enable_system' = buttons["enable_system"]
          /\ Goto("poll", 2)
          /\ UNCHANGED <<enable_control, stop_flag, stop_found>>
       \/ /\ line = 2
          /\ enable_control' = buttons["enable_control"]
          /\ Goto("poll", 3)
          /\ UNCHANGED <<enable_system, stop_flag, stop_found>>
       \/ /\ line = 3
          /\ stop_flag' = mz_GetPushButtonStop
          /\ stop_found' = FALSE
          /\ Goto(IF ctx = "main" THEN "step" ELSE "hung", 0)
          /\ UNCHANGED <<enable_system, enable_control>>

step ==
    \/ Dispatch
    \/ idle_entry \/ running_entry \/ control_entry \/ error_entry
    \/ idle_during \/ running_during \/ control_during \/ error_during
    \/ poll_buttons

-----------------------------------------------------------------------------
(* The assertion callback *)

\* Faulty variant: the callback returns without running the state machine.
SetErrorWithoutStep ==
    /\ pc = "set_error"
    /\ error_flag' = TRUE
    /\ Goto("hung", 0)
    /\ UNCHANGED <<machine, enable_system, enable_control, stop_flag, startup, inputs,
                   panel, gpio_out, cv_on, stop_found>>

\* set_error(true).  If the state has to change while the last change is still
\* unhandled, switch_to_state asserts, which calls set_error(true) again, and
\* so on until the stack ends: "recursing".
set_error ==
    /\ pc = "set_error"
    /\ \/ /\ current_state # "error" /\ ~event_handled
          /\ Goto("recursing", 0)
          /\ UNCHANGED <<machine, error_flag>>
       \/ /\ \/ current_state # "error" /\ event_handled /\ switch_to_state("error")
             \/ current_state = "error" /\ UNCHANGED machine
          /\ error_flag' = TRUE
          /\ Goto("step", 0)
    /\ UNCHANGED <<enable_system, enable_control, stop_flag, startup, inputs,
                   panel, gpio_out, cv_on, stop_found>>

-----------------------------------------------------------------------------
(* Start-up chain of main() *)

Boot(from, to) == pc = "boot" /\ chain = from /\ chain' = to
                  /\ UNCHANGED <<machine, flags, inputs, mz_led_states, cv_on, stop_found>>

InitFails ==
    /\ InitMayFail
    /\ pc = "boot" /\ chain \in {"axigpio_init", "frontplane_init", "ip_cores"}
    /\ Assertion
    /\ UNCHANGED <<machine, flags, startup, inputs, panel, gpio_out, cv_on, stop_found>>

mz_init_platform ==
    /\ UNCHANGED <<position, isr_enabled>>
    /\ \/ /\ Boot("assert_configuration", "axigpio_init")
          /\ UNCHANGED <<leds, gpio_out>>
       \/ /\ Boot("axigpio_init", "frontplane_init")
          /\ gpio_out' = {}
          /\ UNCHANGED leds
       \/ /\ Boot("frontplane_init", "software")
          /\ leds' = [l \in Leds |-> FALSE]
          /\ UNCHANGED gpio_out

mz_init_software == Boot("software", "ip_cores")
                    /\ UNCHANGED <<position, isr_enabled, leds, gpio_out>>

mz_init_ip_cores == Boot("ip_cores", "interrupts")
                    /\ gpio_out' = gpio_out \cup {AXI2TCM}
                    /\ UNCHANGED <<position, isr_enabled, leds>>

\* main ignores the status Initialize_ISR returns
mz_init_interrupts ==
    /\ Boot("interrupts", "infinite_loop")
    /\ isr_enabled' \in IF InitMayFail THEN BOOLEAN ELSE {TRUE}
    /\ Goto("step", 0)
    /\ UNCHANGED <<leds, gpio_out>>

Startup == mz_init_platform \/ mz_init_software \/ mz_init_ip_cores \/ mz_init_interrupts

-----------------------------------------------------------------------------
(* The control interrupt *)

\* The GUI commands; the channel selection is in the scope model.
GuiFlags(c) ==
    /\ enable_system'  = (enable_system  \/ c = "Enable_System")
    /\ enable_control' = (enable_control \/ c = "Enable_Control")
    /\ stop_flag'      = (stop_flag \/ c \in {"Stop", "Error_Reset"})
    /\ UNCHANGED error_flag

\* The interrupt writes the LED and its copy
SetUserLed(on) ==
    /\ leds' = [leds EXCEPT !["user"] = on]
    /\ mz_led_states' = [mz_led_states EXCEPT !["user"] = on]

\* Faulty variant: ON and OFF swapped for the LED.
UserLedInverted(c) ==
    /\ cv_on' = (c = "My_Button_1")
    /\ SetUserLed(c = "My_Button_2")
    /\ UNCHANGED position

UserButton(c) ==
    /\ cv_on' = (c = "My_Button_1")
    /\ \/ LedOk /\ SetUserLed(c = "My_Button_1") /\ UNCHANGED position
       \/ ~LedOk /\ AssertionInIsr /\ UNCHANGED panel

ipc_Control_func(c) ==
    /\ GuiFlags(c)
    /\ \/ c \in {"My_Button_1", "My_Button_2"} /\ UserButton(c)
       \/ c \notin {"My_Button_1", "My_Button_2"} /\ UNCHANGED <<position, panel, cv_on>>

ISR_Control ==
    /\ isr_enabled /\ ctx # "isr"
    /\ UNCHANGED <<machine, startup, inputs, gpio_out, stop_found>>
    /\ \/ ipc_Control_func(mailbox)
       \/ IsrMayAssert /\ AssertionInIsr /\ UNCHANGED <<flags, panel, cv_on>>

-----------------------------------------------------------------------------
(* Environment *)

PressOrRelease == \E b \in Buttons : buttons' = [buttons EXCEPT ![b] = ~@] /\ UNCHANGED <<mailbox, led_oe>>
GuiCommand     == mailbox' \in Commands /\ UNCHANGED <<buttons, led_oe>>
LoseLedOutput  == LedsMayFail /\ led_oe' = FALSE /\ UNCHANGED <<buttons, mailbox>>

Environment ==
    /\ PressOrRelease \/ GuiCommand \/ LoseLedOutput
    /\ UNCHANGED <<machine, flags, position, startup, panel, gpio_out, cv_on, stop_found>>

-----------------------------------------------------------------------------
Init ==
    /\ chain = "assert_configuration" /\ isr_enabled = FALSE
    /\ pc = "boot" /\ line = 0 /\ handler = "idle" /\ ctx = "main"
    /\ current_state = "idle" /\ event_handled = TRUE /\ entry = TRUE
    /\ enable_system = FALSE /\ enable_control = FALSE
    /\ stop_flag = FALSE /\ error_flag = FALSE
    /\ leds = [l \in Leds |-> FALSE] /\ mz_led_states = leds
    /\ gpio_out = {}
    /\ cv_on = FALSE
    /\ buttons = [b \in Buttons |-> FALSE]
    /\ mailbox = "none"
    /\ led_oe = TRUE
    /\ stop_found = FALSE

MainThread == step \/ set_error \/ Startup

Next == MainThread \/ InitFails \/ ISR_Control \/ Environment

Spec == Init /\ [][Next]_vars

\* The core always runs something, and the interrupt leaves time to the main
\* loop; the interrupt is periodic.  Nothing is assumed of the environment.
FairSpec == Spec /\ WF_vars(MainThread) /\ WF_vars(ISR_Control)

-----------------------------------------------------------------------------
(* Properties *)

\* Every variable keeps the type its C declaration gives it.
MachineType  == current_state \in States /\ event_handled \in BOOLEAN /\ entry \in BOOLEAN
FlagsType    == {enable_system, enable_control, stop_flag, error_flag} \subseteq BOOLEAN
PositionType == pc \in Labels /\ line \in 0..9 /\ handler \in States /\ ctx \in Contexts
OutputsType  == /\ leds \in [Leds -> BOOLEAN] /\ mz_led_states \in [Leds -> BOOLEAN]
                /\ gpio_out \subseteq {CPLD, AXI2TCM}
                /\ cv_on \in BOOLEAN
StartupType  == chain \in Chain /\ isr_enabled \in BOOLEAN
InputsType   == /\ buttons \in [Buttons -> BOOLEAN]
                /\ mailbox \in GuiCommands
                /\ {led_oe, stop_found} \subseteq BOOLEAN

TypeOK == /\ MachineType /\ FlagsType /\ PositionType
          /\ OutputsType /\ StartupType /\ InputsType

\* gpio_axi.h:22-24: the CPLD enable bit is set only in the states running and
\* control; in idle and error it may be left over only until the pending entry
\* function of that state has cleared it, whatever the interrupt, the buttons
\* and failing assertions do in between.
CpldOnlyWhenRunning ==
    CpldOn => \/ current_state \in {"running", "control"}
              \/ entry /\ ~event_handled

Shows(lit) == /\ lit["error"]   <=> current_state = "error"
              /\ lit["running"] <=> current_state = "control"

\* The front panel tells the state, and the GUI is shown the same: once the
\* entry function has run, the error LED and its copy are on exactly in error
\* and those of the running LED exactly in control.  A LED that cannot be
\* written stops the program before entry is cleared.
LedsTellState == ~entry => Shows(leds) /\ Shows(mz_led_states)

\* The user LED is the image of cv.on (ipc_ARM.c:76-84): neither it nor its
\* copy is ever lit with the outputs' command off, unless the write of that
\* LED itself asserted.  error_entry writes both with the interrupt between:
\* the copy may then miss that the LED is on, but never shows a dark LED lit.
UserLedFollowsCvOn ==
    /\ leds["user"] \/ mz_led_states["user"] => cv_on \/ ctx = "isr"
    /\ mz_led_states["user"] /\ ~entry => leds["user"]

\* A program stopped in Xil_Assert after its callback has returned has the gate
\* drivers disabled.
HungIsSafe == pc = "hung" => ~CpldOn

\* main.c:116-117, gpio_axi.h:33-34: the callback of an assertion disables the
\* system.  Once nothing can run any more (the callback is through, or it calls
\* itself for ever) the CPLD is disabled.
AssertionDisablesSystem == pc \in {"hung", "recursing"} => ~CpldOn

\* Gate drivers are enabled by the main loop alone, in running and with the
\* state's entry pending: never by an interrupt, nor once an assertion fired.
EnableOnlyByRunningEntry ==
    [][~CpldOn /\ CpldOn' =>
          /\ ctx = "main"
          /\ current_state = "running"
          /\ entry /\ ~event_handled /\ ~error_flag]_vars

\* The assertion of switch_to_state guards against two switches in one step
\* (the conditions of a *_during function exclude each other even when the
\* interrupt changes the flags between two of them, or between a condition and
\* its switch): a *_during function stops in an assertion only for a LED it
\* cannot write.
NoDoubleSwitch ==
    [][pc' = "set_error" /\ ctx' # "isr" /\ pc \in {"during", "switch"} => ~LedOk]_vars

\* Control starts from running only, with the gate drivers enabled; error is
\* left for idle only.
ControlOnlyFromRunning ==
    [][/\ current_state' = "control" /\ current_state # "control"
            => current_state = "running" /\ CpldOn
       /\ current_state = "error" => current_state' \in {"error", "idle"}]_vars

\* mz_platform_state_machine.c:225, 242: a stop that is pending when a step of
\* running or control begins takes the platform to idle in that very step,
\* whatever the interrupt sets meanwhile; the step never goes on to control.
StopFoundIsServed ==
    pc = "poll" /\ ctx = "main" /\ stop_found /\ handler \in {"running", "control"}
        => current_state = "idle"


\* Both enable buttons held, stop not pressed, nobody asking for a stop and no
\* assertion failing: the platform gets to control and stays there.
EnableButtonsReachControl ==
    <>[](/\ buttons["enable_system"] /\ buttons["enable_control"] /\ ~buttons["stop"]
         /\ mailbox \notin {"Stop", "Error_Reset"}) /\ [](ctx = "main")
        => <>[](current_state = "control")

\* mz_platform_state_machine.h:44-49: set_stop "sets the input signal stop of
\* the state machine", so running, which stop takes to idle (.c:225), gets it.
StopSignalIsServed ==
    stop_flag /\ current_state = "running" ~> current_state = "idle"
=============================================================================
