------------------------------- MODULE BoardIo -------------------------------
(***************************************************************************)
(* The board outputs of the A53: mz_platform.c, mz_phy_reset.c and the     *)
(* threads of main.c, without DHCP as the workspace script builds them.    *)
(* main_thread resets the Ethernet PHYs and starts network_thread, which   *)
(* blinks, and i2cio_thread, which mirrors the status of the R5.  All of   *)
(* them change one mirror of the I2C expander, by loads and stores the     *)
(* scheduler may separate.  Pins go by the names of their GPOs.            *)
(***************************************************************************)
EXTENDS Sequences, Naturals

CONSTANTS
    PanelLeds,   \* sequence of the panel LEDs, which show javascope_data_status
    Passes       \* passes of i2cio_thread in a delay of network_thread

ASSUME BoardAssumption ==
    /\ PanelLeds \in Seq({"FP1RDY", "FP2RUN", "FP3ERR", "FP4USR"})
    /\ Passes \in Nat \ {0}

VARIABLES
    iomap,                  \* mzp.iomap: the board the EEPROM names
    gpioi2c_outmirror,      \* GPOs set in the mirror,
    expander,               \* and in the output register of the expander
    level, driven,          \* PS GPIO: pins that are high, pins that are driven
    javascope_data_status,  \* LEDs the R5 has on
    calls,                  \* per thread: calls of mz_platform_gposet of its pass,
    step,                   \* the one it is at,
    at,                     \* where it is in that,
    reg,                    \* and the value it is about to store or to send
    mz_lscan,
    passes                  \* passes of i2cio_thread since network_thread began its delay

pins == <<gpioi2c_outmirror, expander, level, driven>>
threads == <<calls, step, at, reg>>
vars == <<iomap, pins, javascope_data_status, threads, mz_lscan, passes>>

Thread == {"main", "network", "i2cio"}
Phys == {"RST_PHY0", "RST_PHY1"}
Panel == {PanelLeds[k] : k \in DOMAIN PanelLeds}
ScanLeds == {"MZD10GREEN", "MZD11RED", "MZD12YELLOW", "MZD13BLUE"}

\* MZP_GPIOTYPE_I2C and MZP_GPIOTYPE_PS of the two maps
OnExpander == IF iomap = "extension" THEN Panel \cup {"FPRING"} ELSE Phys \cup ScanLeds
OnPs == IF iomap = "extension" THEN Phys ELSE {}

-----------------------------------------------------------------------------
(* What the threads call *)

Gpo(g, op) == [gpo |-> g, op |-> op]

\* Faulty variant: PHY 1 is not released.
ReleasesOne ==
    <<Gpo("RST_PHY0", "enable"), Gpo("RST_PHY0", "deassert"),
      Gpo("RST_PHY1", "enable"), Gpo("RST_PHY1", "deassert"),
      Gpo("RST_PHY0", "assert"), Gpo("RST_PHY0", "disable")>>

mz_phy_reset ==
    <<Gpo("RST_PHY0", "enable"), Gpo("RST_PHY0", "deassert"),
      Gpo("RST_PHY1", "enable"), Gpo("RST_PHY1", "deassert"),
      Gpo("RST_PHY0", "assert"), Gpo("RST_PHY0", "disable"),
      Gpo("RST_PHY1", "assert"), Gpo("RST_PHY1", "disable")>>

NetworkSetup ==
    <<Gpo("FPRING", "assert queued"), Gpo("MZD12YELLOW", "deassert queued"),
      Gpo("MZD13BLUE", "deassert queued")>>

\* The LED that goes off and the one that goes on, by mz_lscan
Scan ==
    <<<<"MZD11RED", "MZD10GREEN">>, <<"MZD10GREEN", "MZD11RED">>, <<"MZD11RED", "MZD12YELLOW">>,
      <<"MZD12YELLOW", "MZD13BLUE">>, <<"MZD13BLUE", "MZD12YELLOW">>, <<"MZD12YELLOW", "MZD11RED">>>>

NetworkPass ==
    LET leds == Scan[(mz_lscan % 6) + 1]
    IN  <<Gpo("FPRING", "toggle queued"), Gpo(leds[1], "deassert queued"),
          Gpo(leds[2], "assert queued")>>

I2cioPass ==
    [k \in DOMAIN PanelLeds |-> Gpo(PanelLeds[k], "show queued")] \o <<Gpo("all", "update")>>

-----------------------------------------------------------------------------
(* mz_platform_gposet, called by a thread *)

\* A thread has made the calls of its pass.
Finished(t) == step[t] > Len(calls[t])

\* Faulty variant: main_thread starts the others before it resets the PHYs.
StartedAtOnce == TRUE

\* main_thread has reset the PHYs and started the other threads.
Started == Finished("main")

\* A thread is at this point of its first call.
At(t, point) == (t = "main" \/ Started) /\ ~Finished(t) /\ at[t] = point

Called(t) == calls[t][step[t]]

Return(t) ==
    /\ step' = [step EXCEPT ![t] = @ + 1]
    /\ at' = [at EXCEPT ![t] = "call"]
    /\ reg' = [reg EXCEPT ![t] = {}]
    /\ UNCHANGED calls

Goto(t, point, value) ==
    /\ at' = [at EXCEPT ![t] = point]
    /\ reg' = [reg EXCEPT ![t] = value]
    /\ UNCHANGED <<calls, step>>

MirrorOps == {"assert", "assert queued", "deassert", "deassert queued", "toggle queued", "show queued"}

\* Faulty variant: a deassertion keeps the pin.
OnlySets(t) == gpioi2c_outmirror \cup {Called(t).gpo}

\* The mirror with the operation applied.  ("show" stands for the assertion or the
\* deassertion that i2cio_thread calls, by the status.)
Applied(t) ==
    LET g  == Called(t).gpo
        op == Called(t).op
        on == \/ op \in {"assert", "assert queued"}
              \/ op = "toggle queued" /\ g \notin gpioi2c_outmirror
              \/ op = "show queued" /\ g \in javascope_data_status
    IN  IF on THEN gpioi2c_outmirror \cup {g} ELSE gpioi2c_outmirror \ {g}

\* Faulty variant: a GPO this board does not have is set like any other.
ExistsAlways(g) == TRUE

\* MZ_NOGPO
Exists(g) == g \in OnExpander \cup OnPs

\* The board does not have it, or not this operation of it.
Ignored(t) ==
    /\ At(t, "call") /\ Called(t).op # "update"
    /\ ~Exists(Called(t).gpo) \/ (Called(t).gpo \notin OnPs /\ Called(t).op \notin MirrorOps)
    /\ Return(t)
    /\ UNCHANGED pins

WritePin(t) ==
    LET g  == Called(t).gpo
        op == Called(t).op
    IN  /\ At(t, "call") /\ g \in OnPs
        /\ level' = CASE op = "assert"   -> level \cup {g}
                      [] op = "deassert" -> level \ {g}
                      [] OTHER           -> level
        /\ driven' = CASE op = "enable"  -> driven \cup {g}
                       [] op = "disable" -> driven \ {g}
                       [] OTHER          -> driven
        /\ Return(t)
        /\ UNCHANGED <<gpioi2c_outmirror, expander>>

Load(t) ==
    /\ At(t, "call")
    /\ Exists(Called(t).gpo) /\ Called(t).gpo \notin OnPs /\ Called(t).op \in MirrorOps
    /\ Goto(t, "store", Applied(t))
    /\ UNCHANGED pins

Store(t) ==
    /\ At(t, "store")
    /\ gpioi2c_outmirror' = reg[t]
    /\ IF Called(t).op \in {"assert", "deassert"} THEN Goto(t, "update", {}) ELSE Return(t)
    /\ UNCHANGED <<expander, level, driven>>

mz_platform_gpoupdate(t) ==
    /\ At(t, "update") \/ (At(t, "call") /\ Called(t).op = "update")
    /\ Goto(t, "send", gpioi2c_outmirror)
    /\ UNCHANGED pins

Sent(t) ==
    /\ At(t, "send")
    /\ expander' = reg[t]
    /\ Return(t)
    /\ UNCHANGED <<gpioi2c_outmirror, level, driven>>

\* No thread looks at the status of the transfer.
NotSent(t) ==
    /\ At(t, "send")
    /\ Return(t)
    /\ UNCHANGED pins

\* i2cio_thread ends a pass with its update.
CountsPass(t) ==
    passes' = IF t = "i2cio" /\ at[t] = "send" /\ passes < Passes THEN passes + 1 ELSE passes

mz_platform_gposet(t) ==
    /\ Ignored(t) \/ WritePin(t) \/ Load(t) \/ Store(t) \/ mz_platform_gpoupdate(t)
       \/ Sent(t) \/ NotSent(t)
    /\ CountsPass(t)
    /\ UNCHANGED <<iomap, javascope_data_status, mz_lscan>>

-----------------------------------------------------------------------------
(* The loops *)

Begin(t, pass) ==
    /\ Started /\ Finished(t)
    /\ calls' = [calls EXCEPT ![t] = pass]
    /\ step' = [step EXCEPT ![t] = 1]
    /\ UNCHANGED <<at, reg, iomap, pins, javascope_data_status>>

\* vTaskDelay(DHCP_FINE_TIMER_MSECS), ten times as long as the other
network_thread ==
    /\ Begin("network", NetworkPass)
    /\ passes = Passes /\ passes' = 0
    /\ mz_lscan' = (mz_lscan % 6) + 1

\* vTaskDelay(I2CIO_THREAD_TIMER_MS)
i2cio_thread == Begin("i2cio", I2cioPass) /\ UNCHANGED <<mz_lscan, passes>>

\* Transfer_ipc_Intr_Handler stores the status of a sample.
Transfer_ipc_Intr_Handler ==
    /\ javascope_data_status' \in SUBSET Panel
    /\ UNCHANGED <<iomap, pins, threads, mz_lscan, passes>>

\* After mz_platform_init.  The register of the expander outlives a restart of the program.
Init ==
    /\ iomap \in {"extension", "breakout"}
    /\ gpioi2c_outmirror = {} /\ expander \in {{}, OnExpander}
    /\ level \in SUBSET OnPs /\ driven = {}
    /\ javascope_data_status = {}
    /\ calls = [t \in Thread |-> CASE t = "main" -> mz_phy_reset
                                   [] t = "network" -> NetworkSetup
                                   [] t = "i2cio" -> <<>>]
    /\ step = [t \in Thread |-> 1]
    /\ at = [t \in Thread |-> "call"]
    /\ reg = [t \in Thread |-> {}]
    /\ mz_lscan = 0 /\ passes = Passes

Next ==
    \/ \E t \in Thread : mz_platform_gposet(t)
    \/ network_thread \/ i2cio_thread \/ Transfer_ipc_Intr_Handler

Spec == Init /\ [][Next]_vars

\* The scheduler runs every thread again and again; not every transfer fails.
Fairness ==
    /\ \A t \in Thread : WF_vars(mz_platform_gposet(t))
    /\ \A t \in Thread : SF_vars(mz_platform_gposet(t) /\ Sent(t))
    /\ WF_vars(network_thread) /\ WF_vars(i2cio_thread)

FairSpec == Spec /\ Fairness

-----------------------------------------------------------------------------
(* Properties *)

\* Type invariant: the mirror and what is made of it have only GPOs of this board.
TypeOK ==
    /\ iomap \in {"extension", "breakout"}
    /\ gpioi2c_outmirror \subseteq OnExpander /\ expander \subseteq OnExpander
    /\ level \subseteq OnPs /\ driven \subseteq OnPs
    /\ javascope_data_status \subseteq Panel
    /\ calls \in [Thread -> Seq([gpo : Phys \cup Panel \cup ScanLeds \cup {"FPRING", "all"},
                                op : MirrorOps \cup {"enable", "disable", "update"}])]
    /\ step \in [Thread -> Nat] /\ \A t \in Thread : step[t] \in 1..(Len(calls[t]) + 1)
    /\ at \in [Thread -> {"call", "store", "update", "send"}]
    /\ reg \in [Thread -> SUBSET OnExpander]
    /\ mz_lscan \in 0..6 /\ passes \in 0..Passes

InReset(p) == IF p \in OnPs THEN p \in driven \ level ELSE p \notin expander

\* mz_phy_reset.c: once mz_phy_reset has released a PHY, no thread puts it back into
\* reset, although all of them write the mirror its pin may be in.
PhyStaysReleased == [][\A p \in Phys : Started /\ ~InReset(p) => ~InReset(p)']_vars

\* Every PHY is released in the end, even if the transfers of mz_phy_reset failed: the
\* update of i2cio_thread makes up for them.
PhysComeUp == <>[](\A p \in Phys : ~InReset(p))

\* From some point on no transfer fails.
TransfersSucceed ==
    <>[][\A t \in Thread : At(t, "send") /\ step'[t] # step[t] => expander' = reg[t]]_vars

\* main.c:295: i2cio_thread mirrors the LEDs of the R5.  A status that stays is shown,
\* again and again, although network_thread may lose what i2cio_thread has changed in
\* the mirror, if the bus works.
LedsShowStatus ==
    \A s \in SUBSET Panel :
        iomap = "extension" /\ <>[](javascope_data_status = s) /\ TransfersSucceed
            => []<>(expander \cap Panel = s)
===============================================================================
