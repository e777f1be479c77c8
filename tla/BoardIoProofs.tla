----------------------------- MODULE BoardIoProofs -----------------------------
(***************************************************************************)
(* Proofs about BoardIo, for every choice of panel LEDs and every number   *)
(* of passes: no thread puts an Ethernet PHY back into reset.              *)
(***************************************************************************)
EXTENDS BoardIo, TLAPS

Call == [gpo : Phys \cup Panel \cup ScanLeds \cup {"FPRING", "all"},
         op : MirrorOps \cup {"enable", "disable", "update"}]

Others == {"network", "i2cio"}

-----------------------------------------------------------------------------
(* The inductive invariant *)

\* main_thread runs mz_phy_reset once.
MainCalls == calls["main"] = mz_phy_reset

\* The other threads leave the PHYs alone.
OthersSpare == \A t \in Others : \A k \in 1..Len(calls[t]) : calls[t][k].gpo \notin Phys

\* They wait for main_thread, which is gone when they run.
Turns ==
    /\ ~Started => \A t \in Others : at[t] = "call"
    /\ Started => at["main"] = "call"

\* What main_thread is about to store is made of the mirror as it is.
MainAlone == at["main"] = "store" => reg["main"] = Applied("main") /\ Called("main").op \in MirrorOps

\* The PHYs main_thread has released in the mirror
Behind(k) == step["main"] > k \/ (step["main"] = k /\ at["main"] \in {"update", "send"})

MirrorReleases ==
    iomap = "breakout" =>
        /\ Behind(5) => "RST_PHY0" \in gpioi2c_outmirror
        /\ Behind(7) => "RST_PHY1" \in gpioi2c_outmirror

\* What the threads are about to store or to send releases both.
ThreadsRelease ==
    iomap = "breakout" /\ Started =>
        \A t \in Thread : at[t] \in {"store", "send"} => Phys \subseteq reg[t]

IInv ==
    /\ TypeOK /\ MainCalls /\ OthersSpare /\ Turns
    /\ MainAlone /\ MirrorReleases /\ ThreadsRelease

-----------------------------------------------------------------------------
(* What the threads call *)

LEMMA Boards ==
    /\ \A g \in Phys : (iomap = "extension" => g \in OnPs) /\ (iomap = "breakout" => g \in OnExpander)
    /\ iomap = "breakout" => OnPs = {}
    /\ OnPs \subseteq Phys
  BY DEF Phys, OnExpander, OnPs

LEMMA PanelNames ==
    /\ Len(PanelLeds) \in Nat /\ DOMAIN PanelLeds = 1..Len(PanelLeds)
    /\ \A k \in 1..Len(PanelLeds) : PanelLeds[k] \in Panel
    /\ Panel \subseteq {"FP1RDY", "FP2RUN", "FP3ERR", "FP4USR"}
  <1>1. PanelLeds \in Seq({"FP1RDY", "FP2RUN", "FP3ERR", "FP4USR"})
    BY BoardAssumption
  <1>. QED BY <1>1 DEF Panel

LEMMA MainScript ==
    /\ mz_phy_reset \in Seq(Call) /\ Len(mz_phy_reset) = 8
    /\ mz_phy_reset[5] = Gpo("RST_PHY0", "assert")
    /\ mz_phy_reset[6] = Gpo("RST_PHY0", "disable")
    /\ mz_phy_reset[7] = Gpo("RST_PHY1", "assert")
    /\ mz_phy_reset[8] = Gpo("RST_PHY1", "disable")
  BY DEF mz_phy_reset, Call, Gpo, Phys, MirrorOps

LEMMA MainNeverShows == \A k \in 1..8 : mz_phy_reset[k].op # "show queued"
  <1>1. \A g : \A op \in {"enable", "disable", "assert", "deassert"} : Gpo(g, op).op # "show queued"
    BY DEF Gpo
  <1>2. /\ mz_phy_reset[1].op # "show queued" /\ mz_phy_reset[2].op # "show queued"
        /\ mz_phy_reset[3].op # "show queued" /\ mz_phy_reset[4].op # "show queued"
        /\ mz_phy_reset[5].op # "show queued" /\ mz_phy_reset[6].op # "show queued"
        /\ mz_phy_reset[7].op # "show queued" /\ mz_phy_reset[8].op # "show queued"
    BY <1>1 DEF mz_phy_reset
  <1>3. \A k \in 1..8 : k \in {1, 2, 3, 4, 5, 6, 7, 8}
    OBVIOUS
  <1>. QED BY <1>2, <1>3

\* A pass of one of the other threads
IsPass(s) == s \in Seq(Call) /\ \A k \in 1..Len(s) : s[k].gpo \notin Phys

LEMMA ThreeCalls ==
    ASSUME NEW a \in Call, NEW b \in Call, NEW c \in Call,
           a.gpo \notin Phys, b.gpo \notin Phys, c.gpo \notin Phys
    PROVE  IsPass(<<a, b, c>>)
  <1>1. <<a, b, c>> \in Seq(Call) /\ Len(<<a, b, c>>) = 3
    OBVIOUS
  <1>2. \A k \in 1..3 : <<a, b, c>>[k].gpo \notin Phys
    OBVIOUS
  <1>. QED BY <1>1, <1>2 DEF IsPass

LEMMA CallOf ==
    ASSUME NEW g, NEW op, g \in Panel \cup ScanLeds \cup {"FPRING", "all"},
           op \in MirrorOps \cup {"update"}
    PROVE  Gpo(g, op) \in Call /\ Gpo(g, op).gpo \notin Phys /\ Gpo(g, op).op = op
  BY PanelNames DEF Gpo, Call, Phys, ScanLeds

LEMMA NetworkSetupIsPass == IsPass(NetworkSetup)
  <1>1. /\ Gpo("FPRING", "assert queued") \in Call
        /\ Gpo("FPRING", "assert queued").gpo \notin Phys
    BY CallOf DEF MirrorOps
  <1>2. \A g \in ScanLeds : /\ Gpo(g, "deassert queued") \in Call
                            /\ Gpo(g, "deassert queued").gpo \notin Phys
    BY CallOf DEF MirrorOps
  <1>3. "MZD12YELLOW" \in ScanLeds /\ "MZD13BLUE" \in ScanLeds
    BY DEF ScanLeds
  <1>. QED BY <1>1, <1>2, <1>3, ThreeCalls DEF NetworkSetup

LEMMA NetworkPassIsPass ==
    ASSUME mz_lscan \in 0..6
    PROVE  IsPass(NetworkPass)
  <1>. DEFINE leds == Scan[(mz_lscan % 6) + 1]
  <1>1. \A k \in 1..6 : Scan[k][1] \in ScanLeds /\ Scan[k][2] \in ScanLeds
    BY DEF Scan, ScanLeds
  <1>2. (mz_lscan % 6) + 1 \in 1..6
    OBVIOUS
  <1>3. leds[1] \in ScanLeds /\ leds[2] \in ScanLeds
    BY <1>1, <1>2
  <1>. HIDE DEF leds
  <1>4. /\ Gpo("FPRING", "toggle queued") \in Call
        /\ Gpo("FPRING", "toggle queued").gpo \notin Phys
    BY CallOf DEF MirrorOps
  <1>5. \A g \in ScanLeds : \A op \in {"assert queued", "deassert queued"} :
            Gpo(g, op) \in Call /\ Gpo(g, op).gpo \notin Phys
    BY CallOf DEF MirrorOps
  <1>6. IsPass(<<Gpo("FPRING", "toggle queued"), Gpo(leds[1], "deassert queued"),
                 Gpo(leds[2], "assert queued")>>)
    BY <1>3, <1>4, <1>5, ThreeCalls
  <1>. QED BY <1>6 DEF NetworkPass, leds

LEMMA I2cioPassIsPass == IsPass(I2cioPass)
  <1>. DEFINE shows == [k \in DOMAIN PanelLeds |-> Gpo(PanelLeds[k], "show queued")]
  <1>. DEFINE n == Len(PanelLeds)
  <1>. DEFINE last == Gpo("all", "update")
  <1>1. \A k \in 1..n : /\ Gpo(PanelLeds[k], "show queued") \in Call
                        /\ Gpo(PanelLeds[k], "show queued").gpo \notin Phys
    BY CallOf, PanelNames DEF MirrorOps
  <1>2. last \in Call /\ last.gpo \notin Phys
    BY CallOf
  <1>3. n \in Nat /\ shows \in [1..n -> Call] /\ \A k \in 1..n : shows[k].gpo \notin Phys
    BY <1>1, PanelNames
  <1>. HIDE DEF last, shows, n
  <1>4. shows \in Seq(Call) /\ Len(shows) = n
    BY <1>3
  <1>5. shows \o <<last>> \in Seq(Call) /\ Len(shows \o <<last>>) = n + 1
    BY <1>2, <1>3, <1>4
  <1>6. \A k \in 1..(n + 1) : (shows \o <<last>>)[k] = IF k <= n THEN shows[k] ELSE last
    BY <1>2, <1>3, <1>4
  <1>7. \A k \in 1..(n + 1) : (shows \o <<last>>)[k].gpo \notin Phys
    BY <1>2, <1>3, <1>6
  <1>8. I2cioPass = shows \o <<last>>
    BY DEF I2cioPass, shows, last
  <1>. QED BY <1>5, <1>7, <1>8 DEF IsPass

-----------------------------------------------------------------------------
(* The thread that acts *)

LEMMA AtCall ==
    ASSUME IInv, NEW t \in Thread, NEW p, At(t, p)
    PROVE  /\ step[t] \in 1..Len(calls[t]) /\ Called(t) \in Call /\ at[t] = p
           /\ t = "main" => ~Started /\ step[t] \in 1..8
           /\ t # "main" => Started /\ t \in Others /\ Called(t).gpo \notin Phys
  <1>1. step[t] \in Nat /\ step[t] \in 1..(Len(calls[t]) + 1) /\ calls[t] \in Seq(Call)
    BY DEF IInv, TypeOK, Call
  <1>2. ~(step[t] > Len(calls[t])) /\ at[t] = p
    BY DEF At, Finished
  <1>3. step[t] \in 1..Len(calls[t]) /\ Called(t) \in Call
    BY <1>1, <1>2 DEF Called
  <1>4. ASSUME t = "main" PROVE ~Started /\ step[t] \in 1..8
    <2>1. Len(calls["main"]) = 8
      BY MainScript DEF IInv, MainCalls
    <2>. QED BY <1>2, <1>3, <1>4, <2>1 DEF Started, Finished
  <1>5. ASSUME t # "main" PROVE Started /\ t \in Others /\ Called(t).gpo \notin Phys
    <2>1. Started /\ t \in Others
      BY <1>5 DEF At, Thread, Others
    <2>. QED BY <1>3, <2>1 DEF IInv, OthersSpare, Called
  <1>. QED BY <1>2, <1>3, <1>4, <1>5

\* What main_thread calls at its fifth to eighth step
LEMMA MainCalled ==
    ASSUME IInv, At("main", at["main"])
    PROVE  /\ step["main"] = 5 => Called("main") = Gpo("RST_PHY0", "assert")
           /\ step["main"] = 6 => Called("main") = Gpo("RST_PHY0", "disable")
           /\ step["main"] = 7 => Called("main") = Gpo("RST_PHY1", "assert")
           /\ step["main"] = 8 => Called("main") = Gpo("RST_PHY1", "disable")
  BY MainScript DEF Called, IInv, MainCalls

LEMMA AppliedFits ==
    ASSUME IInv, NEW t \in Thread, Called(t).gpo \in OnExpander
    PROVE  Applied(t) \in SUBSET OnExpander
  BY DEF IInv, TypeOK, Applied

\* An operation of another GPO leaves the PHYs in the mirror.
LEMMA AppliedSpares ==
    ASSUME NEW t \in Thread, NEW g, g # Called(t).gpo, g \in gpioi2c_outmirror
    PROVE  g \in Applied(t)
  BY DEF Applied

LEMMA AppliedAsserts ==
    ASSUME NEW t \in Thread, NEW g, Called(t) = Gpo(g, "assert")
    PROVE  Applied(t) = gpioi2c_outmirror \cup {g}
  BY DEF Applied, Gpo

\* The rest of the state in a call
Rest(t) == CountsPass(t) /\ UNCHANGED <<iomap, javascope_data_status, mz_lscan>>

LEMMA ReturnTypes ==
    ASSUME IInv, NEW t \in Thread, NEW p, At(t, p), Return(t), Rest(t),
           gpioi2c_outmirror' \subseteq OnExpander, expander' \subseteq OnExpander,
           level' \subseteq OnPs, driven' \subseteq OnPs
    PROVE  TypeOK'
  <1>1. step[t] \in 1..Len(calls[t])
    BY AtCall
  <1>2. OnExpander' = OnExpander /\ OnPs' = OnPs
    BY DEF Rest, OnExpander, OnPs
  <1>3. step' \in [Thread -> Nat] /\ \A u \in Thread : step'[u] \in 1..(Len(calls'[u]) + 1)
    BY <1>1 DEF IInv, TypeOK, Return
  <1>4. calls' = calls /\ at' \in [Thread -> {"call", "store", "update", "send"}]
    BY DEF IInv, TypeOK, Return
  <1>5. reg' \in [Thread -> SUBSET OnExpander]
    BY DEF IInv, TypeOK, Return
  <1>6. passes' \in 0..Passes /\ mz_lscan' \in 0..6
    BY BoardAssumption DEF IInv, TypeOK, Rest, CountsPass
  <1>7. iomap' = iomap /\ javascope_data_status' = javascope_data_status
    BY DEF Rest
  <1>. QED BY <1>2, <1>3, <1>4, <1>5, <1>6, <1>7 DEF IInv, TypeOK

LEMMA GotoTypes ==
    ASSUME IInv, NEW t \in Thread, NEW p \in {"store", "update", "send"},
           NEW v \in SUBSET OnExpander, Goto(t, p, v), Rest(t),
           gpioi2c_outmirror' \subseteq OnExpander, UNCHANGED <<expander, level, driven>>
    PROVE  TypeOK'
  <1>1. OnExpander' = OnExpander /\ OnPs' = OnPs
    BY DEF Rest, OnExpander, OnPs
  <1>2. calls' = calls /\ step' = step
    BY DEF Goto
  <1>3. at' \in [Thread -> {"call", "store", "update", "send"}]
    BY DEF IInv, TypeOK, Goto
  <1>4. reg' \in [Thread -> SUBSET OnExpander]
    BY DEF IInv, TypeOK, Goto
  <1>5. passes' \in 0..Passes /\ mz_lscan' \in 0..6
    BY BoardAssumption DEF IInv, TypeOK, Rest, CountsPass
  <1>6. iomap' = iomap /\ javascope_data_status' = javascope_data_status
    BY DEF Rest
  <1>. QED BY <1>1, <1>2, <1>3, <1>4, <1>5, <1>6 DEF IInv, TypeOK

-----------------------------------------------------------------------------
(* Steps of the threads that main_thread has started *)

LEMMA StartedHolds ==
    ASSUME IInv, Started, iomap = "breakout"
    PROVE  Phys \subseteq gpioi2c_outmirror
  <1>1. step["main"] \in Nat /\ step["main"] > 8
    BY MainScript DEF IInv, TypeOK, MainCalls, Started, Finished, Thread
  <1>2. Behind(5) /\ Behind(7)
    BY <1>1 DEF Behind
  <1>. QED BY <1>2 DEF IInv, MirrorReleases, Phys

LEMMA OthersMove ==
    ASSUME IInv, Started, NEW t \in Others, TypeOK',
           UNCHANGED <<calls, iomap>>, step'["main"] = step["main"],
           \A u \in Thread \ {t} : at'[u] = at[u] /\ reg'[u] = reg[u],
           iomap = "breakout" => Phys \subseteq gpioi2c_outmirror',
           iomap = "breakout" /\ at'[t] \in {"store", "send"} => Phys \subseteq reg'[t]
    PROVE  IInv'
  <1>1. MainCalls' /\ OthersSpare'
    BY DEF IInv, MainCalls, OthersSpare, mz_phy_reset, Gpo, Phys
  <1>2. Started' /\ "main" \in Thread \ {t}
    BY DEF Started, Finished, Thread, Others
  <1>3. Turns' /\ at'["main"] = "call"
    BY <1>2 DEF IInv, Turns
  <1>4. MainAlone'
    BY <1>3 DEF MainAlone
  <1>5. MirrorReleases'
    BY DEF MirrorReleases, Phys
  <1>6. ThreadsRelease'
    <2>. SUFFICES ASSUME iomap = "breakout", NEW u \in Thread, at'[u] \in {"store", "send"}
                  PROVE  Phys \subseteq reg'[u]
      BY DEF ThreadsRelease, Phys
    <2>1. CASE u = t
      BY <2>1
    <2>2. CASE u # t
      BY <2>2 DEF IInv, ThreadsRelease
    <2>. QED BY <2>1, <2>2
  <1>. QED BY <1>1, <1>3, <1>4, <1>5, <1>6 DEF IInv

\* Between the calls a thread changes neither the script of another nor its place.
LEMMA ReturnLocal ==
    ASSUME IInv, NEW t \in Thread, Return(t)
    PROVE  /\ calls' = calls /\ at'[t] = "call" /\ step'[t] = step[t] + 1
           /\ \A u \in Thread \ {t} : at'[u] = at[u] /\ reg'[u] = reg[u] /\ step'[u] = step[u]
  BY DEF IInv, TypeOK, Return

LEMMA GotoLocal ==
    ASSUME IInv, NEW t \in Thread, NEW p, NEW v, Goto(t, p, v)
    PROVE  /\ calls' = calls /\ step' = step /\ at'[t] = p /\ reg'[t] = v
           /\ \A u \in Thread \ {t} : at'[u] = at[u] /\ reg'[u] = reg[u]
  BY DEF IInv, TypeOK, Goto

LEMMA OthersReturn ==
    ASSUME IInv, Started, NEW t \in Others, Return(t), Rest(t), TypeOK',
           iomap = "breakout" => Phys \subseteq gpioi2c_outmirror'
    PROVE  IInv'
  <1>1. t \in Thread /\ "main" \in Thread \ {t}
    BY DEF Thread, Others
  <1>2. /\ calls' = calls /\ at'[t] = "call"
        /\ \A u \in Thread \ {t} : at'[u] = at[u] /\ reg'[u] = reg[u] /\ step'[u] = step[u]
    BY <1>1, ReturnLocal
  <1>3. step'["main"] = step["main"] /\ iomap' = iomap
    BY <1>1, <1>2 DEF Rest
  <1>. QED BY <1>2, <1>3, OthersMove

LEMMA OthersGoto ==
    ASSUME IInv, Started, NEW t \in Others, NEW p, NEW v, Goto(t, p, v), Rest(t), TypeOK',
           iomap = "breakout" => Phys \subseteq gpioi2c_outmirror' /\ Phys \subseteq v
    PROVE  IInv'
  <1>1. t \in Thread
    BY DEF Thread, Others
  <1>2. /\ calls' = calls /\ step' = step /\ reg'[t] = v
        /\ \A u \in Thread \ {t} : at'[u] = at[u] /\ reg'[u] = reg[u]
    BY <1>1, GotoLocal
  <1>3. iomap' = iomap
    BY DEF Rest
  <1>. QED BY <1>2, <1>3, OthersMove

-----------------------------------------------------------------------------
(* Steps of main_thread *)

LEMMA MainReturn ==
    ASSUME IInv, At("main", at["main"]), Return("main"), Rest("main"), TypeOK',
           iomap = "breakout" /\ step["main"] >= 5 => "RST_PHY0" \in gpioi2c_outmirror',
           iomap = "breakout" /\ step["main"] >= 7 => "RST_PHY1" \in gpioi2c_outmirror'
    PROVE  IInv'
  <1>. "main" \in Thread /\ \A u \in Others : u \in Thread \ {"main"}
    BY DEF Thread, Others
  <1>1. ~Started /\ step["main"] \in 1..8
    BY AtCall
  <1>2. /\ calls' = calls /\ at'["main"] = "call" /\ step'["main"] = step["main"] + 1
        /\ \A u \in Thread \ {"main"} : at'[u] = at[u] /\ reg'[u] = reg[u]
    BY ReturnLocal
  <1>3. iomap' = iomap
    BY DEF Rest
  <1>4. MainCalls' /\ OthersSpare'
    BY <1>2 DEF IInv, MainCalls, OthersSpare, mz_phy_reset, Gpo, Phys
  <1>5. \A u \in Thread : at'[u] = "call"
    BY <1>1, <1>2 DEF IInv, Turns, Thread, Others
  <1>6. Turns'
    BY <1>5 DEF Turns
  <1>7. MainAlone' /\ ThreadsRelease'
    BY <1>5 DEF MainAlone, ThreadsRelease
  <1>8. Behind(5)' => step["main"] >= 5
    BY <1>1, <1>2, <1>5 DEF Behind
  <1>9. Behind(7)' => step["main"] >= 7
    BY <1>1, <1>2, <1>5 DEF Behind
  <1>10. MirrorReleases'
    BY <1>3, <1>8, <1>9 DEF MirrorReleases
  <1>. QED BY <1>4, <1>6, <1>7, <1>10 DEF IInv

LEMMA MainGoto ==
    ASSUME IInv, At("main", at["main"]), NEW p, NEW v, Goto("main", p, v), Rest("main"), TypeOK',
           p = "store" => /\ v = Applied("main") /\ Called("main").op \in MirrorOps
                          /\ UNCHANGED gpioi2c_outmirror,
           iomap = "breakout" /\ (Behind(5) \/ (step["main"] = 5 /\ p # "store"))
               => "RST_PHY0" \in gpioi2c_outmirror',
           iomap = "breakout" /\ (Behind(7) \/ (step["main"] = 7 /\ p # "store"))
               => "RST_PHY1" \in gpioi2c_outmirror'
    PROVE  IInv'
  <1>. "main" \in Thread /\ \A u \in Others : u \in Thread \ {"main"}
    BY DEF Thread, Others
  <1>1. ~Started /\ step["main"] \in 1..8
    BY AtCall
  <1>2. /\ calls' = calls /\ step' = step /\ at'["main"] = p /\ reg'["main"] = v
        /\ \A u \in Thread \ {"main"} : at'[u] = at[u] /\ reg'[u] = reg[u]
    BY GotoLocal
  <1>3. iomap' = iomap /\ javascope_data_status' = javascope_data_status
    BY DEF Rest
  <1>4. MainCalls' /\ OthersSpare'
    BY <1>2 DEF IInv, MainCalls, OthersSpare, mz_phy_reset, Gpo, Phys
  <1>5. ~Started'
    BY <1>1, <1>2 DEF Started, Finished
  <1>6. Turns' /\ ThreadsRelease'
    BY <1>1, <1>2, <1>5 DEF IInv, Turns, ThreadsRelease
  <1>7. Called("main")' = Called("main")
    BY <1>2 DEF Called
  <1>8. gpioi2c_outmirror' = gpioi2c_outmirror => Applied("main")' = Applied("main")
    BY <1>3, <1>7 DEF Applied
  <1>9. MainAlone'
    BY <1>2, <1>7, <1>8 DEF MainAlone
  <1>10. /\ Behind(5)' => Behind(5) \/ (step["main"] = 5 /\ p # "store")
         /\ Behind(7)' => Behind(7) \/ (step["main"] = 7 /\ p # "store")
    BY <1>2 DEF Behind
  <1>11. MirrorReleases'
    BY <1>3, <1>10 DEF MirrorReleases
  <1>. QED BY <1>4, <1>6, <1>9, <1>11 DEF IInv

\* A thread that leaves the mirror as it is can return if what it is at is done.
LEMMA MainBehind ==
    ASSUME IInv, iomap = "breakout", At("main", at["main"])
    PROVE  /\ step["main"] > 5 => "RST_PHY0" \in gpioi2c_outmirror
           /\ step["main"] > 7 => "RST_PHY1" \in gpioi2c_outmirror
  BY DEF IInv, MirrorReleases, Behind

-----------------------------------------------------------------------------
(* mz_platform_gposet *)

LEMMA IgnoredStep ==
    ASSUME IInv, NEW t \in Thread, Ignored(t), Rest(t)
    PROVE  IInv'
  <1>1. At(t, "call") /\ Return(t) /\ UNCHANGED pins
    BY DEF Ignored
  <1>2. TypeOK'
    BY <1>1, ReturnTypes DEF IInv, TypeOK, pins
  <1>3. CASE t = "main"
    <2>1. at["main"] = "call" /\ At("main", at["main"])
      BY <1>1, <1>3 DEF At
    <2>2. iomap = "breakout" => step["main"] # 5 /\ step["main"] # 7
      <3>. SUFFICES ASSUME iomap = "breakout", step["main"] \in {5, 7} PROVE FALSE
        OBVIOUS
      <3>1. Called("main").gpo \in Phys /\ Called("main").op \in MirrorOps
        <4>1. Called("main") = Gpo("RST_PHY0", "assert") \/ Called("main") = Gpo("RST_PHY1", "assert")
          BY <2>1, MainCalled
        <4>2. \A p \in Phys : Gpo(p, "assert").gpo \in Phys /\ Gpo(p, "assert").op = "assert"
          BY DEF Gpo
        <4>. QED BY <4>1, <4>2 DEF Phys, MirrorOps
      <3>. QED BY <1>3, <3>1, Boards DEF Ignored, Exists
    <2>3. step["main"] \in 1..8
      BY <2>1, AtCall DEF Thread
    <2>. QED BY <1>1, <1>2, <1>3, <2>1, <2>2, <2>3, MainBehind, MainReturn DEF pins
  <1>4. CASE t # "main"
    <2>1. Started /\ t \in Others
      BY <1>1, <1>4, AtCall
    <2>. QED BY <1>1, <1>2, <2>1, StartedHolds, OthersReturn DEF pins
  <1>. QED BY <1>3, <1>4

LEMMA WritePinStep ==
    ASSUME IInv, NEW t \in Thread, WritePin(t), Rest(t)
    PROVE  IInv'
  <1>1. /\ At(t, "call") /\ Return(t) /\ UNCHANGED <<gpioi2c_outmirror, expander>>
        /\ Called(t).gpo \in OnPs /\ level' \subseteq level \cup {Called(t).gpo}
        /\ driven' \subseteq driven \cup {Called(t).gpo}
    BY DEF WritePin
  <1>2. iomap = "extension" /\ Called(t).gpo \in Phys
    BY <1>1, Boards DEF OnPs
  <1>3. TypeOK'
    BY <1>1, ReturnTypes DEF IInv, TypeOK
  <1>4. t = "main" /\ At("main", at["main"])
    BY <1>1, <1>2, AtCall DEF At
  <1>. QED BY <1>1, <1>2, <1>3, <1>4, MainReturn
LEMMA LoadStep ==
    ASSUME IInv, NEW t \in Thread, Load(t), Rest(t)
    PROVE  IInv'
  <1>1. /\ At(t, "call") /\ Goto(t, "store", Applied(t)) /\ UNCHANGED pins
        /\ Called(t).gpo \in OnExpander /\ Called(t).op \in MirrorOps
    BY DEF Load, Exists
  <1>2. Applied(t) \in SUBSET OnExpander
    BY <1>1, AppliedFits
  <1>3. TypeOK'
    BY <1>1, <1>2, GotoTypes DEF IInv, TypeOK, pins
  <1>4. CASE t = "main"
    <2>1. at["main"] = "call" /\ At("main", at["main"])
      BY <1>1, <1>4 DEF At
    <2>2. (Behind(5) => step["main"] > 5) /\ (Behind(7) => step["main"] > 7)
      BY <2>1 DEF Behind
    <2>. QED BY <1>1, <1>3, <1>4, <2>1, <2>2, MainBehind, MainGoto DEF pins
  <1>5. CASE t # "main"
    <2>1. Started /\ t \in Others /\ Called(t).gpo \notin Phys
      BY <1>1, <1>5, AtCall
    <2>2. iomap = "breakout" => Phys \subseteq Applied(t)
      BY <2>1, StartedHolds, AppliedSpares
    <2>. QED BY <1>1, <1>3, <2>1, <2>2, StartedHolds, OthersGoto DEF pins
  <1>. QED BY <1>4, <1>5

\* What main_thread stores
LEMMA MainStores ==
    ASSUME IInv, At("main", "store")
    PROVE  /\ Called("main").op \in MirrorOps /\ step["main"] # 6 /\ step["main"] # 8
           /\ iomap = "breakout" /\ step["main"] >= 5 => "RST_PHY0" \in reg["main"]
           /\ iomap = "breakout" /\ step["main"] >= 7 => "RST_PHY1" \in reg["main"]
           /\ step["main"] \in {5, 7} => Called("main").op = "assert"
  <1>1. at["main"] = "store" /\ At("main", at["main"]) /\ step["main"] \in 1..8
    BY AtCall DEF Thread, At
  <1>2. reg["main"] = Applied("main") /\ Called("main").op \in MirrorOps
    BY <1>1 DEF IInv, MainAlone
  <1>3. step["main"] # 6 /\ step["main"] # 8
    <2>1. ~(Gpo("RST_PHY0", "disable").op \in MirrorOps) /\ ~(Gpo("RST_PHY1", "disable").op \in MirrorOps)
      BY DEF Gpo, MirrorOps
    <2>. QED BY <1>1, <1>2, <2>1, MainCalled
  <1>4. step["main"] = 5 => Called("main") = Gpo("RST_PHY0", "assert")
    BY <1>1, MainCalled
  <1>5. step["main"] = 7 => Called("main") = Gpo("RST_PHY1", "assert")
    BY <1>1, MainCalled
  <1>6. ASSUME step["main"] = 5 PROVE "RST_PHY0" \in reg["main"]
    BY <1>2, <1>4, <1>6, AppliedAsserts DEF Thread
  <1>7. ASSUME step["main"] = 7 PROVE reg["main"] = gpioi2c_outmirror \cup {"RST_PHY1"}
    BY <1>2, <1>5, <1>7, AppliedAsserts DEF Thread
  <1>8. step["main"] >= 5 => step["main"] = 5 \/ step["main"] = 7
    BY <1>1, <1>3
  <1>9. step["main"] \in {5, 7} => Called("main").op = "assert"
    BY <1>4, <1>5 DEF Gpo
  <1>10. iomap = "breakout" /\ step["main"] >= 5 => "RST_PHY0" \in reg["main"]
    <2>. SUFFICES ASSUME iomap = "breakout", step["main"] = 7 PROVE "RST_PHY0" \in reg["main"]
      BY <1>6, <1>8
    <2>1. "RST_PHY0" \in gpioi2c_outmirror
      BY <1>1, MainBehind
    <2>. QED BY <1>7, <2>1
  <1>11. iomap = "breakout" /\ step["main"] >= 7 => "RST_PHY1" \in reg["main"]
    <2>1. step["main"] >= 7 => step["main"] = 7
      BY <1>1, <1>3
    <2>. QED BY <1>7, <2>1
  <1>. QED BY <1>2, <1>3, <1>9, <1>10, <1>11

LEMMA StoreStep ==
    ASSUME IInv, NEW t \in Thread, Store(t), Rest(t)
    PROVE  IInv'
  <1>1. /\ At(t, "store") /\ gpioi2c_outmirror' = reg[t] /\ UNCHANGED <<expander, level, driven>>
        /\ \/ Called(t).op \in {"assert", "deassert"} /\ Goto(t, "update", {})
           \/ Called(t).op \notin {"assert", "deassert"} /\ Return(t)
    BY DEF Store
  <1>2. reg[t] \subseteq OnExpander /\ gpioi2c_outmirror' \subseteq OnExpander /\ at[t] = "store"
    BY <1>1 DEF IInv, TypeOK, At
  <1>3. TypeOK'
    <2>1. CASE Goto(t, "update", {})
      BY <1>1, <1>2, <2>1, GotoTypes
    <2>2. CASE Return(t)
      BY <1>1, <1>2, <2>2, ReturnTypes DEF IInv, TypeOK
    <2>. QED BY <1>1, <2>1, <2>2
  <1>4. CASE t = "main"
    <2>1. at["main"] = "store" /\ At("main", "store") /\ At("main", at["main"]) /\ step["main"] \in 1..8
      BY <1>1, <1>2, <1>4, AtCall
    <2>2. /\ iomap = "breakout" /\ step["main"] >= 5 => "RST_PHY0" \in gpioi2c_outmirror'
          /\ iomap = "breakout" /\ step["main"] >= 7 => "RST_PHY1" \in gpioi2c_outmirror'
      BY <1>1, <1>4, <2>1, MainStores
    <2>3. CASE Return(t)
      BY <1>3, <1>4, <2>1, <2>2, <2>3, MainReturn
    <2>4. CASE Goto(t, "update", {})
      <3>1. /\ Behind(5) \/ step["main"] = 5 => step["main"] >= 5
            /\ Behind(7) \/ step["main"] = 7 => step["main"] >= 7
        BY <2>1 DEF Behind
      <3>. QED BY <1>3, <1>4, <2>1, <2>2, <2>4, <3>1, MainGoto
    <2>. QED BY <1>1, <2>3, <2>4
  <1>5. CASE t # "main"
    <2>1. Started /\ t \in Others
      BY <1>1, <1>5, AtCall
    <2>2. iomap = "breakout" => Phys \subseteq gpioi2c_outmirror'
      BY <1>1, <1>2, <2>1 DEF IInv, ThreadsRelease
    <2>3. CASE Return(t)
      BY <1>3, <2>1, <2>2, <2>3, OthersReturn
    <2>4. CASE Goto(t, "update", {})
      <3>1. \A u \in Thread \ {t} : at'[u] = at[u] /\ reg'[u] = reg[u]
        BY <2>4, GotoLocal
      <3>2. calls' = calls /\ step' = step /\ at'[t] = "update"
        BY <2>4, GotoLocal
      <3>3. iomap' = iomap
        BY DEF Rest
      <3>. QED BY <1>3, <2>1, <2>2, <3>1, <3>2, <3>3, OthersMove
    <2>. QED BY <1>1, <2>3, <2>4
  <1>. QED BY <1>4, <1>5
LEMMA UpdateStep ==
    ASSUME IInv, NEW t \in Thread, mz_platform_gpoupdate(t), Rest(t)
    PROVE  IInv'
  <1>1. Goto(t, "send", gpioi2c_outmirror) /\ UNCHANGED pins
    BY DEF mz_platform_gpoupdate
  <1>2. gpioi2c_outmirror \in SUBSET OnExpander
    BY DEF IInv, TypeOK
  <1>3. TypeOK'
    BY <1>1, <1>2, GotoTypes DEF pins
  <1>4. PICK p \in {"call", "update"} :
            At(t, p) /\ at[t] = p /\ (p = "call" => Called(t).op = "update")
    BY DEF mz_platform_gpoupdate, At
  <1>5. CASE t = "main"
    <2>1. At("main", at["main"]) /\ step["main"] \in 1..8
      BY <1>4, <1>5, AtCall
    <2>2. step["main"] \in {5, 7} => p = "update"
      <3>1. step["main"] \in {5, 7} =>
                Called("main") = Gpo("RST_PHY0", "assert") \/ Called("main") = Gpo("RST_PHY1", "assert")
        BY <2>1, MainCalled
      <3>2. Gpo("RST_PHY0", "assert").op # "update" /\ Gpo("RST_PHY1", "assert").op # "update"
        BY DEF Gpo
      <3>. QED BY <1>4, <1>5, <3>1, <3>2
    <2>3. /\ Behind(5) \/ step["main"] = 5 => Behind(5)
          /\ Behind(7) \/ step["main"] = 7 => Behind(7)
      BY <1>4, <1>5, <2>2 DEF Behind
    <2>4. iomap = "breakout" => /\ Behind(5) => "RST_PHY0" \in gpioi2c_outmirror'
                                /\ Behind(7) => "RST_PHY1" \in gpioi2c_outmirror'
      BY <1>1 DEF IInv, MirrorReleases, pins
    <2>. QED BY <1>1, <1>3, <1>5, <2>1, <2>3, <2>4, MainGoto DEF pins
  <1>6. CASE t # "main"
    <2>1. Started /\ t \in Others
      BY <1>4, <1>6, AtCall
    <2>. QED BY <1>1, <1>3, <2>1, StartedHolds, OthersGoto DEF pins
  <1>. QED BY <1>5, <1>6

LEMMA SendStep ==
    ASSUME IInv, NEW t \in Thread, Sent(t) \/ NotSent(t), Rest(t)
    PROVE  IInv'
  <1>1. /\ At(t, "send") /\ Return(t) /\ UNCHANGED <<gpioi2c_outmirror, level, driven>>
        /\ expander' = expander \/ expander' = reg[t]
    BY DEF Sent, NotSent, pins
  <1>2. TypeOK'
    <2>1. reg[t] \subseteq OnExpander /\ expander \subseteq OnExpander
      BY DEF IInv, TypeOK
    <2>. QED BY <1>1, <2>1, ReturnTypes DEF IInv, TypeOK
  <1>3. CASE t = "main"
    <2>1. at["main"] = "send" /\ At("main", at["main"]) /\ step["main"] \in 1..8
      BY <1>1, <1>3, AtCall DEF At
    <2>2. /\ step["main"] >= 5 => Behind(5)
          /\ step["main"] >= 7 => Behind(7)
      BY <2>1 DEF Behind
    <2>3. iomap = "breakout" => /\ step["main"] >= 5 => "RST_PHY0" \in gpioi2c_outmirror'
                                /\ step["main"] >= 7 => "RST_PHY1" \in gpioi2c_outmirror'
      BY <1>1, <2>2 DEF IInv, MirrorReleases
    <2>. QED BY <1>1, <1>2, <1>3, <2>1, <2>3, MainReturn
  <1>4. CASE t # "main"
    <2>1. Started /\ t \in Others
      BY <1>1, <1>4, AtCall
    <2>. QED BY <1>1, <1>2, <2>1, StartedHolds, OthersReturn
  <1>. QED BY <1>3, <1>4

LEMMA CallStep ==
    ASSUME IInv, NEW t \in Thread, mz_platform_gposet(t)
    PROVE  IInv'
  <1>1. Rest(t)
    BY DEF mz_platform_gposet, Rest
  <1>2. CASE Ignored(t)
    BY <1>1, <1>2, IgnoredStep
  <1>3. CASE WritePin(t)
    BY <1>1, <1>3, WritePinStep
  <1>4. CASE Load(t)
    BY <1>1, <1>4, LoadStep
  <1>5. CASE Store(t)
    BY <1>1, <1>5, StoreStep
  <1>6. CASE mz_platform_gpoupdate(t)
    BY <1>1, <1>6, UpdateStep
  <1>7. CASE Sent(t) \/ NotSent(t)
    BY <1>1, <1>7, SendStep
  <1>. QED BY <1>2, <1>3, <1>4, <1>5, <1>6, <1>7 DEF mz_platform_gposet

-----------------------------------------------------------------------------
(* The loops *)

LEMMA BeginStep ==
    ASSUME IInv, NEW t \in Others, NEW s, IsPass(s), Begin(t, s),
           mz_lscan' \in 0..6, passes' \in 0..Passes
    PROVE  IInv'
  <1>. t \in Thread /\ t # "main" /\ "main" \in Thread
    BY DEF Thread, Others
  <1>1. Started /\ UNCHANGED <<at, reg, iomap, pins, javascope_data_status>>
    BY DEF Begin
  <1>2. /\ calls'[t] = s /\ step'[t] = 1
        /\ \A u \in Thread \ {t} : calls'[u] = calls[u] /\ step'[u] = step[u]
    BY DEF Begin, IInv, TypeOK
  <1>3. calls' \in [Thread -> Seq(Call)] /\ step' \in [Thread -> Nat]
    BY DEF Begin, IInv, TypeOK, IsPass, Call
  <1>4. \A u \in Thread : step'[u] \in 1..(Len(calls'[u]) + 1)
    <2>1. Len(s) \in Nat
      BY DEF IsPass
    <2>2. 1 \in 1..(Len(s) + 1)
      BY <2>1
    <2>. QED BY <1>2, <2>2 DEF IInv, TypeOK
  <1>5. OnExpander' = OnExpander /\ OnPs' = OnPs
    BY <1>1 DEF OnExpander, OnPs
  <1>6. TypeOK'
    BY <1>1, <1>3, <1>4, <1>5 DEF IInv, TypeOK, pins, Call
  <1>7. MainCalls'
    BY <1>2 DEF IInv, MainCalls, mz_phy_reset, Gpo
  <1>8. OthersSpare'
    BY <1>2 DEF IInv, OthersSpare, IsPass, Phys, Thread, Others
  <1>9. Started'
    BY <1>1, <1>2 DEF Started, Finished
  <1>10. Turns' /\ MainAlone'
    BY <1>1, <1>9 DEF IInv, Turns, MainAlone
  <1>11. MirrorReleases' /\ ThreadsRelease'
    BY <1>1, <1>9, StartedHolds DEF IInv, MirrorReleases, ThreadsRelease, Phys, pins
  <1>. QED BY <1>6, <1>7, <1>8, <1>10, <1>11 DEF IInv
LEMMA InterruptStep ==
    ASSUME IInv, Transfer_ipc_Intr_Handler
    PROVE  IInv'
  <1>1. UNCHANGED <<iomap, pins, threads, mz_lscan, passes>> /\ javascope_data_status' \subseteq Panel
    BY DEF Transfer_ipc_Intr_Handler
  <1>2. TypeOK' /\ MainCalls' /\ OthersSpare' /\ Turns' /\ MirrorReleases' /\ ThreadsRelease'
    <2>1. TypeOK'
      BY <1>1 DEF IInv, TypeOK, pins, threads, OnExpander, OnPs
    <2>2. MainCalls' /\ OthersSpare' /\ Turns'
      BY <1>1 DEF IInv, MainCalls, OthersSpare, Turns, threads, Started, Finished, mz_phy_reset, Gpo, Phys
    <2>3. MirrorReleases' /\ ThreadsRelease'
      BY <1>1 DEF IInv, MirrorReleases, ThreadsRelease, Behind, pins, threads, Started, Finished, Phys
    <2>. QED BY <2>1, <2>2, <2>3
  <1>3. MainAlone'
    <2>. SUFFICES ASSUME at["main"] = "store" PROVE MainAlone'
      BY <1>1 DEF MainAlone, threads
    <2>1. ~Started /\ reg["main"] = Applied("main") /\ Called("main").op \in MirrorOps
      BY DEF IInv, Turns, MainAlone
    <2>2. At("main", "store")
      BY <2>1 DEF At, Started
    <2>3. Called("main").op # "show queued"
      BY <2>1, <2>2, MainNeverShows, AtCall DEF IInv, MainCalls, Called, Thread
    <2>4. Called("main")' = Called("main")
      BY <1>1 DEF Called, threads
    <2>5. Applied("main")' = Applied("main")
      BY <1>1, <2>3, <2>4 DEF Applied, pins
    <2>. QED BY <1>1, <2>1, <2>4, <2>5 DEF MainAlone, threads
  <1>. QED BY <1>2, <1>3 DEF IInv

-----------------------------------------------------------------------------
(* The theorems *)

LEMMA InitIInv == Init => IInv
  <1>. SUFFICES ASSUME Init PROVE IInv
    OBVIOUS
  <1>1. /\ calls["main"] = mz_phy_reset /\ calls["network"] = NetworkSetup /\ calls["i2cio"] = <<>>
        /\ calls = [t \in Thread |-> calls[t]]
        /\ step = [t \in Thread |-> 1] /\ at = [t \in Thread |-> "call"] /\ reg = [t \in Thread |-> {}]
    BY DEF Init, Thread
  <1>2. ~Started
    BY <1>1, MainScript DEF Started, Finished, Thread
  <1>3. calls \in [Thread -> Seq(Call)]
    <2>1. \A t \in Thread : calls[t] \in Seq(Call)
      <3>1. mz_phy_reset \in Seq(Call) /\ NetworkSetup \in Seq(Call)
        BY MainScript, NetworkSetupIsPass DEF IsPass
      <3>2. <<>> \in Seq(Call)
        OBVIOUS
      <3>. QED BY <1>1, <3>1, <3>2 DEF Thread
    <2>. QED BY <1>1, <2>1
  <1>4. \A t \in Thread : step[t] \in 1..(Len(calls[t]) + 1)
    <2>. TAKE t \in Thread
    <2>1. Len(calls[t]) \in Nat /\ step[t] = 1
      BY <1>1, <1>3
    <2>. QED BY <2>1
  <1>5. TypeOK
    <2>1. /\ iomap \in {"extension", "breakout"} /\ gpioi2c_outmirror \subseteq OnExpander
          /\ expander \subseteq OnExpander /\ level \subseteq OnPs /\ driven \subseteq OnPs
          /\ javascope_data_status \subseteq Panel /\ mz_lscan \in 0..6
      BY DEF Init
    <2>2. passes \in 0..Passes
      BY BoardAssumption DEF Init
    <2>3. /\ step \in [Thread -> Nat] /\ at \in [Thread -> {"call", "store", "update", "send"}]
          /\ reg \in [Thread -> SUBSET OnExpander]
      BY <1>1
    <2>. QED BY <1>3, <1>4, <2>1, <2>2, <2>3 DEF TypeOK, Call
  <1>6. OthersSpare
    BY <1>1, NetworkSetupIsPass DEF OthersSpare, Others, IsPass
  <1>7. MainCalls /\ Turns /\ MainAlone /\ ThreadsRelease
    BY <1>1, <1>2 DEF MainCalls, Turns, MainAlone, ThreadsRelease, Thread, Others
  <1>8. MirrorReleases
    BY <1>1 DEF MirrorReleases, Behind, Thread
  <1>. QED BY <1>5, <1>6, <1>7, <1>8 DEF IInv

LEMMA NextIInv == IInv /\ [Next]_vars => IInv'
  <1>. SUFFICES ASSUME IInv, [Next]_vars PROVE IInv'
    OBVIOUS
  <1>1. CASE \E t \in Thread : mz_platform_gposet(t)
    BY <1>1, CallStep
  <1>2. CASE network_thread
    <2>1. mz_lscan \in 0..6 /\ (mz_lscan % 6) + 1 \in 0..6
      BY DEF IInv, TypeOK
    <2>2. IsPass(NetworkPass)
      BY <2>1, NetworkPassIsPass
    <2>3. Begin("network", NetworkPass) /\ mz_lscan' \in 0..6 /\ passes' \in 0..Passes
      BY <1>2, <2>1, BoardAssumption DEF network_thread
    <2>. QED BY <2>2, <2>3, BeginStep DEF Others
  <1>3. CASE i2cio_thread
    <2>1. Begin("i2cio", I2cioPass) /\ mz_lscan' \in 0..6 /\ passes' \in 0..Passes
      BY <1>3 DEF i2cio_thread, IInv, TypeOK
    <2>. QED BY <2>1, I2cioPassIsPass, BeginStep DEF Others
  <1>4. CASE Transfer_ipc_Intr_Handler
    BY <1>4, InterruptStep
  <1>5. CASE UNCHANGED vars
    <2>1. TypeOK'
      BY <1>5 DEF IInv, TypeOK, vars, pins, threads, OnExpander, OnPs
    <2>2. MainCalls' /\ OthersSpare' /\ Turns'
      BY <1>5 DEF IInv, MainCalls, OthersSpare, Turns, vars, threads, Started, Finished, mz_phy_reset, Gpo, Phys
    <2>3. MirrorReleases' /\ ThreadsRelease'
      BY <1>5 DEF IInv, MirrorReleases, ThreadsRelease, Behind, vars, pins, threads, Started, Finished, Phys
    <2>4. MainAlone'
      BY <1>5 DEF IInv, MainAlone, Applied, Called, vars, pins, threads
    <2>. QED BY <2>1, <2>2, <2>3, <2>4 DEF IInv
  <1>. QED BY <1>1, <1>2, <1>3, <1>4, <1>5 DEF Next

\* What the threads store and send of the mirror is as the invariant says, in
\* every reachable state.
THEOREM Invariance == Spec => []IInv
  BY InitIInv, NextIInv, PTL DEF Spec

\* The mirror, the expander and what the threads hold have only GPOs of this board.
THEOREM TypeCorrect == Spec => []TypeOK
  <1>1. IInv => TypeOK
    BY DEF IInv
  <1>. QED BY <1>1, Invariance, PTL

\* A call of mz_platform_gposet leaves the PHYs that main_thread has released.
LEMMA CallSpares ==
    ASSUME IInv, Started, NEW t \in Thread, mz_platform_gposet(t), NEW p \in Phys, ~InReset(p)
    PROVE  ~InReset(p)'
  <1>1. OnPs' = OnPs /\ (iomap = "extension" => p \in OnPs) /\ (iomap = "breakout" => OnPs = {})
    BY Boards DEF mz_platform_gposet, OnPs
  <1>2. iomap = "extension" \/ iomap = "breakout"
    BY DEF IInv, TypeOK
  <1>3. UNCHANGED <<level, driven>>
    <2>1. ~WritePin(t)
      <3>. SUFFICES ASSUME WritePin(t) PROVE FALSE
        OBVIOUS
      <3>1. At(t, "call") /\ Called(t).gpo \in OnPs
        BY DEF WritePin
      <3>2. Called(t).gpo \notin Phys
        BY <3>1, AtCall
      <3>. QED BY <3>1, <3>2, Boards
    <2>. QED BY <2>1 DEF mz_platform_gposet, Ignored, Load, Store, mz_platform_gpoupdate, Sent, NotSent, pins
  <1>4. expander' = expander \/ (expander' = reg[t] /\ at[t] = "send")
    <2>1. CASE Sent(t)
      BY <2>1 DEF Sent, At
    <2>2. CASE WritePin(t)
      BY <2>2 DEF WritePin
    <2>3. CASE ~Sent(t) /\ ~WritePin(t)
      BY <2>3 DEF mz_platform_gposet, Ignored, Load, Store, mz_platform_gpoupdate, NotSent, pins
    <2>. QED BY <2>1, <2>2, <2>3
  <1>5. iomap = "breakout" /\ at[t] = "send" => p \in reg[t]
    BY DEF IInv, ThreadsRelease
  <1>6. CASE iomap = "extension"
    BY <1>1, <1>3, <1>6 DEF InReset
  <1>7. CASE iomap = "breakout"
    BY <1>1, <1>4, <1>5, <1>7 DEF InReset
  <1>. QED BY <1>2, <1>6, <1>7

\* mz_phy_reset.c: no thread puts a PHY back into reset that main_thread has released.
THEOREM PhysReleasedStay == Spec => PhyStaysReleased
  <1>1. IInv /\ [Next]_vars => [\A p \in Phys : Started /\ ~InReset(p) => ~InReset(p)']_vars
    <2>. SUFFICES ASSUME IInv, [Next]_vars, NEW p \in Phys, Started, ~InReset(p)
                  PROVE  ~InReset(p)'
      OBVIOUS
    <2>1. CASE \E t \in Thread : mz_platform_gposet(t)
      BY <2>1, CallSpares
    <2>2. CASE UNCHANGED <<iomap, pins>>
      BY <2>2 DEF InReset, OnPs, pins
    <2>. QED BY <2>1, <2>2 DEF Next, network_thread, i2cio_thread, Begin,
                               Transfer_ipc_Intr_Handler, vars
  <1>. QED BY <1>1, Invariance, PTL DEF Spec, PhyStaysReleased
=============================================================================
