-------------------------------- MODULE LkDsi --------------------------------
(***************************************************************************)
(* MIPI DSI panels (mipi_dsi.c, mipi_dsi.h, mdp3.c, mdp4.c).  The panel is *)
(* set up by a table of packets, each copied to one stack buffer and       *)
(* fetched from there by a DMA engine the driver polls for a bounded time; *)
(* then a video panel is scanned by the display processor, a command panel *)
(* gets one frame per call.                                                *)
(***************************************************************************)
EXTENDS LkDevice, Integers, Sequences, TLC

CONSTANT Timing     \* frame size and porches of a panel (target/display.h)

\* A frame has lines and pixels, and a line starts with a back porch; the
\* other porches may be empty.
ASSUME FrameTiming ==
    /\ {Timing.w, Timing.h, Timing.hbp} \subseteq Nat \ {0}
    /\ {Timing.hfp, Timing.vfp, Timing.vbp} \subseteq Nat

-----------------------------------------------------------------------------
(* The packets: a register, the word count of its header (0: short packet) *)
(* and the size of the array.  A name that has no entry is a short packet. *)

Packets(long, order) ==
    [i \in DOMAIN order |->
        LET s == IF order[i] \in DOMAIN long THEN long[order[i]] ELSE <<0, 4>>
        IN  [reg |-> order[i], wc |-> s[1], size |-> s[2]]]

toshiba_panel ==
    [mcap_off |-> <<2, 8>>, ena_test_reg |-> <<3, 8>>, num_of_1lane |-> <<3, 8>>,
     non_burst_sync_pulse |-> <<3, 8>>, set_DMODE_WVGA |-> <<2, 8>>,
     set_intern_WR_clk1_wvga |-> <<3, 8>>, set_intern_WR_clk2_wvga |-> <<3, 8>>,
     set_hor_addr_2A_wvga |-> <<5, 12>>, set_hor_addr_2B_wvga |-> <<5, 12>>,
     IFSEL |-> <<2, 8>>]

toshiba_panel_video_mode_cmds == Packets(toshiba_panel,
    <<"mcap_off", "ena_test_reg", "num_of_1lane", "non_burst_sync_pulse",
      "set_DMODE_WVGA", "set_intern_WR_clk1_wvga", "set_intern_WR_clk2_wvga",
      "set_hor_addr_2A_wvga", "set_hor_addr_2B_wvga", "IFSEL", "exit_sleep",
      "display_on", "color_mode_on", "color_mode_off">>)

novatek_panel ==
    [reg_8c |-> <<16, 20>>, set_width |-> <<5, 12>>, set_height |-> <<5, 12>>,
     led_pwm1 |-> <<2, 8>>, led_pwm2 |-> <<2, 8>>, led_pwm3 |-> <<2, 8>>]

novatek_panel_cmd_mode_cmds == Packets(novatek_panel,
    <<"sw_reset", "exit_sleep", "display_on", "max_packet", "f4", "reg_8c", "ff",
      "set_twolane", "set_width", "set_height", "rgb_888", "led_pwm1",
      "led_pwm2", "led_pwm3">>)

toshiba_mdt61 ==
    [num_out_pixelform |-> <<3, 8>>, dsi_ctrl |-> <<3, 8>>, panel_driving |-> <<7, 12>>,
     dispV_timing |-> <<5, 12>>, dispCtrl |-> <<3, 8>>, dispH_timing |-> <<15, 20>>,
     gamma_setA |-> <<13, 20>>, gamma_setB |-> <<13, 20>>, gamma_setC |-> <<13, 20>>]

toshiba_mdt61_power ==
    [ChrgPmp |-> <<5, 12>>, d1 |-> <<6, 12>>, SrcAmp |-> <<3, 8>>, PS |-> <<3, 8>>,
     d7 |-> <<9, 16>>, d8 |-> <<7, 12>>, d9 |-> <<4, 8>>, white_balance |-> <<6, 12>>,
     e3 |-> <<5, 12>>, e4 |-> <<6, 12>>, fa |-> <<4, 8>>, fd |-> <<5, 12>>,
     fe |-> <<5, 12>>]

toshiba_mdt61_video_mode_cmds ==
    Packets(toshiba_mdt61,
        <<"mcap_start", "num_out_pixelform", "dsi_ctrl", "panel_driving",
          "dispV_timing", "dispCtrl", "test_mode_c4", "dispH_timing",
          "test_mode_c6", "gamma_setA", "gamma_setB", "gamma_setC">>)
    \o Packets(toshiba_mdt61_power,
        <<"ChrgPmp", "d1", "SrcAmp", "PS", "vreg", "d6", "d7", "d8", "d9",
          "white_balance", "vcs", "vcom_dc", "e3", "e4", "e5", "fa", "fd", "fe",
          "mcap_end", "set_add_mode", "set_pixel_format", "exit_sleep",
          "display_on">>)

-----------------------------------------------------------------------------
(* Renesas: the bridge's own registers, then the controller behind it,     *)
(* written indirectly: select the index port, latch the index, strobe,     *)
(* select the data port, latch the value, strobe.                          *)

renesas_bridge ==
    [WRTXHT |-> <<7, 12>>, WRTXVT |-> <<7, 12>>, CASET |-> <<7, 12>>, PASET |-> <<7, 12>>]

renesas_transmitter == Packets(renesas_bridge,
    <<"sleep_out", "CMD_MODE", "WRTXHT", "WRTXVT", "PLL2NR", "PLL2NF1", "PLL2NF2",
      "PLL2BWADJ1", "PLL2BWADJ2", "PLL2CTL", "DBICBR", "DBICTYPE", "DBICSET1",
      "DBICADD", "DBICCTL", "COLMOD_888", "MADCTL", "DBIOC", "CASET", "PASET",
      "TXON", "BLSET_TM", "AGCPSCTL_TM">>)

\* config_<r>_indx and config_<r>_cmd of every register named.
Indirect(regs) ==
    LET Direct(r) == [reg |-> r, wc |-> 0, size |-> 4]
        Latched(r) == [reg |-> r, wc |-> 3, size |-> 8]
        Both(r) == <<Direct("DBICADD70"), Latched("indx"), Direct("DBICSET_15"),
                     Direct("DBICADD72"), Latched(r), Direct("DBICSET_15")>>
    IN  [i \in 1..6 * Len(regs) |-> Both(regs[((i - 1) \div 6) + 1])[((i - 1) % 6) + 1]]

renesas_display == Indirect(
    <<"Power_Ctrl_1a", "Power_Ctrl_2a", "Auto_Sequencer_Setting_a",
      "Driver_Output_Ctrl", "LCD_drive_AC_Ctrl", "Entry_Mode", "Display_Ctrl_1",
      "Display_Ctrl_2", "Display_Ctrl_3", "Display_IF_Ctrl_1">>)

renesas_panel_if == Indirect(
    <<"Display_IF_Ctrl_2", "Panel_IF_Ctrl_1", "Panel_IF_Ctrl_3", "Panel_IF_Ctrl_4",
      "Panel_IF_Ctrl_5", "Panel_IF_Ctrl_6", "Panel_IF_Ctrl_8", "Panel_IF_Ctrl_9">>)

renesas_gamma_low == Indirect(<<"00", "01", "02", "03", "04", "05", "06", "07", "08", "09">>)
renesas_gamma_mid == Indirect(<<"0A", "0B", "0C", "0D", "10", "11", "12", "15", "16", "17">>)
renesas_gamma_high == Indirect(<<"18", "19", "1C", "1D", "20", "21", "22", "27", "28", "29">>)

renesas_power == Indirect(
    <<"Power_Ctrl_1b", "Power_Ctrl_2b", "Power_Ctrl_3a", "Power_Ctrl_4a",
      "Power_Ctrl_6a", "Auto_Sequencer_Setting_b", "Panel_IF_Ctrl_10a",
      "Auto_Sequencer_Setting_c", "Power_Ctrl_2c">>)

renesas_panel_video_mode_cmds ==
    renesas_transmitter \o renesas_display \o renesas_panel_if \o renesas_gamma_low
    \o renesas_gamma_mid \o renesas_gamma_high \o renesas_power
    \o Packets(<<>>, <<"VIDEO">>)

-----------------------------------------------------------------------------
(* NT35510: two pages of registers; packet 0 selects page 1, 15 page 0.    *)

Numbered(shapes, first) ==
    [i \in DOMAIN shapes |-> [reg |-> ToString(first + i - 1),
                              wc |-> shapes[i][1], size |-> shapes[i][2]]]

\* Page select, three supplies, six gamma curves, five more supplies.
nt35510_video_page1 == Numbered(
    <<<<6, 12>>, <<4, 8>>, <<4, 8>>, <<3, 8>>>> \o [i \in 1..6 |-> <<53, 60>>]
    \o [i \in 1..5 |-> <<4, 8>>], 0)

nt35510_video_page0 == Numbered(
    <<<<6, 12>>, <<2, 8>>, <<2, 8>>, <<2, 8>>, <<3, 8>>, <<4, 8>>, <<3, 8>>,
      <<5, 12>>, <<19, 24>>, <<6, 12>>, <<6, 12>>, <<6, 12>>, <<2, 8>>>>, 15)

nt35510_panel_video_mode_cmds ==
    nt35510_video_page1 \o nt35510_video_page0
    \o Packets(<<>>, <<"exit_sleep", "display_on">>)

\* The command-mode arrays have the same shapes.
nt35510_cmd_page1 == nt35510_video_page1
nt35510_cmd_page0 == nt35510_video_page0

nt35510_panel_cmd_mode_cmds ==
    nt35510_cmd_page1 \o nt35510_cmd_page0
    \o Packets(<<>>, <<"exit_sleep", "display_on", "MADCTL", "write_ram">>)

nt35510_panel_manufacture_id_cmds ==
    SubSeq(nt35510_cmd_page1, 1, 1) \o Packets(<<>>, <<"set_pkt_size", "manufacture_id">>)

novatek_panel_manufacture_id_cmd == Packets(<<>>, <<"manufacture_id">>)

-----------------------------------------------------------------------------
(* The panels.  video is the number of lanes driven in video mode; for     *)
(* mdt61, renesas and nt35510 it is set by functions outside the sources.  *)

PanelInfo(mode, lanes, video, mdp3, cmds, id) ==
    [mode |-> mode, lanes |-> lanes, video |-> video, mdp3 |-> mdp3, cmds |-> cmds, id |-> id]

panel_info ==
    [toshiba |-> PanelInfo("video", 1, 1, FALSE, toshiba_panel_video_mode_cmds, <<>>),
     novatek |-> PanelInfo("cmd", 2, 2, FALSE, novatek_panel_cmd_mode_cmds,
                           novatek_panel_manufacture_id_cmd),
     mdt61   |-> PanelInfo("video", 3, 3, FALSE, toshiba_mdt61_video_mode_cmds, <<>>),
     renesas |-> PanelInfo("video", 2, 2, TRUE, renesas_panel_video_mode_cmds, <<>>),
     renesas_7x25a |-> PanelInfo("video", 1, 1, TRUE, renesas_panel_video_mode_cmds, <<>>),
     nt35510_video |-> PanelInfo("video", 2, 2, TRUE, nt35510_panel_video_mode_cmds, <<>>),
     nt35510_cmd |-> PanelInfo("cmd", 2, 2, TRUE, nt35510_panel_cmd_mode_cmds,
                               nt35510_panel_manufacture_id_cmds)]

Lanes(n) == <<"1 lane", "2 lanes", "3 lanes">>[n]
AllLanes == {Lanes(n) : n \in 1..3}

Info == panel_info[part.panel]
Sending == IF cpu.list = "panel" THEN Info.cmds ELSE Info.id

\* A packet the link sends whole: its size is that of the header and of the
\* padded payload, and it fits the 256 bytes of pload wherever those start.
Whole(p) == /\ p.size <= 256 - 7
            /\ p.size = 4 * ((4 + p.wc + 3) \div 4)

\* Every table has a packet, and every packet of it is sent whole.
ASSUME TablesAreWhole ==
    \A p \in DOMAIN panel_info :
        LET cmds == panel_info[p].cmds
        IN  Len(cmds) \in Nat \ {0} /\ \A i \in 1..Len(cmds) : Whole(cmds[i])

\* What is left in pload once mipi_dsi_cmds_tx has returned.
Junk == [reg |-> "junk", wc |-> 0, size |-> 0]

\* The panel receives packet p: the table's next one; after a wrong one it is
\* set up wrongly whatever follows.
Receives(seen, p) ==
    LET n == seen[1].n + 1
    IN  IF seen[1].op # "wrong" /\ n <= Len(Info.cmds) /\ p = Info.cmds[n] /\ Whole(p)
          THEN [seen EXCEPT ![1].n = n]
          ELSE <<Op("wrong", 0)>>

-----------------------------------------------------------------------------
mipi_dsi_phy_ctrl_config(h) == [h EXCEPT !.up = @ \cup {"pll"}]

mipi_dsi_panel_initialize(h) ==
    [h EXCEPT !.up = (@ \ AllLanes) \cup {"clk", "ctrl", Lanes(Info.lanes)}]

mipi_init ==
    /\ At("dsi", "idle") /\ drv.state = "new"
    /\ hw' = [mipi_dsi_panel_initialize(mipi_dsi_phy_ctrl_config(hw))
                 EXCEPT !.seen = <<Op("sent", 0)>>]
    /\ cpu' = [Begins("tx", <<Op("sent", Len(Info.cmds))>>)
                 EXCEPT !.list = "panel", !.i = 1, !.status = 0]
    /\ drv' = [drv EXCEPT !.state = "up"]
    /\ UNCHANGED <<part, left, hist>>

\* Mutant: the done flag of the packet before is not cleared.
TriggerKeepsDone ==
    /\ At("dsi", "tx")
    /\ hw' = [hw EXCEPT !.buf = Sending[cpu.i], !.dma = @ + 1]
    /\ cpu' = [cpu EXCEPT !.pc = "poll"]
    /\ UNCHANGED <<part, drv, left, hist>>

\* Copy the packet, clear the done flag, trigger.
mipi_dsi_cmds_tx ==
    /\ At("dsi", "tx")
    /\ hw' = [hw EXCEPT !.buf = Sending[cpu.i], !.dma = @ + 1, !.done = FALSE]
    /\ cpu' = [cpu EXCEPT !.pc = "poll"]
    /\ UNCHANGED <<part, drv, left, hist>>

DmaPowered == {"clk", "pll", "ctrl"} \subseteq hw.up

\* The engine fetches what the buffer holds when it gets to it; only what it
\* sends while the table is being sent counts as the table's effect.
DmaRuns ==
    /\ part.kind = "dsi" /\ hw.dma > 0 /\ ~hw.slow /\ DmaPowered
    /\ hw' = [hw EXCEPT !.dma = @ - 1, !.done = TRUE,
                        !.seen = IF cpu.list = "panel" THEN Receives(@, hw.buf) ELSE @]
    /\ UNCHANGED <<part, drv, cpu, left, hist>>

\* The link is busy for longer than the driver polls.
SlowDma ==
    /\ At("dsi", "poll") /\ hw.dma > 0 /\ ~hw.slow /\ ~hw.done /\ Takes("faults")
    /\ hw' = [hw EXCEPT !.slow = TRUE]
    /\ UNCHANGED <<part, drv, cpu, hist>>

\* Where mipi_init goes when a list has been sent.
AfterList ==
    IF cpu.list = "panel" /\ part.id /\ Info.id # <<>> THEN "bta" ELSE Info.mode

\* The statuses are added up and the next packet follows in any case; the
\* statuses of the manufacture id are ignored, and so is the sum: mipi_init
\* returns the frame buffer whatever it is.
NextPacket(status) ==
    /\ cpu' = [cpu EXCEPT !.status = IF cpu.list = "panel" THEN @ + status ELSE @,
                          !.i = @ + 1,
                          !.pc = IF cpu.i < Len(Sending) THEN "tx" ELSE AfterList]
    /\ hw' = [hw EXCEPT !.slow = FALSE, !.buf = IF cpu.i < Len(Sending) THEN @ ELSE Junk]

dsi_cmd_dma_trigger_for_panel ==
    /\ At("dsi", "poll")
    /\ \/ hw.done /\ NextPacket(0)
       \/ ~hw.done /\ (hw.slow \/ ~DmaPowered) /\ NextPacket(1)
    /\ UNCHANGED <<part, drv, left, hist>>

\* mipi_dsi_cmd_bta_sw_trigger and the manufacture id: results unused.
mipi_manufacture_id ==
    /\ At("dsi", "bta")
    /\ cpu' = [cpu EXCEPT !.pc = "tx", !.list = "id", !.i = 1]
    /\ UNCHANGED <<part, hw, drv, left, hist>>

-----------------------------------------------------------------------------
(* Video mode.                                                             *)

\* The engine starts no other frame; the one it is in goes on to its end.
mdp_disable(h) == [h EXCEPT !.enabled = FALSE]

\* The display processor and the link's clocks go off ...
VideoOff ==
    /\ At("dsi", "video")
    /\ hw' = [mdp_disable(hw) EXCEPT !.up = @ \ {"clk"}]
    /\ cpu' = [cpu EXCEPT !.pc = "config"]
    /\ UNCHANGED <<part, drv, left, hist>>

\* ... and the clocks come back one by one before the engine is set up.
config_dsi_video_mode ==
    /\ At("dsi", "config")
    /\ hw' = [hw EXCEPT !.up = (@ \ AllLanes) \cup {"clk", "ctrl", Lanes(Info.video)}]
    /\ cpu' = [cpu EXCEPT !.pc = "mdp"]
    /\ UNCHANGED <<part, drv, left, hist>>

\* Mutant: the last pixel of a line is taken for the number of pixels.
WindowOneTooFar(t) ==
    LET hp == t.w + t.hfp + t.hbp + 1
    IN  [hp |-> hp, hs |-> t.hbp, he |-> t.w + t.hbp,
         vp |-> (t.h + t.vfp + t.vbp + 1) * hp,
         vs |-> t.vbp * hp, ve |-> (t.h + t.vbp) * hp]

mdp_window(t) ==
    LET hp == t.w + t.hfp + t.hbp + 1
    IN  [hp |-> hp, hs |-> t.hbp, he |-> t.w + t.hbp - 1,
         vp |-> (t.h + t.vfp + t.vbp + 1) * hp,
         vs |-> t.vbp * hp, ve |-> (t.h + t.vbp) * hp]

\* mdp3.c programs the same window.
mdp3_window(t) == mdp_window(t)

mdp_setup_dma_p_video_mode ==
    /\ At("dsi", "mdp")
    /\ hw' = [hw EXCEPT !.win = IF Info.mdp3 THEN mdp3_window(part.t) ELSE mdp_window(part.t),
                        !.enabled = TRUE, !.scan = TRUE, !.done = FALSE]
    /\ cpu' = [cpu EXCEPT !.pc = "lane"]
    /\ UNCHANGED <<part, drv, left, hist>>

\* The first frame has gone over the lanes.
LaneRuns ==
    /\ At("dsi", "lane") /\ hw.scan /\ DmaPowered /\ ~hw.slow /\ ~hw.done
    /\ hw' = [hw EXCEPT !.done = TRUE]
    /\ UNCHANGED <<part, drv, cpu, left, hist>>

SlowLane ==
    /\ At("dsi", "lane") /\ ~hw.slow /\ ~hw.done /\ Takes("faults")
    /\ hw' = [hw EXCEPT !.slow = TRUE]
    /\ UNCHANGED <<part, drv, cpu, hist>>

\* Bounded poll; its status is dropped with the sum.
mipi_dsi_video_config ==
    /\ At("dsi", "lane") /\ (hw.done \/ hw.slow)
    /\ hw' = [hw EXCEPT !.slow = FALSE]
    /\ Return("void")
    /\ UNCHANGED <<part, drv, left, hist>>

-----------------------------------------------------------------------------
(* Command mode: the frame is sent by a call of its own.                   *)

cmd_mode_enabled ==
    /\ At("dsi", "cmd")
    /\ drv' = [drv EXCEPT !.cmd_mode_status = TRUE]
    /\ Return("void")
    /\ UNCHANGED <<part, hw, left, hist>>

mipi_dsi_cmd_config(t) ==
    [hp |-> t.w, hs |-> 0, he |-> t.w - 1, vp |-> t.w * t.h, vs |-> 0, ve |-> t.w * t.h - 1]

mipi_dsi_cmd_mode_trigger ==
    /\ At("dsi", "idle") /\ drv.state = "up" /\ drv.cmd_mode_status /\ Takes("jobs")
    /\ hw' = [hw EXCEPT !.win = mipi_dsi_cmd_config(part.t)]
    /\ cpu' = [Begins("frame", <<Op("frame", 1)>>) EXCEPT !.list = "frame"]
    /\ UNCHANGED <<part, drv, hist>>

\* Nothing waits for the last frame to have been sent, but 50 ms pass, which
\* is longer than a frame takes.
CutClocks ==
    /\ At("dsi", "frame") /\ ~hw.scan
    /\ hw' = [hw EXCEPT !.up = @ \ {"clk"}, !.seen = <<>>]
    /\ cpu' = [cpu EXCEPT !.pc = "frame_config"]
    /\ UNCHANGED <<part, drv, left, hist>>

\* Clocks, two lanes, start the DMA, trigger; the call does not wait.
config_dsi_cmd_mode ==
    /\ At("dsi", "frame_config")
    /\ hw' = [hw EXCEPT !.up = (@ \ AllLanes) \cup {"clk", "ctrl", Lanes(2)},
                        !.scan = TRUE, !.unsettled = TRUE]
    /\ Return("void")
    /\ UNCHANGED <<part, drv, left, hist>>

\* A video engine that is enabled starts the next frame at once.
FrameEnds ==
    /\ part.kind = "dsi" /\ hw.scan /\ ~hw.enabled
    /\ hw' = [hw EXCEPT !.scan = FALSE, !.unsettled = FALSE,
                        !.seen = IF cpu.list = "frame" THEN <<Op("frame", 1)>> ELSE @]
    /\ UNCHANGED <<part, drv, cpu, left, hist>>

-----------------------------------------------------------------------------
\* keep is CONT_SPLASH_SCREEN, a choice of the build.
mdp_shutdown ==
    /\ At("dsi", "idle") /\ drv.state = "up"
    /\ \E keep \in BOOLEAN :
          /\ hw' = IF keep THEN hw ELSE mdp_disable(hw)
          /\ drv' = [drv EXCEPT !.state = IF keep THEN "splash" ELSE "down"]
    /\ cpu' = [Begins("off", <<>>) EXCEPT !.list = "off"]
    /\ UNCHANGED <<part, left, hist>>

\* Mutant: no pause before the clocks are cut.
ShutdownAtOnce ==
    /\ At("dsi", "off")
    /\ hw' = [hw EXCEPT !.seen = <<>>, !.up = IF drv.state = "splash" THEN @ ELSE {}]
    /\ Return("void")
    /\ UNCHANGED <<part, drv, left, hist>>

\* Clocks, controller and PLL go off, unless the splash screen is to stay until
\* the kernel's driver takes over.  Nothing asks whether the last frame has
\* ended, but 60 ms pass, which is longer than a frame takes.
mipi_dsi_shutdown ==
    /\ At("dsi", "off") /\ (drv.state = "down" => ~hw.scan)
    /\ hw' = [hw EXCEPT !.seen = <<>>, !.up = IF drv.state = "splash" THEN @ ELSE {}]
    /\ Return("void")
    /\ UNCHANGED <<part, drv, left, hist>>

-----------------------------------------------------------------------------
DsiInit ==
    /\ \E p \in DOMAIN panel_info, id \in BOOLEAN :
          /\ part = [kind |-> "dsi", panel |-> p, id |-> id, t |-> Timing,
                     needs |-> {"pll", "clk", "ctrl", Lanes(panel_info[p].lanes)}]
          /\ panel_info[p].id = <<>> => ~id
    /\ hw = [up |-> {}, buf |-> Junk, dma |-> 0, done |-> FALSE, slow |-> FALSE,
             enabled |-> FALSE, scan |-> FALSE, win |-> <<>>, seen |-> <<>>, unsettled |-> FALSE]
    /\ drv = [state |-> "new", cmd_mode_status |-> FALSE]
    /\ cpu = [pc |-> "idle", asked |-> <<>>, ret |-> "none", list |-> "none",
              i |-> 0, status |-> 0]
    /\ left = FullBounds /\ hist = <<>>

DsiCode ==
    \/ mipi_dsi_cmds_tx \/ dsi_cmd_dma_trigger_for_panel \/ mipi_manufacture_id
    \/ VideoOff \/ config_dsi_video_mode \/ mdp_setup_dma_p_video_mode
    \/ mipi_dsi_video_config \/ cmd_mode_enabled \/ CutClocks
    \/ config_dsi_cmd_mode \/ mipi_dsi_shutdown

DsiHardware == DmaRuns \/ LaneRuns \/ FrameEnds

DsiNext == \/ mipi_init \/ mipi_dsi_cmd_mode_trigger \/ mdp_shutdown
           \/ DsiCode \/ DsiHardware \/ SlowDma \/ SlowLane

DsiSpec == DsiInit /\ [][DsiNext \/ Again]_vars
=============================================================================
