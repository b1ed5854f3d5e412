---------------------------- MODULE LkDsiProofs -----------------------------
(***************************************************************************)
(* Proofs about the MIPI displays of the boot loader: a display is set up  *)
(* packet by packet, is scanned only when it is fed, and is scanned whole. *)
(***************************************************************************)
EXTENDS LkDsi, TLAPS

(* What is tried, and for how long, for a leaf that names no prover.       *)
USE SMTT(15), ZenonT(30), SMTT(60)

DsiSetup == {"tx", "poll", "bta", "video", "config", "mdp", "cmd"}
DsiSent == {"bta", "video", "config", "mdp", "cmd", "lane"}

DsiTyped ==
    /\ part.kind = "dsi" /\ part.panel \in DOMAIN panel_info /\ part.t = Timing
    /\ part.needs = {"pll", "clk", "ctrl", Lanes(Info.lanes)}
    /\ DOMAIN hw = {"up", "buf", "dma", "done", "slow", "enabled", "scan", "win", "seen",
                   "unsettled"}
    /\ DOMAIN drv = {"state", "cmd_mode_status"}
    /\ DOMAIN cpu = {"pc", "asked", "ret", "list", "i", "status"}
    /\ hw.dma \in Nat /\ hw.done \in BOOLEAN /\ hw.enabled \in BOOLEAN /\ hw.slow \in BOOLEAN
    /\ hw.scan \in BOOLEAN /\ hw.unsettled \in BOOLEAN
    /\ drv.cmd_mode_status \in BOOLEAN
    /\ cpu.i \in Nat /\ cpu.status \in Nat
    /\ drv.state \in {"new", "up", "splash", "down"}
    /\ cpu.list \in {"none", "panel", "id", "frame", "off"}
    /\ cpu.pc \in DsiSetup \cup {"idle", "lane", "frame", "frame_config", "off", "returned"}

(* Where the code is, and what state it left the display in.               *)
DsiStage ==
    /\ cpu.pc \in DsiSetup => drv.state = "up" /\ ~hw.scan /\ cpu.list \in {"panel", "id"}
    /\ cpu.pc = "lane" => drv.state = "up" /\ cpu.list \in {"panel", "id"}
    /\ cpu.pc \in {"video", "config", "mdp", "lane"} => Info.mode = "video"
    /\ cpu.pc = "cmd" => Info.mode = "cmd"
    /\ cpu.pc \in {"frame", "frame_config"} =>
         drv.state = "up" /\ Info.mode = "cmd" /\ cpu.list = "frame"
    /\ cpu.pc = "frame_config" => ~hw.scan
    /\ cpu.pc = "off" => drv.state \in {"splash", "down"} /\ cpu.list = "off"
    /\ cpu.pc = "returned" => cpu.list # "none"
    /\ drv.state = "new" => cpu.pc = "idle" /\ ~hw.scan /\ hw.dma = 0 /\ cpu.list = "none"
    /\ drv.cmd_mode_status => Info.mode = "cmd"
    /\ drv.state = "down" /\ cpu.pc # "off" => ~hw.scan
    /\ Info.mode = "cmd" /\ hw.scan => cpu.list \in {"frame", "off"}

(* Clocks and lanes.                                                       *)
DsiFed ==
    /\ hw.scan \/ cpu.pc = "mdp" => part.needs \subseteq hw.up
    /\ drv.state = "up" => "pll" \in hw.up
    /\ cpu.pc \in {"tx", "poll", "bta"} => DmaPowered

(* The window.                                                             *)
DsiWindow ==
    /\ hw.scan /\ Info.mode = "video" => hw.win = mdp_window(Timing)
    /\ (hw.scan \/ cpu.pc \in {"frame", "frame_config"}) /\ Info.mode = "cmd"
         => hw.win = mipi_dsi_cmd_config(Timing)

(* As long as every packet was sent in time, the DMA engine has nothing    *)
(* left to fetch when the next one is copied, and the panel has seen the   *)
(* packets before it.                                                      *)
Sent(n) == <<Op("sent", n)>>

DsiInTurn ==
    cpu.list = "panel" /\ cpu.status = 0 =>
        /\ cpu.pc = "tx" => hw.dma = 0 /\ hw.seen = Sent(cpu.i - 1)
        /\ cpu.pc = "poll" /\ ~hw.done =>
             hw.dma = 1 /\ hw.buf = Info.cmds[cpu.i] /\ hw.seen = Sent(cpu.i - 1)
        /\ cpu.pc = "poll" /\ hw.done => hw.dma = 0 /\ hw.seen = Sent(cpu.i)
        /\ cpu.pc \notin {"tx", "poll"} => hw.dma = 0

DsiOutcome ==
    /\ cpu.list = "panel" /\ cpu.pc \in {"tx", "poll"} => cpu.i \in 1..Len(Info.cmds)
    /\ cpu.status = 0 /\ (cpu.pc \in DsiSent \/ (cpu.list = "id" /\ cpu.pc \in {"tx", "poll"}))
         => hw.seen = Sent(Len(Info.cmds))
    /\ cpu.pc \in DsiSetup \cup {"lane"} => cpu.asked = Sent(Len(Info.cmds))
    /\ cpu.pc \in {"frame", "frame_config"} => cpu.asked = <<Op("frame", 1)>>
    /\ cpu.pc = "off" => cpu.asked = <<>>
    /\ Info.mode = "cmd" => (hw.unsettled <=> hw.scan)
    /\ cpu.pc = "returned" =>
         /\ cpu.ret = "void"
         /\ cpu.list \in {"panel", "id"} /\ cpu.status = 0 => hw.seen = cpu.asked
         /\ cpu.list = "frame" => /\ cpu.asked = <<Op("frame", 1)>> /\ Info.mode = "cmd"
                                  /\ hw.scan \/ hw.seen = cpu.asked
         /\ cpu.list = "off" => hw.seen = cpu.asked

(* Only a transfer slower than the poll makes a status other than 0.       *)
DsiTrouble ==
    /\ left \in [faults : 0..MaxFaults, events : Nat, jobs : Nat]
    /\ left.faults = MaxFaults => ~hw.slow /\ cpu.status = 0

DsiInv == DsiTyped /\ DsiStage /\ DsiFed /\ DsiWindow /\ DsiInTurn /\ DsiOutcome /\ DsiTrouble

(* The panels as the tables of panel_info have them.                       *)
LEMMA PanelFacts ==
    ASSUME NEW p \in DOMAIN panel_info
    PROVE  /\ panel_info[p].mode \in {"video", "cmd"}
           /\ panel_info[p].video = panel_info[p].lanes
           /\ panel_info[p].lanes \in 1..3
           /\ panel_info[p].mode = "cmd" => panel_info[p].lanes = 2
           /\ Len(panel_info[p].cmds) \in Nat \ {0}
           /\ \A i \in 1..Len(panel_info[p].cmds) : Whole(panel_info[p].cmds[i])
  <1> DEFINE Fits(r) == \/ r.mode = "video" /\ r.video = r.lanes /\ r.lanes \in {1, 2, 3}
                        \/ r.mode = "cmd" /\ r.video = r.lanes /\ r.lanes = 2
  <1>1. \A n \in {1, 2, 3} : \A mdp3, cmds, id :
           Fits(PanelInfo("video", n, n, mdp3, cmds, id))
    BY DEF PanelInfo
  <1>2. \A mdp3, cmds, id : Fits(PanelInfo("cmd", 2, 2, mdp3, cmds, id))
    BY DEF PanelInfo
  <1> HIDE DEF Fits
  <1>3. p \in {"toshiba", "novatek", "mdt61", "renesas", "renesas_7x25a", "nt35510_video",
              "nt35510_cmd"}
    BY Zenon DEF panel_info
  <1>4. /\ Fits(panel_info["toshiba"]) /\ Fits(panel_info["novatek"])
        /\ Fits(panel_info["mdt61"]) /\ Fits(panel_info["renesas"])
    BY Zenon, <1>1, <1>2 DEF panel_info
  <1>5. /\ Fits(panel_info["renesas_7x25a"]) /\ Fits(panel_info["nt35510_video"])
        /\ Fits(panel_info["nt35510_cmd"])
    BY Zenon, <1>1, <1>2 DEF panel_info
  <1>6. Fits(panel_info[p])
    BY Zenon, <1>3, <1>4, <1>5
  <1>7. /\ panel_info[p].mode \in {"video", "cmd"}
        /\ panel_info[p].video = panel_info[p].lanes
        /\ panel_info[p].lanes \in 1..3
        /\ panel_info[p].mode = "cmd" => panel_info[p].lanes = 2
    BY <1>6 DEF Fits
  <1>8. /\ Len(panel_info[p].cmds) \in Nat \ {0}
        /\ \A i \in 1..Len(panel_info[p].cmds) : Whole(panel_info[p].cmds[i])
    BY Zenon, TablesAreWhole
  <1> QED BY Zenon, <1>7, <1>8

(* Setting the lanes leaves everything else that is on alone.              *)
LEMMA LanesSet ==
    ASSUME NEW n \in 1..3, NEW up, "pll" \in up
    PROVE  {"pll", "clk", "ctrl", Lanes(n)} \subseteq (up \ AllLanes) \cup {"clk", "ctrl", Lanes(n)}
  <1>0. Lanes(1) = "1 lane" /\ Lanes(2) = "2 lanes" /\ Lanes(3) = "3 lanes"
    BY DEF Lanes
  <1>1. \A k \in 1..3 : Lanes(k) # "pll"
    <2> SUFFICES ASSUME NEW k \in 1..3 PROVE Lanes(k) # "pll"
      OBVIOUS
    <2>1. k = 1 \/ k = 2 \/ k = 3
      OBVIOUS
    <2> QED BY Zenon, <1>0, <2>1
  <1>2. "pll" \notin AllLanes
    BY <1>1 DEF AllLanes
  <1> QED BY <1>2

(* The next packet of the table, sent whole, is received.                  *)
LEMMA ReceivesNext ==
    ASSUME part.panel \in DOMAIN panel_info, NEW n \in Nat, n + 1 \in 1..Len(Info.cmds)
    PROVE  Receives(Sent(n), Info.cmds[n + 1]) = Sent(n + 1)
  <1>1. Whole(Info.cmds[n + 1])
    BY PanelFacts DEF Info
  <1>2. Sent(n)[1].n = n /\ Sent(n)[1].op = "sent"
    BY DEF Sent, Op
  <1>3. [Sent(n) EXCEPT ![1].n = n + 1] = Sent(n + 1)
    BY DEF Sent, Op
  <1>4. Len(Info.cmds) \in Nat
    BY Zenon, PanelFacts DEF Info
  <1> QED BY <1>1, <1>2, <1>3, <1>4 DEF Receives

LEMMA DsiStart == DsiInit => DsiInv
  <1> SUFFICES ASSUME DsiInit PROVE DsiInv
    OBVIOUS
  <1>1. DsiTyped /\ DsiStage /\ DsiFed /\ DsiWindow /\ DsiInTurn /\ DsiOutcome
    BY PanelFacts DEF DsiInit, DsiTyped, DsiStage, DsiFed, DsiWindow, DsiInTurn, DsiOutcome,
       DsiSetup, DsiSent, Info
  <1>2. DsiTrouble
    BY DeviceBounds DEF DsiInit, FullBounds, DsiTrouble
  <1> QED BY <1>1, <1>2 DEF DsiInv

(* mipi_init powers the link and starts on the table.                      *)
LEMMA Dsi_mipi_init ==
    ASSUME DsiInv, mipi_init
    PROVE  DsiInv'
  <1> USE DEF DsiInv, At, Info
  <1>1. DsiTyped'
    BY PanelFacts DEF mipi_init, mipi_dsi_panel_initialize, mipi_dsi_phy_ctrl_config, Begins, Sent, DsiTyped, DsiSetup, DsiSent
  <1>2. DsiStage'
    BY PanelFacts DEF mipi_init, mipi_dsi_panel_initialize, mipi_dsi_phy_ctrl_config, Begins, Sent, DsiStage, DsiTyped, DsiSetup, DsiSent
  <1>3. DsiFed'
    <2>1. "pll" \in hw'.up
      BY Zenon, LanesSet, PanelFacts DEF mipi_init, mipi_dsi_panel_initialize, mipi_dsi_phy_ctrl_config,
                                  DsiTyped, AllLanes, Lanes
    <2> QED BY <2>1 DEF mipi_init, mipi_dsi_panel_initialize, mipi_dsi_phy_ctrl_config, Begins,
                        DsiFed, DsiTyped, DsiStage, DmaPowered
  <1>4. DsiWindow'
    BY PanelFacts DEF mipi_init, mipi_dsi_panel_initialize, mipi_dsi_phy_ctrl_config, Begins, Sent, DsiWindow, DsiTyped, DsiStage, DsiSetup, DsiSent
  <1>5. DsiInTurn'
    BY PanelFacts DEF mipi_init, mipi_dsi_panel_initialize, mipi_dsi_phy_ctrl_config, Begins, Sent, DsiInTurn, DsiTyped, DsiStage, DsiSetup, DsiSent
  <1>6. DsiOutcome'
    BY PanelFacts DEF mipi_init, mipi_dsi_panel_initialize, mipi_dsi_phy_ctrl_config, Begins, Sent, DsiOutcome, DsiTyped, DsiStage, DsiSetup, DsiSent
  <1>7. DsiTrouble'
    BY PanelFacts, DeviceBounds DEF mipi_init, mipi_dsi_panel_initialize, mipi_dsi_phy_ctrl_config, Begins, Sent, DsiTrouble, DsiTyped, DsiSetup
  <1> QED BY <1>1, <1>2, <1>3, <1>4, <1>5, <1>6, <1>7

(* A packet is copied and the engine triggered.                            *)
LEMMA Dsi_mipi_dsi_cmds_tx ==
    ASSUME DsiInv, mipi_dsi_cmds_tx
    PROVE  DsiInv'
  <1> USE DEF DsiInv, At, Info
  <1>1. DsiTyped'
    BY PanelFacts DEF mipi_dsi_cmds_tx, Sending, DsiTyped, DsiSetup, DsiSent
  <1>2. DsiStage'
    BY PanelFacts DEF mipi_dsi_cmds_tx, Sending, DsiStage, DsiTyped, DsiSetup, DsiSent
  <1>3. DsiFed'
    BY PanelFacts DEF DmaPowered, mipi_dsi_cmds_tx, Sending, DsiFed, DsiTyped, DsiStage, DsiSetup, DsiSent
  <1>4. DsiWindow'
    BY PanelFacts DEF mipi_dsi_cmds_tx, Sending, DsiWindow, DsiTyped, DsiStage, DsiSetup, DsiSent
  <1>5. DsiInTurn'
    BY PanelFacts DEF mipi_dsi_cmds_tx, Sending, DsiInTurn, DsiTyped, DsiStage, DsiSetup, DsiSent
  <1>6. DsiOutcome'
    BY PanelFacts DEF mipi_dsi_cmds_tx, Sending, DsiOutcome, DsiTyped, DsiStage, DsiSetup, DsiSent
  <1>7. DsiTrouble'
    BY PanelFacts, DeviceBounds DEF mipi_dsi_cmds_tx, Sending, DsiTrouble, DsiTyped, DsiSetup
  <1> QED BY <1>1, <1>2, <1>3, <1>4, <1>5, <1>6, <1>7

(* The poll ends.                                                          *)
LEMMA Dsi_dsi_cmd_dma_trigger_for_panel ==
    ASSUME DsiInv, dsi_cmd_dma_trigger_for_panel
    PROVE  DsiInv'
  <1> USE DEF DsiInv, At, Info
  <1>a. cpu.pc = "poll" /\ part' = part /\ drv' = drv /\ left' = left
    BY DEF dsi_cmd_dma_trigger_for_panel
  <1>b. /\ DOMAIN cpu' = DOMAIN cpu /\ cpu'.list = cpu.list /\ cpu'.asked = cpu.asked
        /\ cpu'.i = cpu.i + 1 /\ cpu'.status \in Nat
        /\ cpu'.status = 0 => cpu.status = 0 /\ (cpu.list = "panel" => hw.done)
        /\ cpu.status = 0 /\ ~hw.slow => cpu'.status = 0
        /\ cpu'.pc = IF cpu.i < Len(Sending) THEN "tx" ELSE AfterList
        /\ AfterList \in {"bta", "video", "cmd"} /\ Info.mode \in {"video", "cmd"}
        /\ cpu'.pc \in {"tx", "bta", "video", "cmd"}
        /\ cpu'.pc \in {"video", "cmd"} => cpu'.pc = Info.mode
    <2>1. Info.mode \in {"video", "cmd"} /\ AfterList \in {"bta", Info.mode}
      BY PanelFacts DEF DsiTyped, AfterList
    <2>2. PICK s \in {0, 1} :
            /\ s = 0 => hw.done
            /\ s = 1 => hw.slow \/ ~DmaPowered
            /\ cpu' = [cpu EXCEPT !.status = IF cpu.list = "panel" THEN @ + s ELSE @, !.i = @ + 1,
                                  !.pc = IF cpu.i < Len(Sending) THEN "tx" ELSE AfterList]
      BY DEF dsi_cmd_dma_trigger_for_panel, NextPacket
    <2>3. /\ cpu'.status = IF cpu.list = "panel" THEN cpu.status + s ELSE cpu.status
          /\ cpu'.i = cpu.i + 1 /\ cpu'.list = cpu.list /\ cpu'.asked = cpu.asked
          /\ cpu'.pc = IF cpu.i < Len(Sending) THEN "tx" ELSE AfterList
          /\ DOMAIN cpu' = DOMAIN cpu
      BY Zenon, <2>2 DEF DsiTyped
    <2>4. DmaPowered
      BY <1>a DEF DsiFed
    <2> QED BY <2>1, <2>2, <2>3, <2>4 DEF DsiTyped
  <1>c. /\ DOMAIN hw' = DOMAIN hw /\ hw'.up = hw.up /\ hw'.dma = hw.dma /\ hw'.done = hw.done
        /\ hw'.slow = FALSE /\ hw'.enabled = hw.enabled
        /\ hw'.scan = hw.scan /\ hw'.win = hw.win /\ hw'.seen = hw.seen
        /\ hw'.unsettled = hw.unsettled
    BY ZenonT(30) DEF dsi_cmd_dma_trigger_for_panel, NextPacket, DsiTyped
  <1>d. cpu'.i \in Nat
    BY <1>b DEF DsiTyped
  <1>1. DsiTyped'
    BY ZenonT(30), <1>a, <1>b, <1>c, <1>d DEF DsiTyped, DsiSetup
  <1>2. DsiStage'
    BY ZenonT(30), <1>a, <1>b, <1>c DEF DsiTyped, DsiStage, DsiSetup
  <1>3. DsiFed'
    BY <1>a, <1>b, <1>c DEF DsiFed, DmaPowered
  <1>4. DsiWindow'
    BY <1>a, <1>b, <1>c DEF DsiWindow, DsiTyped
  <1>5. DsiInTurn'
    BY <1>a, <1>b, <1>c DEF DsiInTurn, DsiTyped, Sending
  <1>6. DsiOutcome'
    <2>1. cpu.list \in {"panel", "id"} /\ cpu.i \in Nat /\ Len(Info.cmds) \in Nat
      BY ZenonT(30), <1>a, PanelFacts DEF DsiStage, DsiTyped, DsiSetup
    <2>a. cpu'.asked = Sent(Len(Info.cmds)) /\ (Info.mode = "cmd" => (hw'.unsettled <=> hw'.scan))
      BY <1>a, <1>b, <1>c DEF DsiOutcome, DsiSetup
    <2>2. CASE cpu.list = "panel"
      <3>1. cpu.i \in 1..Len(Info.cmds) /\ Len(Sending) = Len(Info.cmds)
        BY Zenon, <1>a, <2>2 DEF DsiOutcome, Sending
      <3>2. cpu'.status = 0 => cpu.status = 0 /\ hw.seen = Sent(cpu.i)
        BY ZenonT(30), <1>a, <1>b, <2>2 DEF DsiInTurn, DsiTyped
      <3>3. cpu'.pc = "tx" => cpu'.i \in 1..Len(Info.cmds)
        BY <1>b, <2>1, <3>1
      <3>4. cpu'.pc # "tx" => cpu.i = Len(Info.cmds)
        BY <1>b, <2>1, <3>1
      <3>5. cpu'.status = 0 /\ cpu'.pc \in DsiSent => hw'.seen = Sent(Len(Info.cmds))
        BY <1>c, <3>2, <3>4 DEF DsiSent
      <3> HIDE DEF Info
      <3>6. Info' = Info
        BY Zenon, <1>a DEF Info
      <3> QED BY Zenon, <1>b, <2>a, <2>2, <3>3, <3>5, <3>6 DEF DsiOutcome
    <2>3. CASE cpu.list = "id"
      <3>1. cpu'.status = 0 => hw'.seen = Sent(Len(Info.cmds))
        BY Zenon, <1>a, <1>b, <1>c, <2>3 DEF DsiOutcome
      <3> HIDE DEF Info
      <3>2. Info' = Info
        BY Zenon, <1>a DEF Info
      <3> QED BY Zenon, <1>b, <2>a, <2>3, <3>1, <3>2 DEF DsiOutcome
    <2> QED BY <2>1, <2>2, <2>3
  <1>7. DsiTrouble'
    BY <1>a, <1>b, <1>c DEF DsiTrouble
  <1> QED BY <1>1, <1>2, <1>3, <1>4, <1>5, <1>6, <1>7

(* The manufacture id is asked for.                                        *)
LEMMA Dsi_mipi_manufacture_id ==
    ASSUME DsiInv, mipi_manufacture_id
    PROVE  DsiInv'
  <1> USE DEF DsiInv, At, Info
  <1>1. DsiTyped'
    BY PanelFacts DEF mipi_manufacture_id, DsiTyped, DsiSetup, DsiSent
  <1>2. DsiStage'
    BY PanelFacts DEF mipi_manufacture_id, DsiStage, DsiTyped, DsiSetup, DsiSent
  <1>3. DsiFed'
    BY PanelFacts DEF DmaPowered, mipi_manufacture_id, DsiFed, DsiTyped, DsiStage, DsiSetup, DsiSent
  <1>4. DsiWindow'
    BY PanelFacts DEF mipi_manufacture_id, DsiWindow, DsiTyped, DsiStage, DsiSetup, DsiSent
  <1>5. DsiInTurn'
    BY PanelFacts DEF mipi_manufacture_id, DsiInTurn, DsiTyped, DsiStage, DsiSetup, DsiSent
  <1>6. DsiOutcome'
    BY PanelFacts DEF mipi_manufacture_id, DsiOutcome, DsiTyped, DsiStage, DsiSetup, DsiSent
  <1>7. DsiTrouble'
    BY PanelFacts, DeviceBounds DEF mipi_manufacture_id, DsiTrouble, DsiTyped, DsiSetup
  <1> QED BY <1>1, <1>2, <1>3, <1>4, <1>5, <1>6, <1>7

(* Video mode.                                                             *)
LEMMA Dsi_VideoOff ==
    ASSUME DsiInv, VideoOff
    PROVE  DsiInv'
  <1> USE DEF DsiInv, At, Info
  <1>1. DsiTyped'
    BY PanelFacts DEF VideoOff, mdp_disable, DsiTyped, DsiSetup, DsiSent
  <1>2. DsiStage'
    BY PanelFacts DEF VideoOff, mdp_disable, DsiStage, DsiTyped, DsiSetup, DsiSent
  <1>3. DsiFed'
    BY PanelFacts DEF DmaPowered, VideoOff, mdp_disable, DsiFed, DsiTyped, DsiStage, DsiSetup, DsiSent
  <1>4. DsiWindow'
    BY PanelFacts DEF VideoOff, mdp_disable, DsiWindow, DsiTyped, DsiStage, DsiSetup, DsiSent
  <1>5. DsiInTurn'
    BY PanelFacts DEF VideoOff, mdp_disable, DsiInTurn, DsiTyped, DsiStage, DsiSetup, DsiSent
  <1>6. DsiOutcome'
    BY PanelFacts DEF VideoOff, mdp_disable, DsiOutcome, DsiTyped, DsiStage, DsiSetup, DsiSent
  <1>7. DsiTrouble'
    BY PanelFacts, DeviceBounds DEF VideoOff, mdp_disable, DsiTrouble, DsiTyped, DsiSetup
  <1> QED BY <1>1, <1>2, <1>3, <1>4, <1>5, <1>6, <1>7

(* The clocks come back and the lanes are set.                             *)
LEMMA Dsi_config_dsi_video_mode ==
    ASSUME DsiInv, config_dsi_video_mode
    PROVE  DsiInv'
  <1> USE DEF DsiInv, At, Info
  <1>1. DsiTyped'
    BY PanelFacts DEF config_dsi_video_mode, DsiTyped, DsiSetup, DsiSent
  <1>2. DsiStage'
    BY PanelFacts DEF config_dsi_video_mode, DsiStage, DsiTyped, DsiSetup, DsiSent
  <1>3. DsiFed'
    <2>1. cpu.pc # "mdp" /\ drv.state = "up" /\ "pll" \in hw.up
      BY DEF config_dsi_video_mode, DsiFed, DsiStage, DsiSetup
    <2>2. part.needs \subseteq hw'.up /\ part' = part /\ drv' = drv
      BY <2>1, LanesSet, PanelFacts DEF config_dsi_video_mode, DsiTyped
    <2>3. cpu'.pc \in {"mdp", "returned"}
      BY DEF config_dsi_video_mode, Return, DsiTyped
    <2> QED BY <2>1, <2>2, <2>3 DEF DsiFed, DsiTyped
  <1>4. DsiWindow'
    BY PanelFacts DEF config_dsi_video_mode, DsiWindow, DsiTyped, DsiStage, DsiSetup, DsiSent
  <1>5. DsiInTurn'
    BY PanelFacts DEF config_dsi_video_mode, DsiInTurn, DsiTyped, DsiStage, DsiSetup, DsiSent
  <1>6. DsiOutcome'
    BY PanelFacts DEF config_dsi_video_mode, DsiOutcome, DsiTyped, DsiStage, DsiSetup, DsiSent
  <1>7. DsiTrouble'
    BY PanelFacts, DeviceBounds DEF config_dsi_video_mode, DsiTrouble, DsiTyped, DsiSetup
  <1> QED BY <1>1, <1>2, <1>3, <1>4, <1>5, <1>6, <1>7

(* The window is programmed and the scan starts.                           *)
LEMMA Dsi_mdp_setup_dma_p_video_mode ==
    ASSUME DsiInv, mdp_setup_dma_p_video_mode
    PROVE  DsiInv'
  <1> USE DEF DsiInv, At, Info
  <1>1. DsiTyped'
    BY PanelFacts DEF mdp_setup_dma_p_video_mode, mdp3_window, DsiTyped, DsiSetup, DsiSent
  <1>2. DsiStage'
    BY PanelFacts DEF mdp_setup_dma_p_video_mode, mdp3_window, DsiStage, DsiTyped, DsiSetup, DsiSent
  <1>3. DsiFed'
    BY PanelFacts DEF DmaPowered, mdp_setup_dma_p_video_mode, mdp3_window, DsiFed, DsiTyped, DsiStage, DsiSetup, DsiSent
  <1>4. DsiWindow'
    BY PanelFacts DEF mdp_setup_dma_p_video_mode, mdp3_window, DsiWindow, DsiTyped, DsiStage, DsiSetup, DsiSent
  <1>5. DsiInTurn'
    BY PanelFacts DEF mdp_setup_dma_p_video_mode, mdp3_window, DsiInTurn, DsiTyped, DsiStage, DsiSetup, DsiSent
  <1>6. DsiOutcome'
    BY PanelFacts DEF mdp_setup_dma_p_video_mode, mdp3_window, DsiOutcome, DsiTyped, DsiStage, DsiSetup, DsiSent
  <1>7. DsiTrouble'
    BY PanelFacts, DeviceBounds DEF mdp_setup_dma_p_video_mode, mdp3_window, DsiTrouble, DsiTyped, DsiSetup
  <1> QED BY <1>1, <1>2, <1>3, <1>4, <1>5, <1>6, <1>7

(* The driver stops polling for the first frame.                           *)
LEMMA Dsi_mipi_dsi_video_config ==
    ASSUME DsiInv, mipi_dsi_video_config
    PROVE  DsiInv'
  <1> USE DEF DsiInv, At, Info
  <1>1. DsiTyped'
    BY PanelFacts DEF mipi_dsi_video_config, Return, DsiTyped, DsiSetup, DsiSent
  <1>2. DsiStage'
    BY PanelFacts DEF mipi_dsi_video_config, Return, DsiStage, DsiTyped, DsiSetup, DsiSent
  <1>3. DsiFed'
    BY PanelFacts DEF DmaPowered, mipi_dsi_video_config, Return, DsiFed, DsiTyped, DsiStage, DsiSetup, DsiSent
  <1>4. DsiWindow'
    BY PanelFacts DEF mipi_dsi_video_config, Return, DsiWindow, DsiTyped, DsiStage, DsiSetup, DsiSent
  <1>5. DsiInTurn'
    BY PanelFacts DEF mipi_dsi_video_config, Return, DsiInTurn, DsiTyped, DsiStage, DsiSetup, DsiSent
  <1>6. DsiOutcome'
    BY PanelFacts DEF mipi_dsi_video_config, Return, DsiOutcome, DsiTyped, DsiStage, DsiSetup, DsiSent
  <1>7. DsiTrouble'
    BY PanelFacts, DeviceBounds DEF mipi_dsi_video_config, Return, DsiTrouble, DsiTyped, DsiSetup
  <1> QED BY <1>1, <1>2, <1>3, <1>4, <1>5, <1>6, <1>7

(* Command mode.                                                           *)
LEMMA Dsi_cmd_mode_enabled ==
    ASSUME DsiInv, cmd_mode_enabled
    PROVE  DsiInv'
  <1> USE DEF DsiInv, At, Info
  <1>1. DsiTyped'
    BY PanelFacts DEF cmd_mode_enabled, Return, DsiTyped, DsiSetup, DsiSent
  <1>2. DsiStage'
    BY PanelFacts DEF cmd_mode_enabled, Return, DsiStage, DsiTyped, DsiSetup, DsiSent
  <1>3. DsiFed'
    BY PanelFacts DEF DmaPowered, cmd_mode_enabled, Return, DsiFed, DsiTyped, DsiStage, DsiSetup, DsiSent
  <1>4. DsiWindow'
    BY PanelFacts DEF cmd_mode_enabled, Return, DsiWindow, DsiTyped, DsiStage, DsiSetup, DsiSent
  <1>5. DsiInTurn'
    BY PanelFacts DEF cmd_mode_enabled, Return, DsiInTurn, DsiTyped, DsiStage, DsiSetup, DsiSent
  <1>6. DsiOutcome'
    BY PanelFacts DEF cmd_mode_enabled, Return, DsiOutcome, DsiTyped, DsiStage, DsiSetup, DsiSent
  <1>7. DsiTrouble'
    BY PanelFacts, DeviceBounds DEF cmd_mode_enabled, Return, DsiTrouble, DsiTyped, DsiSetup
  <1> QED BY <1>1, <1>2, <1>3, <1>4, <1>5, <1>6, <1>7

(* The clocks are cut between two frames.                                  *)
LEMMA Dsi_CutClocks ==
    ASSUME DsiInv, CutClocks
    PROVE  DsiInv'
  <1> USE DEF DsiInv, At, Info
  <1>1. DsiTyped'
    BY PanelFacts DEF CutClocks, DsiTyped, DsiSetup, DsiSent
  <1>2. DsiStage'
    BY PanelFacts DEF CutClocks, DsiStage, DsiTyped, DsiSetup, DsiSent
  <1>3. DsiFed'
    BY PanelFacts DEF DmaPowered, CutClocks, DsiFed, DsiTyped, DsiStage, DsiSetup, DsiSent
  <1>4. DsiWindow'
    BY PanelFacts DEF CutClocks, DsiWindow, DsiTyped, DsiStage, DsiSetup, DsiSent
  <1>5. DsiInTurn'
    BY PanelFacts DEF CutClocks, DsiInTurn, DsiTyped, DsiStage, DsiSetup, DsiSent
  <1>6. DsiOutcome'
    BY PanelFacts DEF CutClocks, DsiOutcome, DsiTyped, DsiStage, DsiSetup, DsiSent
  <1>7. DsiTrouble'
    BY PanelFacts, DeviceBounds DEF CutClocks, DsiTrouble, DsiTyped, DsiSetup
  <1> QED BY <1>1, <1>2, <1>3, <1>4, <1>5, <1>6, <1>7

(* A frame is started.                                                     *)
LEMMA Dsi_config_dsi_cmd_mode ==
    ASSUME DsiInv, config_dsi_cmd_mode
    PROVE  DsiInv'
  <1> USE DEF DsiInv, At, Info
  <1>1. DsiTyped'
    BY PanelFacts DEF config_dsi_cmd_mode, Return, DsiTyped, DsiSetup, DsiSent
  <1>2. DsiStage'
    BY PanelFacts DEF config_dsi_cmd_mode, Return, DsiStage, DsiTyped, DsiSetup, DsiSent
  <1>3. DsiFed'
    <2>1. cpu.pc # "mdp" /\ drv.state = "up" /\ "pll" \in hw.up
      BY DEF config_dsi_cmd_mode, DsiFed, DsiStage, DsiSetup
    <2>2. part.needs \subseteq hw'.up /\ part' = part /\ drv' = drv
      BY <2>1, LanesSet, PanelFacts DEF config_dsi_cmd_mode, DsiTyped, DsiStage
    <2>3. cpu'.pc \in {"mdp", "returned"}
      BY DEF config_dsi_cmd_mode, Return, DsiTyped
    <2> QED BY <2>1, <2>2, <2>3 DEF DsiFed, DsiTyped
  <1>4. DsiWindow'
    BY PanelFacts DEF config_dsi_cmd_mode, Return, DsiWindow, DsiTyped, DsiStage, DsiSetup, DsiSent
  <1>5. DsiInTurn'
    BY PanelFacts DEF config_dsi_cmd_mode, Return, DsiInTurn, DsiTyped, DsiStage, DsiSetup, DsiSent
  <1>6. DsiOutcome'
    BY PanelFacts DEF config_dsi_cmd_mode, Return, DsiOutcome, DsiTyped, DsiStage, DsiSetup, DsiSent
  <1>7. DsiTrouble'
    BY PanelFacts, DeviceBounds DEF config_dsi_cmd_mode, Return, DsiTrouble, DsiTyped, DsiSetup
  <1> QED BY <1>1, <1>2, <1>3, <1>4, <1>5, <1>6, <1>7

(* Clocks, controller and PLL go off.                                      *)
LEMMA Dsi_mipi_dsi_shutdown ==
    ASSUME DsiInv, mipi_dsi_shutdown
    PROVE  DsiInv'
  <1> USE DEF DsiInv, At, Info
  <1>1. DsiTyped'
    BY PanelFacts DEF mipi_dsi_shutdown, Return, DsiTyped, DsiSetup, DsiSent
  <1>2. DsiStage'
    BY PanelFacts DEF mipi_dsi_shutdown, Return, DsiStage, DsiTyped, DsiSetup, DsiSent
  <1>3. DsiFed'
    BY PanelFacts DEF DmaPowered, mipi_dsi_shutdown, Return, DsiFed, DsiTyped, DsiStage, DsiSetup, DsiSent
  <1>4. DsiWindow'
    BY PanelFacts DEF mipi_dsi_shutdown, Return, DsiWindow, DsiTyped, DsiStage, DsiSetup, DsiSent
  <1>5. DsiInTurn'
    BY PanelFacts DEF mipi_dsi_shutdown, Return, DsiInTurn, DsiTyped, DsiStage, DsiSetup, DsiSent
  <1>6. DsiOutcome'
    BY PanelFacts DEF mipi_dsi_shutdown, Return, DsiOutcome, DsiTyped, DsiStage, DsiSetup, DsiSent
  <1>7. DsiTrouble'
    BY PanelFacts, DeviceBounds DEF mipi_dsi_shutdown, Return, DsiTrouble, DsiTyped, DsiSetup
  <1> QED BY <1>1, <1>2, <1>3, <1>4, <1>5, <1>6, <1>7

(* The engine fetches the buffer.                                          *)
LEMMA Dsi_DmaRuns ==
    ASSUME DsiInv, DmaRuns
    PROVE  DsiInv'
  <1> USE DEF DsiInv, At, Info
  <1>a. hw.dma > 0 /\ part' = part /\ drv' = drv /\ cpu' = cpu
    BY DEF DmaRuns
  <1>b. /\ hw'.dma = hw.dma - 1 /\ hw'.done = TRUE /\ hw'.scan = hw.scan
        /\ hw'.unsettled = hw.unsettled
        /\ hw'.seen = IF cpu.list = "panel" THEN Receives(hw.seen, hw.buf) ELSE hw.seen
    BY DEF DmaRuns, DsiTyped
  <1>1. DsiTyped'
    BY PanelFacts DEF DmaRuns, DsiTyped, DsiSetup, DsiSent
  <1>2. DsiStage'
    BY PanelFacts DEF DmaRuns, DsiStage, DsiTyped, DsiSetup, DsiSent
  <1>3. DsiFed'
    BY ZenonT(30), PanelFacts DEF DmaPowered, DmaRuns, DsiFed, DsiTyped, DsiStage, DsiSetup, DsiSent
  <1>4. DsiWindow'
    BY PanelFacts DEF DmaRuns, DsiWindow, DsiTyped, DsiStage, DsiSetup, DsiSent
  <1>5. DsiInTurn'
    <2>1. SUFFICES ASSUME cpu.list = "panel", cpu.status = 0
                   PROVE  DsiInTurn'
      BY <1>a DEF DsiInTurn
    <2>2. cpu.pc = "poll" /\ ~hw.done
      BY <1>a, <2>1 DEF DsiInTurn, DsiTyped
    <2>3. hw.dma = 1 /\ hw.seen = Sent(cpu.i - 1) /\ hw'.seen = Receives(hw.seen, Info.cmds[cpu.i])
      BY <1>a, <1>b, <2>1, <2>2 DEF DsiInTurn
    <2>4. cpu.i - 1 \in Nat /\ (cpu.i - 1) + 1 = cpu.i /\ cpu.i \in 1..Len(Info.cmds)
      <3>1. cpu.i \in 1..Len(Info.cmds)
        BY Zenon, <2>1, <2>2 DEF DsiOutcome
      <3>2. Len(Info.cmds) \in Nat
        BY Zenon, PanelFacts DEF DsiTyped
      <3> HIDE DEF DsiInv, Info
      <3> QED BY <3>1, <3>2
    <2>5. hw'.seen = Sent(cpu.i)
      <3> DEFINE n == cpu.i - 1
      <3>1. n \in Nat /\ n + 1 = cpu.i /\ n + 1 \in 1..Len(Info.cmds)
        BY Zenon, <2>4
      <3>2. part.panel \in DOMAIN panel_info /\ hw'.seen = Receives(Sent(n), Info.cmds[cpu.i])
        BY Zenon, <2>3 DEF DsiTyped
      <3> HIDE DEF DsiInv, Info, n
      <3>3. Receives(Sent(n), Info.cmds[n + 1]) = Sent(n + 1)
        BY Zenon, <3>1, <3>2, ReceivesNext
      <3> QED BY Zenon, <3>1, <3>2, <3>3
    <2> QED BY <1>a, <1>b, <2>1, <2>2, <2>3, <2>5 DEF DsiInTurn
  <1>6. DsiOutcome'
    <2>1. cpu.list # "panel" => hw'.seen = hw.seen
      BY <1>b
    <2>2. cpu.list = "panel" /\ cpu.status = 0 => cpu.pc = "poll"
      BY <1>a DEF DsiInTurn, DsiTyped
    <2> QED BY <1>a, <1>b, <2>1, <2>2 DEF DsiOutcome, DsiSent, DsiTyped
  <1>7. DsiTrouble'
    BY DEF DmaRuns, DsiTrouble, DsiTyped
  <1> QED BY <1>1, <1>2, <1>3, <1>4, <1>5, <1>6, <1>7

(* The first frame has gone.                                               *)
LEMMA Dsi_LaneRuns ==
    ASSUME DsiInv, LaneRuns
    PROVE  DsiInv'
  <1> USE DEF DsiInv, At, Info
  <1>1. DsiTyped'
    BY Zenon, PanelFacts DEF LaneRuns, DsiTyped, DsiSetup, DsiSent
  <1>2. DsiStage'
    BY PanelFacts DEF LaneRuns, DsiStage, DsiTyped, DsiSetup, DsiSent
  <1>3. DsiFed'
    BY PanelFacts DEF DmaPowered, LaneRuns, DsiFed, DsiTyped, DsiStage, DsiSetup, DsiSent
  <1>4. DsiWindow'
    BY PanelFacts DEF LaneRuns, DsiWindow, DsiTyped, DsiStage, DsiSetup, DsiSent
  <1>5. DsiInTurn'
    BY PanelFacts DEF LaneRuns, DsiInTurn, DsiTyped, DsiStage, DsiSetup, DsiSent
  <1>6. DsiOutcome'
    BY PanelFacts DEF LaneRuns, DsiOutcome, DsiTyped, DsiStage, DsiSetup, DsiSent
  <1>7. DsiTrouble'
    BY PanelFacts, DeviceBounds DEF LaneRuns, DsiTrouble, DsiTyped, DsiSetup
  <1> QED BY <1>1, <1>2, <1>3, <1>4, <1>5, <1>6, <1>7

(* A frame has been sent.                                                  *)
LEMMA Dsi_FrameEnds ==
    ASSUME DsiInv, FrameEnds
    PROVE  DsiInv'
  <1> USE DEF DsiInv, At, Info
  <1>1. DsiTyped'
    BY PanelFacts DEF FrameEnds, DsiTyped, DsiSetup, DsiSent
  <1>2. DsiStage'
    BY PanelFacts DEF FrameEnds, DsiStage, DsiTyped, DsiSetup, DsiSent
  <1>3. DsiFed'
    BY PanelFacts DEF DmaPowered, FrameEnds, DsiFed, DsiTyped, DsiStage, DsiSetup, DsiSent
  <1>4. DsiWindow'
    BY PanelFacts DEF FrameEnds, DsiWindow, DsiTyped, DsiStage, DsiSetup, DsiSent
  <1>5. DsiInTurn'
    BY PanelFacts DEF FrameEnds, DsiInTurn, DsiTyped, DsiStage, DsiSetup, DsiSent
  <1>6. DsiOutcome'
    BY PanelFacts DEF FrameEnds, DsiOutcome, DsiTyped, DsiStage, DsiSetup, DsiSent
  <1>7. DsiTrouble'
    BY PanelFacts, DeviceBounds DEF FrameEnds, DsiTrouble, DsiTyped, DsiSetup
  <1> QED BY <1>1, <1>2, <1>3, <1>4, <1>5, <1>6, <1>7

(* The link is busy.                                                       *)
LEMMA Dsi_SlowDma ==
    ASSUME DsiInv, SlowDma
    PROVE  DsiInv'
  <1> USE DEF DsiInv, At, Info
  <1>1. DsiTyped'
    BY PanelFacts DEF SlowDma, Takes, DsiTyped, DsiSetup, DsiSent
  <1>2. DsiStage'
    BY PanelFacts DEF SlowDma, Takes, DsiStage, DsiTyped, DsiSetup, DsiSent
  <1>3. DsiFed'
    BY PanelFacts DEF DmaPowered, SlowDma, Takes, DsiFed, DsiTyped, DsiStage, DsiSetup, DsiSent
  <1>4. DsiWindow'
    BY PanelFacts DEF SlowDma, Takes, DsiWindow, DsiTyped, DsiStage, DsiSetup, DsiSent
  <1>5. DsiInTurn'
    BY PanelFacts DEF SlowDma, Takes, DsiInTurn, DsiTyped, DsiStage, DsiSetup, DsiSent
  <1>6. DsiOutcome'
    BY PanelFacts DEF SlowDma, Takes, DsiOutcome, DsiTyped, DsiStage, DsiSetup, DsiSent
  <1>7. DsiTrouble'
    BY PanelFacts, DeviceBounds DEF SlowDma, Takes, DsiTrouble, DsiTyped, DsiSetup
  <1> QED BY <1>1, <1>2, <1>3, <1>4, <1>5, <1>6, <1>7

(* The lanes are busy.                                                     *)
LEMMA Dsi_SlowLane ==
    ASSUME DsiInv, SlowLane
    PROVE  DsiInv'
  <1> USE DEF DsiInv, At, Info
  <1>1. DsiTyped'
    BY PanelFacts DEF SlowLane, Takes, DsiTyped, DsiSetup, DsiSent
  <1>2. DsiStage'
    BY PanelFacts DEF SlowLane, Takes, DsiStage, DsiTyped, DsiSetup, DsiSent
  <1>3. DsiFed'
    BY PanelFacts DEF DmaPowered, SlowLane, Takes, DsiFed, DsiTyped, DsiStage, DsiSetup, DsiSent
  <1>4. DsiWindow'
    BY PanelFacts DEF SlowLane, Takes, DsiWindow, DsiTyped, DsiStage, DsiSetup, DsiSent
  <1>5. DsiInTurn'
    BY PanelFacts DEF SlowLane, Takes, DsiInTurn, DsiTyped, DsiStage, DsiSetup, DsiSent
  <1>6. DsiOutcome'
    BY PanelFacts DEF SlowLane, Takes, DsiOutcome, DsiTyped, DsiStage, DsiSetup, DsiSent
  <1>7. DsiTrouble'
    BY PanelFacts, DeviceBounds DEF SlowLane, Takes, DsiTrouble, DsiTyped, DsiSetup
  <1> QED BY <1>1, <1>2, <1>3, <1>4, <1>5, <1>6, <1>7

(* A frame is asked for.                                                   *)
LEMMA Dsi_mipi_dsi_cmd_mode_trigger ==
    ASSUME DsiInv, mipi_dsi_cmd_mode_trigger
    PROVE  DsiInv'
  <1> USE DEF DsiInv, At, Info
  <1>1. DsiTyped'
    BY Zenon, PanelFacts DEF mipi_dsi_cmd_mode_trigger, Begins, Takes, DsiTyped, DsiSetup, DsiSent
  <1>2. DsiStage'
    BY PanelFacts DEF mipi_dsi_cmd_mode_trigger, Begins, Takes, DsiStage, DsiTyped, DsiSetup, DsiSent
  <1>3. DsiFed'
    BY PanelFacts DEF DmaPowered, mipi_dsi_cmd_mode_trigger, Begins, Takes, DsiFed, DsiTyped, DsiStage, DsiSetup, DsiSent
  <1>4. DsiWindow'
    BY PanelFacts DEF mipi_dsi_cmd_mode_trigger, Begins, Takes, DsiWindow, DsiTyped, DsiStage, DsiSetup, DsiSent
  <1>5. DsiInTurn'
    BY PanelFacts DEF mipi_dsi_cmd_mode_trigger, Begins, Takes, DsiInTurn, DsiTyped, DsiStage, DsiSetup, DsiSent
  <1>6. DsiOutcome'
    BY PanelFacts DEF mipi_dsi_cmd_mode_trigger, Begins, Takes, DsiOutcome, DsiTyped, DsiStage, DsiSetup, DsiSent
  <1>7. DsiTrouble'
    BY PanelFacts, DeviceBounds DEF mipi_dsi_cmd_mode_trigger, Begins, Takes, DsiTrouble, DsiTyped, DsiSetup
  <1> QED BY <1>1, <1>2, <1>3, <1>4, <1>5, <1>6, <1>7

(* The display is shut down.                                               *)
LEMMA Dsi_mdp_shutdown ==
    ASSUME DsiInv, mdp_shutdown
    PROVE  DsiInv'
  <1> USE DEF DsiInv, At, Info
  <1>a. PICK keep \in BOOLEAN :
          /\ hw' = IF keep THEN hw ELSE mdp_disable(hw)
          /\ drv' = [drv EXCEPT !.state = IF keep THEN "splash" ELSE "down"]
    BY DEF mdp_shutdown
  <1>b. part' = part /\ cpu' = [Begins("off", <<>>) EXCEPT !.list = "off"]
    BY Zenon DEF mdp_shutdown
  <1>c. /\ DOMAIN cpu' = DOMAIN cpu /\ cpu'.pc = "off" /\ cpu'.list = "off"
        /\ cpu'.i = cpu.i /\ cpu'.status = cpu.status
    BY Zenon, <1>b DEF Begins, DsiTyped
  <1>d. /\ DOMAIN hw' = DOMAIN hw /\ hw'.dma = hw.dma /\ hw'.done = hw.done
        /\ hw'.scan = hw.scan /\ hw'.unsettled = hw.unsettled /\ hw'.slow = hw.slow
        /\ hw'.up = hw.up /\ hw'.win = hw.win /\ hw'.seen = hw.seen /\ hw'.enabled \in BOOLEAN
    BY Zenon, <1>a DEF mdp_disable, DsiTyped
  <1>e. /\ DOMAIN drv' = DOMAIN drv /\ drv'.cmd_mode_status = drv.cmd_mode_status
        /\ drv'.state \in {"splash", "down"}
    BY Zenon, <1>a DEF DsiTyped
  <1>1. DsiTyped'
    BY ZenonT(30), <1>b, <1>c, <1>d, <1>e DEF DsiTyped
  <1>2. DsiStage'
    BY PanelFacts DEF mdp_shutdown, mdp_disable, Begins, DsiStage, DsiTyped, DsiSetup, DsiSent
  <1>3. DsiFed'
    BY PanelFacts DEF DmaPowered, mdp_shutdown, mdp_disable, Begins, DsiFed, DsiTyped, DsiStage, DsiSetup, DsiSent
  <1>4. DsiWindow'
    BY PanelFacts DEF mdp_shutdown, mdp_disable, Begins, DsiWindow, DsiTyped, DsiStage, DsiSetup, DsiSent
  <1>5. DsiInTurn'
    BY PanelFacts DEF mdp_shutdown, mdp_disable, Begins, DsiInTurn, DsiTyped, DsiStage, DsiSetup, DsiSent
  <1>6. DsiOutcome'
    BY PanelFacts DEF mdp_shutdown, mdp_disable, Begins, DsiOutcome, DsiTyped, DsiStage, DsiSetup, DsiSent
  <1>7. DsiTrouble'
    BY PanelFacts, DeviceBounds DEF mdp_shutdown, mdp_disable, Begins, DsiTrouble, DsiTyped, DsiSetup
  <1> QED BY <1>1, <1>2, <1>3, <1>4, <1>5, <1>6, <1>7

(* The caller takes the result.                                            *)
LEMMA Dsi_Again ==
    ASSUME DsiInv, Again
    PROVE  DsiInv'
  <1> USE DEF DsiInv, At, Info
  <1>1. DsiTyped'
    BY PanelFacts DEF Again, Called, DsiTyped, DsiSetup, DsiSent
  <1>2. DsiStage'
    BY PanelFacts DEF Again, Called, DsiStage, DsiTyped, DsiSetup, DsiSent
  <1>3. DsiFed'
    BY PanelFacts DEF DmaPowered, Again, Called, DsiFed, DsiTyped, DsiStage, DsiSetup, DsiSent
  <1>4. DsiWindow'
    BY PanelFacts DEF Again, Called, DsiWindow, DsiTyped, DsiStage, DsiSetup, DsiSent
  <1>5. DsiInTurn'
    BY PanelFacts DEF Again, Called, DsiInTurn, DsiTyped, DsiStage, DsiSetup, DsiSent
  <1>6. DsiOutcome'
    BY PanelFacts DEF Again, Called, DsiOutcome, DsiTyped, DsiStage, DsiSetup, DsiSent
  <1>7. DsiTrouble'
    BY PanelFacts, DeviceBounds DEF Again, Called, DsiTrouble, DsiTyped, DsiSetup
  <1> QED BY <1>1, <1>2, <1>3, <1>4, <1>5, <1>6, <1>7

LEMMA DsiStep == DsiInv /\ [DsiNext \/ Again]_vars => DsiInv'
  <1> SUFFICES ASSUME DsiInv, [DsiNext \/ Again]_vars PROVE DsiInv'
    OBVIOUS
  <1>1. CASE DsiNext \/ Again
    BY <1>1, Dsi_mipi_init, Dsi_mipi_dsi_cmds_tx, Dsi_dsi_cmd_dma_trigger_for_panel,
       Dsi_mipi_manufacture_id, Dsi_VideoOff, Dsi_config_dsi_video_mode,
       Dsi_mdp_setup_dma_p_video_mode, Dsi_mipi_dsi_video_config, Dsi_cmd_mode_enabled,
       Dsi_CutClocks, Dsi_config_dsi_cmd_mode, Dsi_mipi_dsi_shutdown,
       Dsi_DmaRuns, Dsi_LaneRuns, Dsi_FrameEnds,
       Dsi_SlowDma, Dsi_SlowLane, Dsi_mipi_dsi_cmd_mode_trigger,
       Dsi_mdp_shutdown, Dsi_Again
       DEF DsiNext, DsiCode, DsiHardware
  <1>2. CASE UNCHANGED vars
    <2>1. part' = part /\ hw' = hw /\ drv' = drv /\ cpu' = cpu /\ left' = left
      BY ZenonT(30), <1>2 DEF vars
    <2>2. (DsiTyped /\ DsiStage /\ DsiFed)'
      BY <2>1 DEF DsiInv, DsiTyped, DsiStage, DsiFed, Info, DmaPowered
    <2>3. (DsiWindow /\ DsiInTurn /\ DsiOutcome /\ DsiTrouble)'
      BY <2>1 DEF DsiInv, DsiWindow, DsiInTurn, DsiOutcome, DsiTrouble, Info
    <2> QED BY Zenon, <2>2, <2>3 DEF DsiInv
  <1> QED BY <1>1, <1>2

(* A window shows the frame of timing t, as FrameIsScanned has it.         *)
Shows(win, t) ==
    /\ win.he - win.hs + 1 = t.w
    /\ win.vs % win.hp = 0
    /\ (win.vs + t.h * win.hp) - win.hp + win.he <= win.ve
    /\ win.ve < win.vs + t.h * win.hp + win.hs
    /\ win.he < win.hp /\ win.ve < win.vp

(* The window of mdp_setup_dma_p_video_mode.                               *)
LEMMA VideoWindow == Shows(mdp_window(Timing), Timing)
  <1> DEFINE win == mdp_window(Timing)
             hp == Timing.w + Timing.hfp + Timing.hbp + 1
             h == Timing.h
             b == Timing.vbp
             f == Timing.vfp
  <1>1. Timing.w \in Nat \ {0} /\ Timing.hfp \in Nat /\ Timing.hbp \in Nat \ {0}
    BY FrameTiming
  <1>2. h \in Nat \ {0} /\ b \in Nat /\ f \in Nat /\ hp \in Nat /\ hp >= 2
    <2>1. h \in Nat \ {0} /\ b \in Nat /\ f \in Nat
      BY FrameTiming
    <2>2. \A x \in Nat \ {0}, y \in Nat, z \in Nat : x + y + z + 1 \in Nat /\ x + y + z + 1 >= 2
      OBVIOUS
    <2>3. hp \in Nat /\ hp >= 2
      BY Zenon, <1>1, <2>2
    <2> QED BY Zenon, <2>1, <2>3
  <1>3. /\ win.hp = hp /\ win.hs = Timing.hbp /\ win.he = Timing.w + Timing.hbp - 1
        /\ win.vp = (h + f + b + 1) * hp /\ win.vs = b * hp /\ win.ve = (h + b) * hp
    BY DEF mdp_window
  <1>4. /\ win.he - win.hs + 1 = Timing.w /\ win.he < win.hp
        /\ win.hs > 0 /\ win.hs \in Int /\ win.he \in Int
    BY <1>1, <1>3
  <1> HIDE DEF win, hp, h, b, f
  <1>5. (h + b) * hp = h * hp + b * hp /\ h * hp \in Nat /\ b * hp \in Nat
    BY <1>2
  <1>6. (b * hp) % hp = 0
    BY <1>2
  <1>7. win.vs + h * win.hp = win.ve /\ win.ve \in Int /\ win.hp \in Int
    BY <1>2, <1>3, <1>5
  <1>10. /\ (win.vs + h * win.hp) - win.hp + win.he <= win.ve
         /\ win.ve < win.vs + h * win.hp + win.hs
    <2>1. \A v, p, s, e \in Int : e < p /\ s > 0 => v - p + e <= v /\ v < v + s
      OBVIOUS
    <2> QED BY Zenon, <1>4, <1>7, <2>1
  <1>8. (h + f + b + 1) * hp = (h + b) * hp + (f + 1) * hp /\ (f + 1) * hp > 0
    BY <1>2
  <1>9. win.ve < win.vp
    BY <1>2, <1>3, <1>5, <1>8
  <1> QED BY <1>3, <1>4, <1>6, <1>9, <1>10 DEF win, h, Shows

(* The window of mipi_dsi_cmd_config.                                      *)
LEMMA CommandWindow == Shows(mipi_dsi_cmd_config(Timing), Timing)
  <1> DEFINE win == mipi_dsi_cmd_config(Timing)
             w == Timing.w
             h == Timing.h
  <1>1. w \in Nat \ {0} /\ h \in Nat \ {0}
    BY FrameTiming
  <1>2. /\ win.hp = w /\ win.hs = 0 /\ win.he = w - 1
        /\ win.vp = w * h /\ win.vs = 0 /\ win.ve = w * h - 1
    BY DEF mipi_dsi_cmd_config
  <1> HIDE DEF win, w, h
  <1>3. w * h \in Nat /\ w * h = h * w /\ 0 % w = 0
    BY <1>1
  <1>4. /\ win.ve < win.vp /\ win.vs % win.hp = 0
        /\ (win.vs + h * win.hp) - win.hp + win.he <= win.ve
        /\ win.ve < win.vs + h * win.hp + win.hs
    BY <1>1, <1>2, <1>3
  <1>5. win.he - win.hs + 1 = w /\ win.he < win.hp
    BY <1>1, <1>2
  <1> QED BY <1>4, <1>5 DEF win, w, h, Shows

LEMMA DsiAlways == DsiSpec => []DsiInv
  BY DsiStart, DsiStep, PTL DEF DsiSpec

(* mipi_init and mipi_dsi_cmd_mode_trigger, which have no result that      *)
(* tells of an error: for every panel table and whatever call comes next,  *)
(* as long as no transfer took longer than the driver polls, the panel has *)
(* been sent every packet of its table, whole, in order and once, or one   *)
(* frame (SuccessIsExact).                                                 *)
THEOREM DisplaySetUpExactly == DsiSpec => []SuccessIsExact
  <1>1. DsiInv => SuccessIsExact
    <2> SUFFICES ASSUME DsiInv, cpu.pc = "returned", ~hw.unsettled, left.faults = MaxFaults
                 PROVE  hw.seen = cpu.asked
      <3>1. DsiInv => left.faults = MaxFaults \/ left.faults < MaxFaults
        BY DeviceBounds DEF DsiInv, DsiTrouble
      <3>2. DsiInv /\ cpu.pc = "returned" => cpu.ret = "void"
        BY DEF DsiInv, DsiOutcome
      <3> QED BY <3>1, <3>2 DEF SuccessIsExact
    <2>1. cpu.list \in {"panel", "id", "frame", "off"} /\ cpu.status = 0
      BY DEF DsiInv, DsiTyped, DsiStage, DsiTrouble
    <2> QED BY <2>1 DEF DsiInv, DsiOutcome
  <1> QED BY <1>1, DsiAlways, PTL

(* Video and command mode, bring-up, frames and shutdown: the display      *)
(* processor sends pixels only while the PLL, the clocks, the controller   *)
(* and the panel's lanes are on (ScansWhenFed).                            *)
THEOREM DisplayIsFed == DsiSpec => []ScansWhenFed
  <1>1. DsiInv => ScansWhenFed
    BY DEF DsiInv, DsiFed, ScansWhenFed
  <1> QED BY <1>1, DsiAlways, PTL

(* mdp_setup_dma_p_video_mode and mipi_dsi_cmd_config: the window shows    *)
(* every pixel of every line of the frame once and none of the line after, *)
(* for any frame size and porches, the back porch of a line not being      *)
(* empty: the last clock that mdp4.c programs falls into it                *)
(* (FrameIsScanned).                                                       *)
THEOREM FrameFitsWindow == DsiSpec => []FrameIsScanned
  <1>1. DsiInv => FrameIsScanned
    <2> SUFFICES ASSUME DsiInv, hw.scan
                 PROVE  Shows(hw.win, part.t)
      BY DEF FrameIsScanned, Shows
    <2>1. Info.mode \in {"video", "cmd"} /\ part.t = Timing
      BY PanelFacts DEF DsiInv, DsiTyped, Info
    <2>2. hw.win = mdp_window(Timing) \/ hw.win = mipi_dsi_cmd_config(Timing)
      BY <2>1 DEF DsiInv, DsiWindow
    <2> QED BY <2>1, <2>2, VideoWindow, CommandWindow, Zenon
  <1> QED BY <1>1, DsiAlways, PTL
=============================================================================
