------------------------------- MODULE LkPanel -------------------------------
(***************************************************************************)
(* Bringing up the other displays of the boot loader: MDDI panels behind a *)
(* Toshiba bridge (mddi.c and the platforms' panel.c), LCDC panels that    *)
(* are powered and set up over bit-banged SPI (lcdc.c, msm7x30, msm8x60)   *)
(* and HDMI (hdmi.c, hdmi_core.c).  Each is a program of steps             *)
(* <<operation, argument, count>>:                                         *)
(*   on, off x    a supply, clock or block goes on, or off;                *)
(*   rise x       it goes on and is usable after the next wait;            *)
(*   try x k      may fail: the next k steps are skipped, the error noted; *)
(*   lose x       may fail, and the result is not looked at;               *)
(*   spin x       may fail: the code then loops for ever;                  *)
(*   cmd c        a command sent to the panel over its own serial lines;   *)
(*   wr x         a bridge register written over the MDDI link;            *)
(*   spi c k      a command of k words written to the bridge's SPI FIFO;   *)
(*   wait, scan, stop.                                                     *)
(***************************************************************************)
EXTENDS LkDevice, Integers, Sequences, SequencesExt

CONSTANT LcdcFrame   \* DEFAULT_LCD_TIMING: frame size and porches

Step(op, x) == <<op, x, 0>>
Steps(op, xs) == [i \in DOMAIN xs |-> Step(op, xs[i])]
Wait == <<Step("wait", "")>>
Try(x, k) == <<<<"try", x, k>>>>

-----------------------------------------------------------------------------
(* The init tables of the Toshiba bridge.                                  *)

\* A command and its parameters, one word each, then a wait for the FIFO.
Bursts(op, frames) ==
    FlattenSeq([i \in DOMAIN frames |->
        <<<<op, frames[i][1], frames[i][2] + 1>>>> \o Wait])

\* Two commands of one parameter each before the wait.
Pairs(op, frames) ==
    FlattenSeq([i \in DOMAIN frames |->
        <<<<op, frames[i][1], 2>>, <<op, frames[i][2], 2>>>> \o Wait])

toshiba_480x640_start ==
    Steps("wr", <<"DPSET0", "DPSET1", "DPSUS", "DPRUN">>) \o Wait
    \o Steps("wr", <<"SYSCKENA", "CLKENB", "GPIO", "DRAMPWR", "PWM">>) \o Wait
    \o Steps("wr", <<"SSICTL", "SSITIME", "SSIENB">>)
    \o Bursts("spi", <<<<"0", 0>>, <<"0", 0>>, <<"0", 0>>>>)

toshiba_480x640_gate ==
    Pairs("spi", <<<<"BA", "36">>, <<"BB", "3A">>, <<"BF", "B1">>, <<"B2", "B3">>, <<"B4", "B5">>,
            <<"B6", "B7">>, <<"B9", "BD">>, <<"BE", "C0">>, <<"C1", "C2">>>>)
    \o Bursts("spi", <<<<"C3", 2>>, <<"C4", 2>>, <<"C5", 2>>, <<"C6", 2>>, <<"C7", 2>>>>)
    \o Pairs("spi", <<<<"C8", "C9">>>>)
    \o Bursts("spi", <<<<"CA", 1>>, <<"EC", 2>>, <<"CF", 1>>, <<"D0", 2>>, <<"D1", 1>>,
                <<"D2", 2>>, <<"D3", 2>>, <<"D4", 2>>, <<"D5", 1>>>>)

\* The last command is not waited for; the waits of the tail cover it.
toshiba_480x640_qvga ==
    Bursts("spi", <<<<"ED", 2>>, <<"D6", 1>>, <<"D7", 2>>, <<"D8", 1>>, <<"D9", 2>>,
             <<"DE", 2>>, <<"DF", 2>>>>)
    \o Pairs("spi", <<<<"E0", "E2">>>>)
    \o Bursts("spi", <<<<"E3", 1>>, <<"E4", 2>>, <<"E5", 2>>, <<"E6", 1>>, <<"E7", 2>>>>)
    \o <<<<"spi", "E8", 2>>>>

\* Display settings, sleep out, display on.
DisplayOn(op, pause) ==
    Pairs(op, <<<<"BC", "3B">>>>) \o Bursts(op, <<<<"B0", 1>>, <<"B8", 2>>>>)
    \o <<<<op, "11", 1>>>> \o pause \o <<<<op, "29", 1>>>>

toshiba_480x640_tail ==
    Steps("wr", <<"DCLK", "STOP", "STB", "PORT_ASYNC", "ASY">>) \o Wait
    \o Steps("wr", <<"ASY", "ASY">>) \o Wait
    \o Steps("wr", <<"ASY", "PORT_SYNC", "BITMAP", "DCLK", "PORT_SYNC", "TIMING", "START">>)
    \o Wait \o DisplayOn("spi", <<>>) \o Steps("wr", <<"WKREQ">>)

toshiba_480x640_init_table ==
    toshiba_480x640_start \o toshiba_480x640_gate \o toshiba_480x640_qvga
    \o toshiba_480x640_tail

\* The same table in msm7x27a/panel.c.
toshiba_480x640_7x27a == toshiba_480x640_init_table

\* The panel of 800 lines: qsd8k/panel.c, and msm7x30/panel.c below.
toshiba_480x800_start ==
    Steps("wr", <<"DPSET0", "DPSET1", "DPSUS", "DPRUN">>) \o Wait
    \o Steps("wr", <<"SYSCKENA", "CLKENB", "GPIO", "DRAMPWR", "EDRAM", "PWM">>) \o Wait
    \o Steps("wr", <<"SSICTL", "SSITIME", "SSIENB">>)
    \o Bursts("spi", <<<<"0", 0>>, <<"0", 0>>, <<"0", 0>>>>)

Frames800 ==
    << <<"BA", "36">>, <<"3A", "B1">>, <<"B2", "B3">>, <<"B4", "B5">>, <<"B6", "B7">>,
       <<"B9", "BD">>, <<"BB", "BF">>, <<"BE", "C0">>, <<"C1", "C2">> >>

Long800 == << <<"CA", 1>>, <<"EC", 2>>, <<"CF", 1>>, <<"D0", 2>>, <<"D1", 1>>, <<"D2", 2>>,
              <<"D3", 2>>, <<"D4", 2>>, <<"D5", 1>>, <<"EF", 2>> >>

Long640 == << <<"C3", 2>>, <<"C4", 2>>, <<"C5", 2>>, <<"C6", 2>>, <<"C7", 2>> >>

toshiba_480x800_frames(op) ==
    Pairs(op, Frames800) \o Bursts(op, Long640) \o Pairs(op, <<<<"C8", "C9">>>>)
    \o Bursts(op, Long800)

toshiba_480x800_tail(pause) ==
    Steps("wr", <<"BITMAP", "DCLK", "PORT_SYNC", "TIMING", "START">>) \o Wait
    \o DisplayOn("spi", pause)

toshiba_480x800_init_table ==
    toshiba_480x800_start \o toshiba_480x800_frames("spi") \o toshiba_480x800_tail(<<>>)

\* The 7x30 waits between sleep out and display on.
toshiba_480x800_7x30 ==
    toshiba_480x800_start \o toshiba_480x800_frames("spi") \o toshiba_480x800_tail(Wait)

-----------------------------------------------------------------------------
(* MDDI: the host core, then the bridge's table, then the link goes idle   *)
(* between frames.                                                         *)

mddi_init_regs ==
    Steps("link", <<"RESET", "PERIODIC_REV_ENC">>) \o Steps("rise", <<"pads">>) \o Wait
    \o Steps("link", <<"FORCE_NEW_REV_PTR", "HIBERNATE_OFF">>)

mddi_set_auto_hibernate == Steps("link", <<"POWER_DOWN", "HIBERNATE_ON">>)

\* panel_poweron pulses GPIO 88 when the table has been written.
panel_poweron_7k == Steps("off", <<"gpio88">>) \o Steps("rise", <<"gpio88">>) \o Wait
panel_poweron_7x27a == panel_poweron_7k
panel_poweron_8k == panel_poweron_7k

mddi_init(table, poweron) ==
    mddi_init_regs \o table \o poweron \o mddi_set_auto_hibernate
    \o Steps("link", <<"LINK_ACTIVE">>)

\* height / 8 strips of eight lines each, at y = 0, 8, ...
mddi_strips(t) ==
    [hp |-> t.w, hs |-> 0, he |-> t.w - 1, vp |-> t.w * t.h,
     vs |-> 0, ve |-> t.w * 8 * (t.h \div 8) - 1]

-----------------------------------------------------------------------------
(* msm7x30: the supplies of the Toshiba chip, and its LCDC variant.        *)

Rails(xs) == FlattenSeq([i \in DOMAIN xs |-> Steps("rise", <<xs[i]>>) \o Wait])
Reset == Steps("rise", <<"reset">>) \o Wait

\* An error of the reset pin skips the supplies and the rest of its caller.
display_common_power(after) ==
    LET rails == Steps("off", <<"reset">>) \o Rails(<<"LDO20", "LDO12", "LDO16", "LDO15">>)
                 \o Reset
    IN  Try("reset_gpio", Len(rails \o after)) \o rails \o after

lcdc_toshiba_panel_power == display_common_power(Try("spi_gpio", 0))

\* The commands go out over three GPIO lines whatever came of the supplies.
toshiba_spi_write == "cmd"

lcdc_disp_on ==
    Bursts(toshiba_spi_write, <<<<"0", 0>>, <<"0", 0>>, <<"0", 0>>>>)
    \o toshiba_480x800_frames(toshiba_spi_write) \o DisplayOn(toshiba_spi_write, Wait) \o Wait

mdp_lcdc_clock_init == Steps("on", <<"mdp_clk", "pixel_clk">>)
Scan == Steps("scan", <<"">>)

lcdc_on == lcdc_toshiba_panel_power \o lcdc_disp_on

\* The 7x30 display with MDDI: the same supplies, then the link.
mddi_panel_poweron == display_common_power(<<>>)

\* The Sharp panel.
sharp_lcdc_panel_power ==
    LET power == Steps("off", <<"VEE">>) \o Wait \o Steps("rise", <<"LDO08", "LDO12", "LDO15">>)
                 \o Wait \o Steps("rise", <<"VEE">>) \o Wait \o Reset \o Try("spi_gpio", 0)
        held == Steps("off", <<"reset">>) \o Try("vee_gpio", Len(power)) \o power
    IN  Try("reset_gpio", Len(held)) \o held

init_sequence ==
    <<15, 5, 7, 9, 10, 17, 21, 22, 23, 24, 25, 26, 27, 28, 29, 49, 50, 51, 55, 56, 57, 60, 61,
      62, 63, 92, 97, 98, 113, 114, 115, 123, 124, 6, 133, 134, 135, 136, 137, 138, 139, 140,
      141, 142, 143, 144, 145, 146, 147, 148, 149, 150, 202, 30, 4, 31>>

serigo(addrs) == [i \in DOMAIN addrs |-> <<"cmd", ToString(addrs[i]), 2>>]

sharp_lcdc_disp_on == serigo(init_sequence) \o Wait \o serigo(<<31>>) \o Wait
                      \o serigo(<<31, 31>>)

sharp_lcdc_on ==
    Steps("on", <<"pixel_clk">>) \o sharp_lcdc_panel_power \o Steps("on", <<"backlight">>)
    \o sharp_lcdc_disp_on

sharp_timing_param == [w |-> 480, h |-> 800, hpw |-> 10, hbp |-> 20, hfp |-> 10,
                       vpw |-> 2, vbp |-> 2, vfp |-> 2]

-----------------------------------------------------------------------------
(* msm8x60: an LVDS panel behind an I2C expander, the AUO panel of the     *)
(* fluid board, and HDMI.                                                  *)

Rest == 1000   \* longer than any program: the callers return as well

\* Every error ends the set-up but the one of writing LDO L2 itself, whose
\* result is overwritten by the next read.
lcd_power_on ==
    Try("bank2", Rest) \o Try("bank2", Rest) \o Try("L2 value", Rest)
    \o Steps("lose", <<"L2">>)
    \o Try("bank4", Rest) \o Try("bank4", Rest) \o Try("bank2", Rest) \o Try("bank2", Rest)
    \o Try("PMR value", Rest) \o Try("PMR", Rest)

panel_set_backlight ==
    Try("pwm0", 3) \o Try("pwm1", 2) \o Try("pwm0 on", 1) \o Try("pwm1 on", 0)

\* The result of expander_write is looked at by none of its callers.
expander_write(xs) == Steps("lose", xs)

board_lcd_enable ==
    Steps("spin", <<"i2c">>) \o expander_write(<<"lvds drain", "lvds output", "lvds">>)
    \o lcd_power_on \o Steps("on", <<"lcd_gpio">>) \o Wait \o Steps("on", <<"bl_gpio">>)
    \o panel_set_backlight \o expander_write(<<"backlight output", "backlight">>)

auo_panel_init ==
    FlattenSeq([i \in 1..7 |->
        <<<<"cmd", <<"SLEEP_OUT", "FORMAT", "RGBCTRL", "DISP_ON", "BCTRL", "PWM_EN", "CABC">>[i],
            1>>>> \o Wait])

auo_board_lcd_enable ==
    Steps("spin", <<"i2c">>) \o expander_write(<<"resx output">>) \o Steps("off", <<"reset">>)
    \o lcd_power_on \o Wait \o expander_write(<<"reset">>) \o Wait \o Steps("off", <<"reset">>)
    \o Wait \o expander_write(<<"reset">>) \o Wait \o Steps("on", <<"lcd_gpio", "spi_gpio">>)
    \o auo_panel_init

hdmi_msm_reset_core ==
    Steps("off", <<"hdmi_ctrl", "app_clk">>) \o Wait \o Steps("on", <<"app_clk">>)
    \o Steps("off", <<"core", "ahb">>) \o Wait \o Steps("rise", <<"core", "ahb">>) \o Wait

hdmi_msm_init_phy == Steps("on", <<"phy">>)
hdmi_video_setup == Steps("on", <<"video">>)

hdmi_msm_turn_on ==
    hdmi_msm_reset_core \o hdmi_msm_init_phy \o Steps("on", <<"reftimer">>)
    \o hdmi_video_setup \o Steps("on", <<"hdmi_ctrl">>)

hdmi_display_init ==
    Steps("on", <<"app_clk">>) \o Steps("lose", <<"ldo", "vreg">>) \o Steps("on", <<"gpio">>)
    \o Steps("lose", <<"mpp", "vs">>) \o hdmi_msm_turn_on

dtv_on ==
    Steps("off", <<"pll2">>) \o Wait \o Steps("on", <<"pll2_config">>) \o Steps("rise", <<"pll2">>)
    \o Wait \o Steps("on", <<"tv_src", "hdmi_clk", "tv_root">>) \o Steps("off", <<"tv_core">>)
    \o Wait \o Steps("rise", <<"tv_core">>) \o Wait \o Steps("rise", <<"dtv_clk">>) \o Wait

hdmi_timing == [w |-> 1920, h |-> 1080, hpw |-> 44, hbp |-> 148, hfp |-> 88,
                vpw |-> 5, vbp |-> 36, vfp |-> 4]

-----------------------------------------------------------------------------
(* The windows, in pixel clocks of the frame.                              *)

lcdc_init_set(t) ==
    LET hp == t.hpw + t.hbp + t.w + t.hfp
        vp == (t.vpw + t.vbp + t.h + t.vfp) * hp
    IN  [hp |-> hp, hs |-> t.hpw + t.hbp, he |-> hp - t.hfp - 1,
         vp |-> vp, vs |-> (t.vpw + t.vbp) * hp, ve |-> vp - t.vfp * hp - 1]

\* The end of the frame is a number, not the value computed before it.
hdmi_dtv_init(t) == [lcdc_init_set(t) EXCEPT !.ve = 2466199]

-----------------------------------------------------------------------------
(* The displays: program, supplies the commands and the pixels depend on.  *)

Toshiba == {"LDO20", "LDO12", "LDO16", "LDO15"}
Sharp == {"LDO08", "LDO12", "LDO15", "VEE"}
Bridge == {"LINK", "SYSCKENA", "CLKENB", "DRAMPWR"}
Lcdc == {"mdp_clk", "pixel_clk"}

Display(init, rails, serial, needs, t, win) ==
    [init |-> init, rails |-> rails, serial |-> serial, needs |-> needs, t |-> t, win |-> win]

Lines(n) == [w |-> 480, h |-> n]

MddiDisplay(init, rails, n) ==
    Display(init, rails, Bridge \cup {"SSIENB"}, Bridge \cup {"START"}, Lines(n),
            mddi_strips(Lines(n)))

displays == [
    msm7k |-> MddiDisplay(mddi_init(toshiba_480x640_init_table, panel_poweron_7k), {}, 640),
    msm7x27a |-> MddiDisplay(mddi_init(toshiba_480x640_7x27a, panel_poweron_7x27a), {}, 640),
    qsd8k |-> MddiDisplay(mddi_init(toshiba_480x800_init_table, panel_poweron_8k), {}, 800),
    msm7x30 |-> MddiDisplay(mddi_panel_poweron
                            \o mddi_init(toshiba_480x800_7x30, <<>>), Toshiba, 800),
    lcdc7x30 |-> Display(mdp_lcdc_clock_init \o Scan \o lcdc_on, Toshiba,
                         Toshiba \cup {"reset", "spi_gpio"}, Lcdc, LcdcFrame,
                         lcdc_init_set(LcdcFrame)),
    sharp |-> Display(mdp_lcdc_clock_init \o Scan \o sharp_lcdc_on, Sharp,
                      Sharp \cup {"reset", "spi_gpio"}, Lcdc, sharp_timing_param,
                      lcdc_init_set(sharp_timing_param)),
    lvds |-> Display(mdp_lcdc_clock_init \o Scan \o Steps("on", <<"backlight">>)
                     \o board_lcd_enable, {"L2"}, {}, Lcdc, LcdcFrame, lcdc_init_set(LcdcFrame)),
    auo |-> Display(mdp_lcdc_clock_init \o Scan \o auo_board_lcd_enable, {"L2"},
                    {"L2", "PMR", "reset", "spi_gpio"}, Lcdc, LcdcFrame, lcdc_init_set(LcdcFrame)),
    hdmi |-> Display(Steps("on", <<"mdp_clk">>) \o hdmi_display_init \o dtv_on \o Scan, {}, {},
                     {"mdp_clk", "app_clk", "core", "phy", "hdmi_ctrl", "pll2", "tv_src",
                      "tv_core", "dtv_clk"}, hdmi_timing, hdmi_dtv_init(hdmi_timing))]

\* What the hardware wants on before x has an effect.
Wants(x) ==
    CASE x = "reset" -> displays[part.name].rails
      [] x = "DPRUN" -> {"DPSUS"}
      [] x = "SYSCKENA" -> {"DPRUN"}
      [] x \in {"CLKENB", "GPIO"} -> {"SYSCKENA"}
      [] x = "DRAMPWR" -> {"CLKENB"}
      [] x = "SSIENB" -> {"CLKENB", "GPIO", "SSITIME"}
      [] x = "START" -> {"DCLK", "TIMING", "DRAMPWR"}
      [] x = "tv_src" -> {"pll2"}
      [] OTHER -> {}

FifoDepth == 4    \* words the bridge's serial port holds
Slow == {"DPRUN"} \* the PLL takes some time

Put(h, x) == IF Wants(x) \subseteq h.up THEN [h EXCEPT !.up = @ \cup {x}] ELSE h

Hears(h, s) ==
    IF displays[part.name].serial \subseteq h.up
    THEN [h EXCEPT !.seen = Append(@, Op(s[2], s[3]))] ELSE h

Mddi == part.name \in {"msm7k", "msm7x27a", "qsd8k", "msm7x30"}
Program == displays[part.name].init
Now == Program[cpu.i]

\* The commands a program is to deliver to the panel.
SerialCommands(p) ==
    LET cs == SelectSeq(p, LAMBDA s : s[1] \in {"cmd", "spi"})
    IN  [i \in DOMAIN cs |-> Op(cs[i][2], cs[i][3])]

\* What a step of the processor does at once.
Does(h, s) ==
    CASE s[1] = "off"  -> [h EXCEPT !.up = @ \ {s[2]}, !.rising = @ \ {s[2]}]
      [] s[1] = "rise" -> IF Wants(s[2]) \subseteq h.up
                          THEN [h EXCEPT !.rising = @ \cup {s[2]}] ELSE h
      [] s[1] = "wait" -> [h EXCEPT !.up = @ \cup h.rising, !.rising = {}, !.fifo = 0]
      [] s[1] = "cmd"  -> Hears(h, s)
      [] s[1] = "scan" -> [h EXCEPT !.scan = TRUE, !.win = displays[part.name].win]
      [] OTHER         -> Put(h, s[2])

\* What the link's hardware does with the entry it was given.
Carries(h, s) ==
    IF s[1] = "link"
    THEN [h EXCEPT !.up = CASE s[2] \in {"HIBERNATE_OFF", "LINK_ACTIVE"} -> @ \cup {"LINK"}
                            [] s[2] = "POWER_DOWN" -> @ \ {"LINK"}
                            [] OTHER -> @]
    ELSE IF "LINK" \notin h.up \/ (s[1] = "spi" /\ h.fifo + s[3] > FifoDepth) THEN h
    ELSE IF s[1] = "spi" THEN [Hears(h, s) EXCEPT !.fifo = @ + s[3]]
    ELSE CASE s[2] = "STOP" -> [h EXCEPT !.up = @ \ {"START"}]
           [] s[2] \in Slow -> [h EXCEPT !.rising = @ \cup {s[2]}]
           [] OTHER -> Put(h, s[2])

-----------------------------------------------------------------------------
display_init ==
    /\ At("panel", "idle") /\ drv = "new"
    /\ drv' = "up"
    /\ cpu' = [Begins("run", SerialCommands(Program)) EXCEPT !.i = 1]
    /\ UNCHANGED <<part, hw, left, hist>>

Running == At("panel", "run") /\ cpu.i <= Len(Program)

\* A register write, a delay, a frame on the serial lines, a call that worked.
PanelStep ==
    /\ Running /\ Now[1] \notin {"link", "wr", "spi"}
    /\ hw' = Does(hw, Now)
    /\ cpu' = [cpu EXCEPT !.i = @ + 1]
    /\ UNCHANGED <<part, drv, left, hist>>

StepFails ==
    /\ Running /\ Now[1] \in {"try", "lose", "spin"} /\ Takes("faults")
    /\ cpu' = CASE Now[1] = "try"  -> [cpu EXCEPT !.i = @ + 1 + Now[3]]
                [] Now[1] = "lose" -> [cpu EXCEPT !.i = @ + 1]
                [] Now[1] = "spin" -> [cpu EXCEPT !.pc = "spin"]
    /\ UNCHANGED <<part, hw, drv, hist>>

\* mddi_remote_write and mddi_do_cmd: hand over the one shared entry ...
mddi_remote_write ==
    /\ Running /\ Now[1] \in {"link", "wr", "spi"}
    /\ hw' = [hw EXCEPT !.list = "busy"]
    /\ cpu' = [cpu EXCEPT !.pc = "link"]
    /\ UNCHANGED <<part, drv, left, hist>>

LinkRuns ==
    /\ At("panel", "link") /\ hw.list = "busy"
    /\ hw' = [Carries(hw, Now) EXCEPT !.list = "done"]
    /\ UNCHANGED <<part, drv, cpu, left, hist>>

\* ... and spin until the hardware is done with it, before it is used again.
mddi_wait_status ==
    /\ At("panel", "link") /\ hw.list = "done"
    /\ cpu' = [cpu EXCEPT !.pc = "run", !.i = @ + 1]
    /\ UNCHANGED <<part, hw, drv, left, hist>>

\* lcdc_init and mddi_init give their frame buffer in any case; the board's
\* functions have no result.
PanelReady ==
    /\ At("panel", "run") /\ cpu.i > Len(Program)
    /\ Return("void")
    /\ UNCHANGED <<part, hw, drv, left, hist>>

\* A frame over the link; fbcon waits for it before it draws again.
mddi_start_update ==
    /\ At("panel", "idle") /\ drv = "up" /\ Mddi /\ Takes("jobs")
    /\ hw' = [hw EXCEPT !.scan = TRUE, !.win = displays[part.name].win, !.seen = <<>>]
    /\ cpu' = Begins("frame", <<Op("frame", 1)>>)
    /\ UNCHANGED <<part, drv, hist>>

StripsSent ==
    /\ At("panel", "frame") /\ hw.scan
    /\ hw' = [hw EXCEPT !.scan = FALSE, !.seen = Append(@, Op("frame", 1))]
    /\ UNCHANGED <<part, drv, cpu, left, hist>>

mddi_update_done ==
    /\ At("panel", "frame") /\ ~hw.scan
    /\ Return("ok")
    /\ UNCHANGED <<part, hw, drv, left, hist>>

\* lcdc_shutdown, hdmi_display_shutdown: the engine stops, the clocks stay.
display_shutdown ==
    /\ At("panel", "idle") /\ drv = "up" /\ ~Mddi
    /\ hw' = [hw EXCEPT !.scan = FALSE, !.seen = <<>>]
    /\ drv' = "down"
    /\ cpu' = [Begins("returned", <<>>) EXCEPT !.ret = "void"]
    /\ UNCHANGED <<part, left, hist>>

-----------------------------------------------------------------------------
PanelInit ==
    /\ \E n \in DOMAIN displays :
          part = [kind |-> "panel", name |-> n, t |-> displays[n].t, needs |-> displays[n].needs]
    /\ hw = [up |-> {}, rising |-> {}, fifo |-> 0, list |-> "done", scan |-> FALSE,
             win |-> <<>>, seen |-> <<>>, unsettled |-> FALSE]
    /\ drv = "new"
    /\ cpu = [pc |-> "idle", asked |-> <<>>, ret |-> "none", i |-> 0]
    /\ left = FullBounds /\ hist = <<>>

PanelCode == \/ PanelStep \/ mddi_remote_write \/ mddi_wait_status \/ PanelReady
             \/ mddi_update_done

PanelHardware == LinkRuns \/ StripsSent

PanelNext == \/ display_init \/ mddi_start_update \/ display_shutdown
             \/ PanelCode \/ PanelHardware \/ StepFails
=============================================================================
