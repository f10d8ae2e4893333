----------------------------- MODULE OledDisplay -----------------------------
(***************************************************************************)
(* The display thread of ui_oled.c drawing through the OLED driver        *)
(* (OledDriver) onto the panel (Ssd1306), pixel by pixel.                 *)
(*                                                                         *)
(* After ui_oled_init() only the display thread calls the driver, so each *)
(* draw_main_page() or draw_laps_page() is one step here: it changes the  *)
(* framebuffer and sends its transactions with nothing of the driver's    *)
(* interleaved.  The shell's sw_page and the engine run between frames.   *)
(* The values a frame reads from the engine are taken at one instant;     *)
(* since they range independently over their sets, every combination a   *)
(* frame torn by the shell could read is drawn as well (Consumers is      *)
(* about the tearing itself).  With at most six laps the laps page never  *)
(* scrolls, so s_laps_offset stays 0.                                     *)
(***************************************************************************)
EXTENDS OledDriver, Ssd1306, TimeFormat

CONSTANTS
  TOTALS,      \* the totals stopwatch_get_total_ms() may return
  LAP_VALUES,  \* the lap durations the engine may hold
  MAX_LAPS     \* the most laps the engine holds here (at most 6)

VARIABLES
  buf,           \* OLED_DisplayBuf
  panel,         \* the panel's RAM and pointers
  s_page,        \* ui_oled.c s_page
  s_page_drawn,  \* ui_oled.c s_page_drawn
  eng_total,     \* what stopwatch_get_total_ms() returns now
  eng_laps,      \* the laps stopwatch_get_lap_ms() returns now, oldest first
  shown          \* history: the page and engine values of the last frame

vars == <<buf, panel, s_page, s_page_drawn, eng_total, eng_laps, shown>>

LapSeqs == UNION {[1..n -> LAP_VALUES] : n \in 0..MAX_LAPS}

SPLASH    == <<"R", "T", "-", "T", "h", "r", "e", "a", "d">>
STOPWATCH == <<"S", "t", "o", "p", "w", "a", "t", "c", "h">>
LAP_LABEL == <<"L", "a", "p", ":">>
LAPS_TITLE == <<"L", "a", "p", "s">>

(* rt_snprintf() into a buffer of size n keeps n - 1 characters.          *)
Snprintf(s, n) == IF Len(s) < n THEN s ELSE SubSeq(s, 1, n - 1)

(* draw_laps_page line 82: "#%u %s" of the lap's format_time_ms() text.   *)
RowText(idx, v) ==
  Snprintf(<<"#">> \o Digits(idx + 1) \o <<" ">> \o Snprintf(FormatTimeMs(v), 16), 24)

(* draw_laps_page lines 88-98: "m%u M%u a%u" of min, max and the sum     *)
(* divided by the count.  sum_ms is an rt_uint32_t; the laps here are far *)
(* too short to wrap it.                                                  *)
StatText(laps) ==
  LET sum == FoldLeft(LAMBDA a, v : a + v, 0, laps)
      mn == Min(Range(laps))
      mx == Max(Range(laps))
  IN Snprintf(<<"m">> \o Digits(mn) \o <<" ", "M">> \o Digits(mx) \o <<" ", "a">>
                \o Digits(sum \div Len(laps)), 24)

(* The panel when main() starts.  After power-on its RAM is arbitrary,   *)
(* the display and the charge pump are off, and the pointers are at 0.  *)
(* The panel is not reset with the MCU: after an MCU reset it is as the   *)
(* last run left it, with the pointers anywhere and, if the reset fell    *)
(* between the two OLED_WriteCommand() calls of a two-byte command, the   *)
(* decoder waiting for its argument.  That run had turned on the pump     *)
(* before the display.                                                    *)
StartPanels ==
  {[gram |-> g, page |-> p, col |-> x, arg |-> a, on |-> o, pump |-> u]
     : g \in {BlankBuf, [q \in Pages |-> [y \in Cols |-> BITS]]},
       p \in {0, 7}, x \in {0, 100}, a \in {0} \cup TWO_BYTE_CMDS,
       <<o, u>> \in {<<FALSE, FALSE>>, <<FALSE, TRUE>>, <<TRUE, TRUE>>}}

(* main() after stopwatch_init(): ui_oled_init() has initialised the      *)
(* panel and drawn the splash screen.                                     *)
Init ==
  LET b == ShowString(ShowString(BlankBuf, 0, 0, SPLASH, OLED_6X8),
                      0, 16, STOPWATCH, OLED_8X16)
  IN /\ buf = b
     /\ \E pn \in StartPanels : panel = PanelAfter(pn, OLED_Init \o Update(b))
     /\ s_page = 0 /\ s_page_drawn = FALSE
     /\ eng_total = 0 /\ eng_laps = <<>>
     /\ shown = [page |-> "splash", total |-> 0, laps |-> <<>>]

(* draw_main_page(): the labels after a page switch, then the time area   *)
(* and the lap area, each cleared, drawn and sent.                        *)
DrawMainPage ==
  LET total == eng_total
      cnt == Len(eng_laps)
      b1 == IF s_page_drawn THEN buf
            ELSE ShowString(ShowString(BlankBuf, 0, 0, STOPWATCH, OLED_6X8),
                            0, 36, LAP_LABEL, OLED_6X8)
      t1 == IF s_page_drawn THEN <<>> ELSE Update(b1)
      b2 == ShowString(ClearArea(b1, 0, 16, 128, 16), 0, 16, FormatTimeMs(total), OLED_8X16)
      t2 == UpdateArea(b2, 0, 16, 128, 16)
      c3 == ClearArea(b2, 30, 36, 98, 8)
      b3 == IF cnt > 0 THEN ShowString(c3, 30, 36, FormatTimeMs(eng_laps[cnt]), OLED_6X8)
            ELSE c3
      t3 == UpdateArea(b3, 30, 36, 98, 8)
  IN /\ s_page = 0
     /\ buf' = b3
     /\ panel' = PanelAfter(panel, t1 \o t2 \o t3)
     /\ s_page_drawn' = TRUE
     /\ shown' = [page |-> "main", total |-> total, laps |-> eng_laps]
     /\ UNCHANGED <<s_page, eng_total, eng_laps>>

(* draw_laps_page(): a whole new picture, sent with OLED_Update().        *)
DrawLapsPage ==
  LET cnt == Len(eng_laps)
      rows == [i \in 1..cnt |-> RowText(i - 1, eng_laps[i])]
      RECURSIVE DrawRows(_, _)
      DrawRows(b, i) == IF i > 6 \/ i > cnt THEN b
                        ELSE DrawRows(ShowString(b, 0, 8 * i, rows[i], OLED_6X8), i + 1)
      b1 == DrawRows(ShowString(BlankBuf, 0, 0, LAPS_TITLE, OLED_6X8), 1)
      b2 == IF cnt > 0 THEN ShowString(b1, 0, 56, StatText(eng_laps), OLED_6X8) ELSE b1
  IN /\ s_page = 1
     /\ buf' = b2
     /\ panel' = PanelAfter(panel, Update(b2))
     /\ shown' = [page |-> "laps", total |-> eng_total, laps |-> eng_laps]
     /\ UNCHANGED <<s_page, s_page_drawn, eng_total, eng_laps>>

(* sw_page main|laps -> ui_oled_set_page()                                *)
SetPage(p) ==
  /\ s_page' = p /\ s_page_drawn' = FALSE
  /\ UNCHANGED <<buf, panel, eng_total, eng_laps, shown>>

(* The shell or the time moves the stopwatch.                             *)
EngineStep ==
  /\ eng_total' \in TOTALS /\ eng_laps' \in LapSeqs
  /\ UNCHANGED <<buf, panel, s_page, s_page_drawn, shown>>

Next ==
  \/ DrawMainPage \/ DrawLapsPage
  \/ \E p \in {0, 1} : SetPage(p)
  \/ EngineStep

Spec == Init /\ [][Next]_vars

-----------------------------------------------------------------------------
Byte == SUBSET BITS

(* The value of a byte.                                                  *)
ByteValue(v) == MapThenSumSet(LAMBDA b : 2^b, v)

(* The framebuffer bytes that cross the bus intact.                       *)
GoodBufBytes == {v \in Byte : ByteValue(v) \in GoodBytes}

(* Every byte of every transaction the driver sends reaches the panel as  *)
(* that byte, between a START and a STOP: the address and control bytes, *)
(* the commands of OLED_Init() and OLED_SetCursor(), and each framebuffer *)
(* byte that OLED_Update() or OLED_UpdateArea() sends.  The bit-banging   *)
(* of OLED_I2C_SendByte() never moves SDA while SCL is high and sends the *)
(* bits most significant first.                                           *)
WireFramesDecode ==
  /\ StartStopDecode
  /\ {OLED_ADDR, 0, 64} \cup Range(INIT_CMDS) \cup (176..183) \cup (0..23) \subseteq GoodBytes
  /\ \A p \in Pages, x \in Cols : buf[p][x] \in GoodBufBytes

(* The panel always shows the framebuffer: every byte a frame changes is  *)
(* sent, to the page and column it belongs to, by the OLED_UpdateArea()  *)
(* or OLED_Update() that follows the drawing.                             *)
PanelShowsBuffer == panel.gram = buf

(* The lit pixels of the panel's RAM, as <<x, y>>.                        *)
Lit(gram) == UNION {{<<x, 8 * p + b>> : b \in gram[p][x]} : p \in Pages, x \in Cols}

(* Reference: the pixels of the text s drawn from (X, Y), each character  *)
(* adv pixels right of the one before, clipped to the 128 x 64 screen.    *)
Text(X, Y, s, adv) ==
  UNION {{<<X + (k - 1) * adv + c, Y + r>> : r \in OLED_F6x8[s[k]][c + 1]}
           : k \in DOMAIN s, c \in 0..5}
  \cap (Cols \X (0..63))

Picture(f) ==
  CASE f.page = "splash" ->
         Text(0, 0, SPLASH, OLED_6X8) \cup Text(0, 16, STOPWATCH, OLED_8X16)
    [] f.page = "main" ->
         Text(0, 0, STOPWATCH, OLED_6X8) \cup Text(0, 36, LAP_LABEL, OLED_6X8)
         \cup Text(0, 16, FormatTimeMs(f.total), OLED_8X16)
         \cup (IF f.laps = <<>> THEN {}
               ELSE Text(30, 36, FormatTimeMs(f.laps[Len(f.laps)]), OLED_6X8))
    [] f.page = "laps" ->
         Text(0, 0, LAPS_TITLE, OLED_6X8)
         \cup UNION {Text(0, 8 * i, RowText(i - 1, f.laps[i]), OLED_6X8)
                     : i \in DOMAIN f.laps}
         \cup (IF f.laps = <<>> THEN {} ELSE Text(0, 56, StatText(f.laps), OLED_6X8))

(* What the panel lights: its RAM, once it is on and its pump enabled.   *)
Seen(pn) == IF pn.on /\ pn.pump THEN Lit(pn.gram) ELSE {}

(* The panel shows exactly the picture of the last frame: its labels, the *)
(* time and the latest lap it read (or no lap), or the laps with their    *)
(* statistics, and nothing left over from an earlier frame or page; and   *)
(* it does so whatever state an MCU reset left the panel in before        *)
(* ui_oled_init() ran OLED_Init().                                        *)
ScreenReadsBack == Seen(panel) = Picture(shown)

=============================================================================
