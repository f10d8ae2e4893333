----------------------------- MODULE OledDriver -----------------------------
(***************************************************************************)
(* The framebuffer half of qu_dong/OLED/OLED.c and the transactions it    *)
(* sends to the SSD1306 panel.                                            *)
(*                                                                         *)
(* OLED_DisplayBuf[8][128] is a function from pages to columns to bytes;  *)
(* a byte is the set of its bits that are 1 (bit b of page p is pixel row *)
(* 8p + b).  A drawing operation maps a buffer to a buffer.  A transaction *)
(* (OLED_WriteCommand() or OLED_WriteData()) is the sequence of bytes     *)
(* between its START and STOP, which OledBus puts on the wire; the data   *)
(* bytes of a transaction are buffer bytes.                                *)
(*                                                                         *)
(* The panel is the environment: an SSD1306 in its reset-default page     *)
(* addressing mode, with its display RAM, page and column pointers.       *)
(***************************************************************************)
EXTENDS OledBus, Integers

CONSTANTS
  OLED_F6x8,  \* the 6x8 font: character -> <<6 column bytes>>
  OLED_8X16,  \* the FontSize codes of OLED.h: pixels a character advances
  OLED_6X8

Pages == 0..7
Cols == 0..127
BITS == 0..7

(* C's / and % on int: the quotient truncated toward zero.                *)
CDiv(a, b) == IF a >= 0 THEN a \div b ELSE -((-a) \div b)
CMod(a, b) == a - b * CDiv(a, b)

(* byte << s stored back into a uint8_t: bits pushed past bit 7 are lost. *)
Shl(v, s) == {b + s : b \in {c \in v : c + s <= 7}}

(* byte >> s; a shift by 8 leaves nothing.                                *)
Shr(v, s) == {b - s : b \in {c \in v : c >= s}}

(* The buffer after OLED_Clear().                                        *)
BlankBuf == [p \in Pages |-> [x \in Cols |-> {}]]

(* OLED_ClearArea(): clear each on-screen pixel of the rectangle, bit j%8 *)
(* of byte [j/8][i].                                                      *)
ClearArea(buf, X, Y, W, H) ==
  LET rows(p) == {j % 8 : j \in {r \in Y..(Y + H - 1) : r \in 0..63 /\ r \div 8 = p}}
  IN [p \in Pages |->
        IF rows(p) = {} THEN buf[p]
        ELSE [x \in Cols |-> IF x \in X..(X + W - 1) THEN buf[p][x] \ rows(p)
                                                   ELSE buf[p][x]]]

(* Variant: the part of each image byte that falls into the next page     *)
(* never written.                                                         *)
ShowImageNoCarry(buf, X, Y, W, H, img) ==
  LET b0 == ClearArea(buf, X, Y, W, H)
      Page == CDiv(Y, 8) - (IF Y < 0 THEN 1 ELSE 0)
      Shift == CMod(Y, 8) + (IF Y < 0 THEN 8 ELSE 0)
      Js == 0..(CDiv(H - 1, 8))
      Ink(p, i) == UNION {Shl(img[j * W + i + 1], Shift) : j \in {j \in Js : Page + j = p}}
  IN [p \in Pages |->
        IF \A j \in Js : p # Page + j THEN b0[p]
        ELSE [x \in Cols |-> IF x \in X..(X + W - 1) THEN b0[p][x] \cup Ink(p, x - X)
                                                   ELSE b0[p][x]]]

(* OLED_ShowImage(): clear the rectangle, then OR each image byte into    *)
(* the page it starts in, shifted down by Y%8, and its remainder into the *)
(* page below; columns and pages off the screen are skipped.              *)
ShowImage(buf, X, Y, W, H, img) ==
  LET b0 == ClearArea(buf, X, Y, W, H)
      Page == CDiv(Y, 8) - (IF Y < 0 THEN 1 ELSE 0)
      Shift == CMod(Y, 8) + (IF Y < 0 THEN 8 ELSE 0)
      Js == 0..(CDiv(H - 1, 8))
      Ink(p, i) ==
        UNION ({Shl(img[j * W + i + 1], Shift) : j \in {j \in Js : Page + j = p}}
               \cup {Shr(img[j * W + i + 1], 8 - Shift) : j \in {j \in Js : Page + j + 1 = p}})
  IN [p \in Pages |->
        IF \A j \in Js : p # Page + j /\ p # Page + j + 1 THEN b0[p]
        ELSE [x \in Cols |-> IF x \in X..(X + W - 1) THEN b0[p][x] \cup Ink(p, x - X)
                                                   ELSE b0[p][x]]]

(* OLED_ShowChar(): the 8x16 font is compiled out, so both sizes draw the *)
(* 6x8 glyph; any other size draws nothing.                               *)
ShowChar(buf, X, Y, ch, size) ==
  IF size \in {OLED_8X16, OLED_6X8} THEN ShowImage(buf, X, Y, 6, 8, OLED_F6x8[ch])
  ELSE buf

(* OLED_ShowString() without OLED_CHARSET_UTF8: each character drawn at   *)
(* X + XOffset, which advances by FontSize.                               *)
RECURSIVE ShowStringFrom(_, _, _, _, _, _)
ShowStringFrom(buf, X, Y, s, size, k) ==
  IF k > Len(s) THEN buf
  ELSE ShowStringFrom(ShowChar(buf, X + (k - 1) * size, Y, s[k], size), X, Y, s, size, k + 1)

ShowString(buf, X, Y, s, size) == ShowStringFrom(buf, X, Y, s, size, 1)

-----------------------------------------------------------------------------
(* Transactions.                                                          *)
Cmd(c) == CommandBytes(c)
Data(bytes) == DataBytes(bytes)

(* Variant: the column's high nibble sent without the shift by 4.         *)
SetCursorNoShift(Page, X) ==
  <<Cmd(176 + Page), Cmd(16 + 16 * (X \div 16)), Cmd(X % 16)>>

(* OLED_SetCursor(): 0xB0|Page, 0x10|((X&0xF0)>>4), 0x00|(X&0x0F), for a *)
(* page below 8 and a column below 128.                                   *)
SetCursor(Page, X) ==
  <<Cmd(176 + Page), Cmd(16 + (X \div 16)), Cmd(X % 16)>>

(* &OLED_DisplayBuf[j][X] read as Count bytes of the row-major array.     *)
BufBytes(buf, j, X, Count) ==
  [k \in 1..Count |-> LET n == 128 * j + X + k - 1 IN buf[n \div 128][n % 128]]

(* OLED_Update(): every page from column 0.                               *)
Update(buf) ==
  FlattenSeq([j \in 1..8 |-> SetCursor(j - 1, 0) \o <<Data(BufBytes(buf, j - 1, 0, 128))>>])

(* The loop of OLED_UpdateArea(): for j from Page up to Page1 - 1, the  *)
(* pages on the screen, from column X, Width bytes; none for an X off it. *)
UpdatePages(buf, X, W, Page, Page1) ==
  LET js == SetToSortSeq(IF X \in Cols THEN (Page..(Page1 - 1)) \cap Pages ELSE {}, <)
  IN FlattenSeq([k \in DOMAIN js |->
                   SetCursor(js[k], X) \o <<Data(BufBytes(buf, js[k], X, W))>>])

(* Variant: Page1 without the + 1, the last page of the area left out.    *)
UpdateAreaLastPageDropped(buf, X, Y, W, H) ==
  LET Page == CDiv(Y, 8) - (IF Y < 0 THEN 1 ELSE 0)
      Page1 == CDiv(Y + H - 1, 8) - (IF Y < 0 THEN 1 ELSE 0)
  IN UpdatePages(buf, X, W, Page, Page1)

(* OLED_UpdateArea(): the pages from Y/8 to (Y+Height-1)/8, one page     *)
(* lower for a negative Y.                                                *)
UpdateArea(buf, X, Y, W, H) ==
  LET Page == CDiv(Y, 8) - (IF Y < 0 THEN 1 ELSE 0)
      Page1 == CDiv(Y + H - 1, 8) + 1 - (IF Y < 0 THEN 1 ELSE 0)
  IN UpdatePages(buf, X, W, Page, Page1)

(* Variant: the charge pump enabled first, ahead of display-off.        *)
INIT_CMDS_PUMP_FIRST == <<141, 20, 174, 213, 128, 168, 63, 211, 0, 64, 161, 200, 218,
                          18, 129, 255, 217, 241, 219, 48, 164, 166, 175>>

(* OLED_Init()'s command list: display off, clock, multiplex, offset,     *)
(* start line, remap, COM scan, COM pins, contrast, precharge, VCOMH,     *)
(* resume, normal, charge pump, display on.                               *)
INIT_CMDS == <<174, 213, 128, 168, 63, 211, 0, 64, 161, 200, 218, 18, 129,
               255, 217, 241, 219, 48, 164, 166, 141, 20, 175>>

(* OLED_Init(): the command list, then OLED_Clear() and OLED_Update().    *)
OLED_Init == [k \in DOMAIN INIT_CMDS |-> Cmd(INIT_CMDS[k])] \o Update(BlankBuf)

=============================================================================
