------------------------------- MODULE Ssd1306 -------------------------------
(***************************************************************************)
(* The panel at the other end of the bus, as its datasheet describes it:  *)
(* an SSD1306 at I2C address 0x3C (0x78 with the write bit), in the page  *)
(* addressing mode it resets to.  Its state is its display RAM (8 pages  *)
(* of 128 column bytes, a byte the set of its lit rows), the page and     *)
(* column pointers, the two-byte command whose argument it waits for (0:  *)
(* none), whether the display is on and whether the charge pump that      *)
(* drives it is enabled.  The command decoder keeps waiting for an        *)
(* argument across transactions.  It takes one transaction at a time:    *)
(* the address, a control byte (0x00: the rest are commands, 0x40: the    *)
(* rest are data), the rest.  Each data byte lands at the column        *)
(* pointer, which then moves right and wraps from 127 to 0 in the page.   *)
(***************************************************************************)
EXTENDS Naturals, Sequences, SequencesExt

PANEL_ADDR == 120

(* The commands that take one argument byte: clock divide, multiplex,    *)
(* display offset, COM pins, contrast, precharge, VCOMH, charge pump.     *)
TWO_BYTE_CMDS == {213, 168, 211, 218, 129, 217, 219, 141}

(* 0x8D's argument enables the charge pump when its bit 2 is set.        *)
PanelCmd(pn, c) ==
  CASE pn.arg # 0 -> [pn EXCEPT !.arg = 0,
                                !.pump = IF pn.arg = 141 THEN (c \div 4) % 2 = 1 ELSE @]
    [] c \in TWO_BYTE_CMDS -> [pn EXCEPT !.arg = c]
    [] c \in {174, 175} -> [pn EXCEPT !.on = (c = 175)]
    [] c \in 176..183 -> [pn EXCEPT !.page = c - 176]
    [] c \in 16..23 -> [pn EXCEPT !.col = 16 * (c - 16) + (pn.col % 16)]
    [] c \in 0..15 -> [pn EXCEPT !.col = 16 * (pn.col \div 16) + c]
    [] OTHER -> pn

(* At most 128 data bytes per transaction, so no column is written twice. *)
PanelData(pn, d) ==
  [pn EXCEPT
     !.gram[pn.page] = [x \in 0..127 |->
                          LET k == (x - pn.col + 128) % 128
                          IN IF k < Len(d) THEN d[k + 1] ELSE @[x]],
     !.col = (pn.col + Len(d)) % 128]

PanelTx(pn, t) ==
  CASE t[1] # PANEL_ADDR -> pn
    [] t[2] = 0 -> FoldLeft(PanelCmd, pn, Tail(Tail(t)))
    [] t[2] = 64 -> PanelData(pn, Tail(Tail(t)))
    [] OTHER -> pn

(* Each state is computed before the next transaction is applied to it.  *)
RECURSIVE PanelRun(_, _, _)
PanelRun(pn, txs, i) ==
  IF i > Len(txs) THEN pn
  ELSE LET next == PanelTx(pn, txs[i])
       IN IF next.page \in 0..7 THEN PanelRun(next, txs, i + 1) ELSE next

(* The panel after a sequence of transactions.                            *)
PanelAfter(pn, txs) == PanelRun(pn, txs, 1)

=============================================================================
