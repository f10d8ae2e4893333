------------------------------- MODULE OledBus -------------------------------
(***************************************************************************)
(* The bit-banged I2C transport of qu_dong/OLED/OLED.c: the pin writes     *)
(* OLED_W_SCL() and OLED_W_SDA() that OLED_I2C_Start(), OLED_I2C_SendByte() *)
(* and OLED_I2C_Stop() make, and the transactions OLED_WriteCommand() and *)
(* OLED_WriteData() build from them.  A waveform is the sequence of pin   *)
(* writes, each <<line, level>>; the delays between them only set the     *)
(* speed and are left out.                                                *)
(*                                                                         *)
(* Reference: what an I2C receiver takes from the two lines.  SDA falling *)
(* while SCL is high is a START, SDA rising while SCL is high a STOP, and *)
(* each rising SCL samples one bit; nine bits are a byte, most significant *)
(* first, and the slot for the receiver's acknowledge.                    *)
(***************************************************************************)
EXTENDS Naturals, Sequences, SequencesExt

(* s_oled_addr: 0x3C shifted left, as ui_oled_init() sets it.           *)
OLED_ADDR == 120

Pin(line, level) == <<line, level>>

(* OLED_I2C_Start()                                                       *)
I2cStart == <<Pin("sda", 1), Pin("scl", 1), Pin("sda", 0), Pin("scl", 0)>>

(* OLED_I2C_Stop()                                                        *)
I2cStop == <<Pin("sda", 0), Pin("scl", 1), Pin("sda", 1)>>

(* !!(Byte & (0x80 >> i))                                                 *)
BitOf(byte, i) == (byte \div 2^(7 - i)) % 2

(* The acknowledge slot: release SDA and clock once without reading it.   *)
AckSlot == <<Pin("sda", 1), Pin("scl", 1), Pin("scl", 0)>>

(* Variant: the clock raised before the data bit is put on SDA.         *)
SendByteClockFirst(byte) ==
  FlattenSeq([i \in 1..8 |-> <<Pin("scl", 1), Pin("sda", BitOf(byte, i - 1)),
                               Pin("scl", 0)>>]) \o AckSlot

(* OLED_I2C_SendByte(): eight bits, each set on SDA while SCL is low and  *)
(* clocked by one SCL pulse, then the acknowledge slot.                   *)
SendByte(byte) ==
  FlattenSeq([i \in 1..8 |-> <<Pin("sda", BitOf(byte, i - 1)), Pin("scl", 1),
                               Pin("scl", 0)>>]) \o AckSlot

(* OLED_WriteCommand() and OLED_WriteData(): one START, the address, the *)
(* control byte (0x00 for a command, 0x40 for data), the payload, a STOP. *)
CommandBytes(command) == <<OLED_ADDR, 0, command>>
DataBytes(data) == <<OLED_ADDR, 64>> \o data

-----------------------------------------------------------------------------
(* Reference receiver.  Its state is the two line levels, the bits of the *)
(* byte being received and what it has decoded: "S", "P" and bytes.       *)
ByteOfBits(bits) == FoldLeft(LAMBDA acc, b : 2 * acc + b, 0, bits)

RxStep(rx, w) ==
  LET line == w[1]  v == w[2]
      scl == IF line = "scl" THEN v ELSE rx.scl
      sda == IF line = "sda" THEN v ELSE rx.sda
  IN CASE line = "sda" /\ rx.scl = 1 /\ v < rx.sda ->
            [rx EXCEPT !.sda = sda, !.bits = <<>>, !.out = Append(@, "S")]
       [] line = "sda" /\ rx.scl = 1 /\ v > rx.sda ->
            [rx EXCEPT !.sda = sda, !.bits = <<>>, !.out = Append(@, "P")]
       [] line = "scl" /\ v = 1 /\ rx.scl = 0 /\ Len(rx.bits) = 8 ->
            [rx EXCEPT !.scl = 1, !.bits = <<>>,
                       !.out = Append(@, ByteOfBits(rx.bits))]
       [] line = "scl" /\ v = 1 /\ rx.scl = 0 ->
            [rx EXCEPT !.scl = 1, !.bits = Append(@, rx.sda)]
       [] OTHER -> [rx EXCEPT !.scl = scl, !.sda = sda]

(* The receiver's state after the pin writes wave[i..], starting in rx.   *)
RECURSIVE RxRun(_, _, _)
RxRun(rx, wave, i) ==
  IF i > Len(wave) THEN rx ELSE RxRun(RxStep(rx, wave[i]), wave, i + 1)

(* Receiver states with nothing received yet.                            *)
RxAt(scl, sda) == [scl |-> scl, sda |-> sda, bits |-> <<>>, out |-> <<>>]

-----------------------------------------------------------------------------
(* A transaction is a START, bytes and a STOP, each piece starting where *)
(* the one before left the lines (both high when idle, SCL low after a    *)
(* START or a byte, SDA released after a byte).  OLED_I2C_Start() decodes *)
(* as exactly a START and OLED_I2C_Stop() as exactly a STOP from those    *)
(* states.                                                                *)
StartStopDecode ==
  /\ RxRun(RxAt(1, 1), I2cStart, 1) = [RxAt(0, 0) EXCEPT !.out = <<"S">>]
  /\ \A s \in {0, 1} :
       RxRun(RxAt(0, s), I2cStop, 1) = [RxAt(1, 1) EXCEPT !.out = <<"P">>]

(* OLED_I2C_SendByte(c) decodes as exactly the byte c.                    *)
ByteDecodes(c) ==
  \A s \in {0, 1} :
    RxRun(RxAt(0, s), SendByte(c), 1) = [RxAt(0, 1) EXCEPT !.out = <<c>>]

(* The byte values that cross the bus intact.                             *)
GoodBytes == {c \in 0..255 : ByteDecodes(c)}

=============================================================================
