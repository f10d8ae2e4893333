----------------------------- MODULE TimeFormat ------------------------------
(***************************************************************************)
(* The pure conversions of the command interface and the display:         *)
(* format_time() of stopwatch_cli.c (sw_status and the human CSV rows),    *)
(* format_time_ms() of ui_oled.c (the OLED's main page and lap rows) and   *)
(* ms_to_ticks() of stopwatch_cli.c (the CSV timer period).               *)
(*                                                                         *)
(* A formatted text is a sequence of one-character strings, as printed.   *)
(* Each conversion is checked against a reference: the value a reader of  *)
(* the text takes it to mean,                                              *)
(* and the rounding ms_to_ticks() promises in its comment.                 *)
(***************************************************************************)
EXTENDS Naturals, Sequences, SequencesExt

CONSTANTS
  TICK_PER_SECOND,  \* RT_TICK_PER_SECOND
  TICK_BITS         \* width of rt_tick_t

ASSUME TICK_PER_SECOND \in Nat \ {0} /\ TICK_BITS \in Nat \ {0}

TICK_MOD == 2^TICK_BITS

DIGIT_CHARS == <<"0", "1", "2", "3", "4", "5", "6", "7", "8", "9">>

(* The decimal text of n, most significant digit first ("%u").            *)
RECURSIVE Digits(_)
Digits(n) ==
  IF n < 10 THEN <<DIGIT_CHARS[n + 1]>>
  ELSE Digits(n \div 10) \o <<DIGIT_CHARS[(n % 10) + 1]>>

(* "%0wu": the text of n left-padded with "0" to at least w characters.  *)
Pad(n, w) ==
  LET d == Digits(n)
  IN IF Len(d) >= w THEN d ELSE [i \in 1..(w - Len(d)) |-> "0"] \o d

(* Variant: the minutes of format_time() not reduced modulo 60.         *)
FormatTimeMinutesUnreduced(total_ms) ==
  LET ms  == total_ms % 1000
      sec == (total_ms \div 1000) % 60
      min == total_ms \div 60000
      hr  == total_ms \div 3600000
      tail == Pad(min, 2) \o <<":">> \o Pad(sec, 2) \o <<".">> \o Pad(ms, 3)
  IN IF hr > 0 THEN Pad(hr, 2) \o <<":">> \o tail ELSE tail

(* format_time(): hh:mm:ss.mmm once past an hour, mm:ss.mmm before; the  *)
(* hours are not reduced, so they may take more than two digits.         *)
FormatTime(total_ms) ==
  LET ms  == total_ms % 1000
      sec == (total_ms \div 1000) % 60
      min == (total_ms \div 60000) % 60
      hr  == total_ms \div 3600000
      tail == Pad(min, 2) \o <<":">> \o Pad(sec, 2) \o <<".">> \o Pad(ms, 3)
  IN IF hr > 0 THEN Pad(hr, 2) \o <<":">> \o tail ELSE tail

(* Variant: the centiseconds taken as the last two digits of the ms.     *)
FormatTimeMsLastDigits(total_ms) ==
  LET cs  == total_ms % 100
      sec == (total_ms \div 1000) % 60
      min == total_ms \div 60000
  IN Pad(min, 2) \o <<":">> \o Pad(sec, 2) \o <<".">> \o Pad(cs, 2)

(* format_time_ms(): mm:ss.cc in centiseconds; the minutes are not        *)
(* reduced ("分钟不取模").                                                *)
FormatTimeMs(total_ms) ==
  LET cs  == (total_ms \div 10) % 100
      sec == (total_ms \div 1000) % 60
      min == total_ms \div 60000
  IN Pad(min, 2) \o <<":">> \o Pad(sec, 2) \o <<".">> \o Pad(cs, 2)

(* Variant: ms_to_ticks() rounding down.                                 *)
MsToTicksTruncating(ms) ==
  LET ticks == (ms * TICK_PER_SECOND) \div 1000
  IN (IF ticks = 0 THEN 1 ELSE ticks) % TICK_MOD

(* ms_to_ticks(): round up in 64 bits, never 0, cast to rt_tick_t.       *)
MsToTicks(ms) ==
  LET ticks == (ms * TICK_PER_SECOND + 999) \div 1000
  IN (IF ticks = 0 THEN 1 ELSE ticks) % TICK_MOD

-----------------------------------------------------------------------------
(* Reference: how a reader takes a clock text apart.                      *)
IsDigit(c) == c \in Range(DIGIT_CHARS)
DigitValue(c) == CHOOSE d \in 0..9 : DIGIT_CHARS[d + 1] = c

(* The runs of digits between separators, in order.                       *)
RECURSIVE FieldsFrom(_, _)
FieldsFrom(s, cur) ==
  IF s = <<>> THEN <<cur>>
  ELSE IF IsDigit(Head(s)) THEN FieldsFrom(Tail(s), Append(cur, Head(s)))
  ELSE <<cur>> \o FieldsFrom(Tail(s), <<>>)

Fields(s) == FieldsFrom(s, <<>>)
Separators(s) == SelectSeq(s, LAMBDA c : ~IsDigit(c))
Number(ds) == FoldLeft(LAMBDA acc, c : 10 * acc + DigitValue(c), 0, ds)
Widths(s) == [i \in DOMAIN Fields(s) |-> Len(Fields(s)[i])]

(* A text reads as h:mm:ss.mmm (hours of two digits or more, not zero) or *)
(* mm:ss.mmm, with minutes and seconds below 60, and has that value.      *)
ReadsAsClock(s, value) ==
  LET f == [i \in DOMAIN Fields(s) |-> Number(Fields(s)[i])]
      w == Widths(s)
  IN \/ /\ Separators(s) = <<":", ":", ".">>
        /\ w[1] >= 2 /\ f[1] > 0 /\ w[2] = 2 /\ w[3] = 2 /\ w[4] = 3
        /\ f[2] < 60 /\ f[3] < 60
        /\ value = ((f[1] * 60 + f[2]) * 60 + f[3]) * 1000 + f[4]
     \/ /\ Separators(s) = <<":", ".">>
        /\ w = <<2, 2, 3>> /\ f[1] < 60 /\ f[2] < 60
        /\ value = (f[1] * 60 + f[2]) * 1000 + f[3]

(* A text reads as m:ss.cc (minutes of two digits or more) with seconds   *)
(* below 60, and has that value in milliseconds.                          *)
ReadsAsCentis(s, value) ==
  LET f == [i \in DOMAIN Fields(s) |-> Number(Fields(s)[i])]
      w == Widths(s)
  IN /\ Separators(s) = <<":", ".">>
     /\ w[1] >= 2 /\ w[2] = 2 /\ w[3] = 2 /\ f[2] < 60
     /\ value = (f[1] * 60 + f[2]) * 1000 + f[3] * 10

=============================================================================
