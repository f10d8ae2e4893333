---------------------------- MODULE MCOledDisplay ----------------------------
(* The display with a font whose glyphs use all eight rows, totals whose   *)
(* text is 8 or 9 characters long (so an old longer time must be cleared) *)
(* and laps long enough for the statistics line to run off the screen.   *)
EXTENDS OledDisplay

MC_CHARS == <<" ", "#", "-", ".", ":", "0", "1", "2", "3", "4", "5", "6",
              "7", "8", "9", "L", "M", "R", "S", "T", "a", "c", "d", "e",
              "h", "m", "o", "p", "r", "s", "t", "w">>

(* Column k of the n-th glyph: the bits of an arbitrary byte; the sixth   *)
(* column is the blank spacing column, as in the real font.               *)
MC_GLYPH(n) ==
  [k \in 1..6 |-> IF k = 6 THEN {}
                  ELSE {b \in BITS : (((n * 37 + k * 11) % 256) \div 2^b) % 2 = 1}]

MC_FONT == [ch \in Range(MC_CHARS) |->
              MC_GLYPH(CHOOSE n \in DOMAIN MC_CHARS : MC_CHARS[n] = ch)]

MC_TOTALS == {1230, 6000000}
MC_LAP_VALUES == {980, 120000}
MC_MAX_LAPS == 2

=============================================================================
