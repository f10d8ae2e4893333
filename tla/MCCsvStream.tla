---------------------------- MODULE MCCsvStream -----------------------------
(***************************************************************************)
(* The CSV commands with rt_uint32_t and rt_tick_t of the period cut to   *)
(* 16 bits.  The arguments typed are "abc" or "0" (atoi gives 0, clamped   *)
(* to 10), 15, 20, and "-1", which the cast turns into the largest         *)
(* rt_uint32_t.                                                           *)
(*                                                                         *)
(* Two tick rates: 100 per second, where a period is not always a whole   *)
(* number of ticks and ms_to_ticks()'s rounding matters; and 1000, the    *)
(* STM32 BSPs' setting, where a tick is a millisecond, so a period of     *)
(* 2^w - 1 ms is 2^w - 1 ticks, past RT_TICK_MAX / 2 as with w = 32.       *)
(*                                                                         *)
(* The totals the engine reports are every value below 100 ms and a few   *)
(* on each side of each boundary where a field of the text rolls over     *)
(* (second, minute, hour, ten and a hundred hours), up to 2^31 - 1 ms (24  *)
(* days), the largest integer TLC represents.                             *)
(***************************************************************************)
EXTENDS CsvStream

MC_TPS_100      == 100
MC_TPS_1000     == 1000
MC_TICK_BITS    == 16
MC_U32_BITS     == 16
MC_DEFAULT_MS   == 200
MC_MIN_MS       == 10
MC_PERIOD_ARGS  == {0, 15, 20, -1}

MC_BOUNDARIES == {1000, 60000, 3600000, 36000000, 360000000}
MC_TOTALS ==
  (0..99) \cup {b + d : b \in MC_BOUNDARIES, d \in -2..2}
          \cup {2147483646, 2147483647}

=============================================================================
