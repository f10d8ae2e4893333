--------------------------- MODULE MCPeripherals ---------------------------
(* The indicator threads with one retained lap and totals up to 1 ms (the *)
(* LEDs depend on the state only), the real refresh values and run        *)
(* counters that wrap at 8.                                               *)
EXTENDS Peripherals

MC_MAX_LAPS  == 1
MC_MAX_TOTAL == 1
MC_U8_BITS   == 3
MC_U16_BITS  == 16
MC_HYST      == 3
(* atoi() results: below the clamp, a normal period, and one that the     *)
(* rt_uint16_t cast turns into 5.                                         *)
MC_RATE_ARGS == {0, 300, 65541}

=============================================================================
