----------------------------- MODULE MCTimebase -----------------------------
(***************************************************************************)
(* Timebase scaled for TLC.  One cycle is one microsecond (CPU_HZ =        *)
(* US_PER_SEC), one tick is two cycles, CYCCNT is 2 bits wide so that it  *)
(* wraps every 4 cycles and wraps several times within MAX_CYCLES.        *)
(***************************************************************************)
EXTENDS Timebase

MC_CYC_BITS   == 2
MC_CPU_HZ     == 4
MC_US_PER_SEC == 4
MC_TPS        == 2
MC_MAX_CYCLES == 12
MC_MAX_STEP   == 3

\* wide enough that no product or tick overflows within MC_MAX_CYCLES
MC_WIDE_TICK_BITS == 4
MC_WIDE_U64_BITS  == 6

\* narrow: total_cyc * 1000000 overflows uint64_t within MC_MAX_CYCLES
MC_NARROW_U64_BITS == 4
\* narrow: rt_tick_t wraps within MC_MAX_CYCLES
MC_NARROW_TICK_BITS == 1

\* the counter is read at least once per wrap period
MC_MAX_UNSAMPLED == 3

\* the DWT enable may stick or not (the fallback path)
MC_ANY_DWT == BOOLEAN
\* the STM32F1 has a DWT: the enable always sticks
MC_DWT_ONLY == {TRUE}
\* a core without DWT: only the tick fallback
MC_NO_DWT == {FALSE}
=============================================================================
