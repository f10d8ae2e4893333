---------------------------- MODULE MCStopwatch -----------------------------
(***************************************************************************)
(* Stopwatch scaled for TLC.  One cycle is one microsecond, a millisecond  *)
(* is two microseconds, one OS tick is one millisecond (as with            *)
(* RT_TICK_PER_SECOND = 1000).  CYCCNT wraps every 4 cycles, so runs of   *)
(* the stopwatch span several wraps; the lap history holds 2 laps and up  *)
(* to 3 laps are recorded, so eviction happens.                           *)
(***************************************************************************)
EXTENDS Stopwatch

MC_CYC_BITS   == 2
MC_TICK_BITS  == 4
MC_U64_BITS   == 6
MC_CPU_HZ     == 4
MC_US_PER_SEC == 4
MC_TPS        == 2
MC_MAX_CYCLES == 10
MC_MAX_STEP   == 2
MC_ANY_DWT    == BOOLEAN
MC_U32_BITS   == 4
MC_US_PER_MS  == 2
MC_MAX_LAPS   == 2
MC_LAP_BOUND  == 3
MC_BOOT       == 2

\* a lazy start reads the clock at least a microsecond after timebase_init
MC_LAZY_LATENCY == {1}

\* the display thread reads the clock well within a CYCCNT period while
\* Running, and (here) something reads it within a period while idle too
MC_POLL_GAP == 3
MC_MAX_UNSAMPLED == 3

\* nothing reads the clock while the stopwatch is not Running
MC_IDLE_UNSAMPLED == MC_MAX_CYCLES
\* the STM32F1 has a DWT: the enable always sticks
MC_DWT_ONLY == {TRUE}

\* bound: stop() calls between two resets
MC_MAX_FOLDS == 2
FoldBound == folds <= MC_MAX_FOLDS
=============================================================================
