------------------------------ MODULE Stopwatch -----------------------------
(***************************************************************************)
(* The stopwatch engine of applications/stopwatch.c composed with the      *)
(* clock of timebase.c that it reads.                                      *)
(*                                                                         *)
(* Every public operation takes g_sw.lock for its whole body, and the      *)
(* clock is only read inside those bodies, so each operation is one atomic *)
(* step here; the logical order of concurrent callers is the order in      *)
(* which they take the lock, which the interleaving of steps covers.       *)
(* Early returns that change nothing (start while running, stop while not *)
(* running, a failed rt_mutex_create, every query that does not read the   *)
(* clock) are stuttering steps and need no action.                         *)
(*                                                                         *)
(* History variables (run_cyc, folds, hist) record what really happened so *)
(* that the engine's arithmetic can be compared with it.                   *)
(***************************************************************************)
EXTENDS Timebase, Sequences, SequencesExt

CONSTANTS
  U32_BITS,      \* width of rt_uint32_t (32)
  US_PER_MS,     \* the 1000ULL divisor
  MAX_LAPS,      \* STOPWATCH_MAX_LAPS (20)
  LAP_BOUND,     \* bound: laps recorded between two resets/clear_laps
  LAZY_LATENCY,  \* cycles between timebase_init() and the first read in a lazy start
  POLL_GAP,      \* most cycles between two clock reads while running
  BOOT_CYCLES    \* cycles from reset until main() runs

ASSUME /\ U32_BITS \in Nat \ {0} /\ US_PER_MS \in Nat \ {0}
       /\ MAX_LAPS \in Nat \ {0} /\ LAP_BOUND \in Nat
       /\ LAZY_LATENCY \subseteq Nat /\ POLL_GAP \in Nat
       /\ BOOT_CYCLES \in Nat

VARIABLES
  inited,             \* g_inited
  state,              \* g_sw.state
  accumulated_ms,     \* g_sw.accumulated_ms
  state_start_us,     \* g_sw.state_start_us (0 means "no reference")
  last_lap_total_ms,  \* g_sw.last_lap_total_ms
  lap_durations_ms,   \* g_sw.lap_durations_ms[0..MAX_LAPS-1]
  lap_count,          \* g_sw.lap_count
  run_cyc,            \* history: cycles spent Running since the last reset
  folds,              \* history: stop() calls that closed an interval since the last reset
  hist                \* history: every lap recorded since the last reset/clear_laps

sw_vars == <<inited, state, accumulated_ms, state_start_us, last_lap_total_ms,
             lap_durations_ms, lap_count>>
ghost_vars == <<run_cyc, folds, hist>>
vars == <<clock_vars, sw_vars, ghost_vars>>

IDLE == "IDLE"
RUNNING == "RUNNING"
PAUSED == "PAUSED"

U32_MOD == 2^U32_BITS
LapIdx == 0..MAX_LAPS - 1
NoLaps == [i \in LapIdx |-> 0]

-----------------------------------------------------------------------------
(* get_now_total_ms_unsafe(): reads the clock only while Running with a   *)
(* non-zero reference.                                                    *)
ReadsClock == state = RUNNING /\ state_start_us # 0

(* (rt_uint32_t)((now_us - start_us) / 1000ULL), the difference in uint64_t *)
IntervalMs(now_us, start_us) ==
  (((now_us - start_us) % U64_MOD) \div US_PER_MS) % U32_MOD

NowTotalMs ==
  IF ReadsClock
    THEN (accumulated_ms + IntervalMs(NowUs, state_start_us)) % U32_MOD
    ELSE accumulated_ms

(* The clock's state change caused by get_now_total_ms_unsafe().          *)
TotalClockEffect == IF ReadsClock THEN Sample ELSE UNCHANGED clock_vars

-----------------------------------------------------------------------------
Init ==
  /\ TbInitAt(BOOT_CYCLES)
  /\ inited = FALSE
  /\ state = IDLE
  /\ accumulated_ms = 0
  /\ state_start_us = 0
  /\ last_lap_total_ms = 0
  /\ lap_durations_ms = NoLaps
  /\ lap_count = 0
  /\ run_cyc = 0 /\ folds = 0 /\ hist = <<>>

(* Time passes; the history of running time follows it.  While the total *)
(* reads the clock, the display thread's polling bounds the cycles        *)
(* between two reads by POLL_GAP; otherwise nothing reads the clock and   *)
(* only the bound MAX_UNSAMPLED applies.                                   *)
Tick ==
  \E d \in 1..MAX_STEP :
    /\ HwAdvance(d, IF ReadsClock THEN POLL_GAP ELSE MAX_UNSAMPLED)
    /\ run_cyc' = IF state = RUNNING THEN run_cyc + d ELSE run_cyc
    /\ UNCHANGED <<sw_vars, folds, hist>>

(* stopwatch_init() that succeeds: main() calls it, and stop(), reset()   *)
(* call it lazily; the memset leaves the never-used context as it is.     *)
(* A failing rt_mutex_create() returns -RT_ENOMEM and changes nothing.    *)
StopwatchInit ==
  /\ ~inited
  /\ TimebaseInit
  /\ inited' = TRUE
  /\ UNCHANGED <<state, accumulated_ms, state_start_us, last_lap_total_ms,
                 lap_durations_ms, lap_count, ghost_vars>>

StartWith(us) ==
  /\ state # RUNNING
  /\ state_start_us' = us
  /\ state' = RUNNING
  /\ UNCHANGED <<accumulated_ms, last_lap_total_ms, lap_durations_ms,
                 lap_count, ghost_vars>>

(* A command typed on the shell comes at least a cycle after the clock    *)
(* was initialised; a lazy start reads the clock LAZY_LATENCY later.      *)
Start ==
  \/ /\ inited /\ cycles # init_at
     /\ StartWith(NowUs) /\ Sample /\ UNCHANGED inited
  \/ /\ ~inited
     /\ \E ok \in DWT_OUTCOMES, lat \in LAZY_LATENCY :
          InitAndSample(ok, lat) /\ StartWith(InitSampleUs(ok, lat))
     /\ inited' = TRUE

(* Variant: stop() that drops the open interval instead of folding it.  *)
StopDropInterval ==
  /\ inited /\ state = RUNNING
  /\ UNCHANGED <<accumulated_ms, clock_vars>>
  /\ state_start_us' = 0
  /\ state' = PAUSED
  /\ folds' = folds + 1
  /\ UNCHANGED <<inited, last_lap_total_ms, lap_durations_ms, lap_count,
                 run_cyc, hist>>

(* stopwatch_stop() while Running: fold the open interval into the        *)
(* accumulated milliseconds unless the reference is the 0 sentinel.       *)
Stop ==
  /\ inited /\ state = RUNNING
  /\ IF state_start_us # 0
       THEN /\ accumulated_ms' = (accumulated_ms + IntervalMs(NowUs, state_start_us)) % U32_MOD
            /\ state_start_us' = 0
            /\ Sample
       ELSE UNCHANGED <<accumulated_ms, state_start_us, clock_vars>>
  /\ state' = PAUSED
  /\ folds' = folds + 1
  /\ UNCHANGED <<inited, last_lap_total_ms, lap_durations_ms, lap_count,
                 run_cyc, hist>>

(* Variant: reset() that forgets to clear last_lap_total_ms.             *)
ResetKeepLapMark ==
  /\ inited
  /\ accumulated_ms' = 0
  /\ lap_count' = 0
  /\ lap_durations_ms' = NoLaps
  /\ IF state = RUNNING
       THEN /\ state_start_us' = NowUs /\ Sample /\ UNCHANGED state
       ELSE /\ state' = IDLE /\ state_start_us' = 0 /\ UNCHANGED clock_vars
  /\ run_cyc' = 0 /\ folds' = 0 /\ hist' = <<>>
  /\ UNCHANGED <<inited, last_lap_total_ms>>

(* Variant: reset() that leaves lap_count as it was.                     *)
ResetKeepLaps ==
  /\ inited
  /\ accumulated_ms' = 0
  /\ last_lap_total_ms' = 0
  /\ lap_durations_ms' = lap_durations_ms
  /\ IF state = RUNNING
       THEN /\ state_start_us' = NowUs /\ Sample /\ UNCHANGED state
       ELSE /\ state' = IDLE /\ state_start_us' = 0 /\ UNCHANGED clock_vars
  /\ run_cyc' = 0 /\ folds' = 0 /\ hist' = <<>>
  /\ UNCHANGED <<inited, lap_count>>

(* stopwatch_reset(): clear everything; a running stopwatch re-arms its   *)
(* reference and keeps running from zero, otherwise it becomes Idle.      *)
Reset ==
  /\ inited
  /\ accumulated_ms' = 0
  /\ last_lap_total_ms' = 0
  /\ lap_count' = 0
  /\ lap_durations_ms' = NoLaps
  /\ IF state = RUNNING
       THEN /\ state_start_us' = NowUs /\ Sample /\ UNCHANGED state
       ELSE /\ state' = IDLE /\ state_start_us' = 0 /\ UNCHANGED clock_vars
  /\ run_cyc' = 0 /\ folds' = 0 /\ hist' = <<>>
  /\ UNCHANGED inited

(* Variant: the capacity test off by one (<= instead of <).              *)
RecordLapOffByOne(lap_ms) ==
  IF lap_count <= MAX_LAPS
    THEN /\ lap_durations_ms' = [lap_durations_ms EXCEPT ![lap_count] = lap_ms]
         /\ lap_count' = lap_count + 1
    ELSE /\ lap_durations_ms' = [i \in LapIdx |->
                                   IF i < MAX_LAPS - 1 THEN lap_durations_ms[i + 1]
                                                      ELSE lap_ms]
         /\ UNCHANGED lap_count

(* Variant: when full, the newest lap overwrites the last slot unshifted. *)
RecordLapNoShift(lap_ms) ==
  IF lap_count < MAX_LAPS
    THEN /\ lap_durations_ms' = [lap_durations_ms EXCEPT ![lap_count] = lap_ms]
         /\ lap_count' = lap_count + 1
    ELSE /\ lap_durations_ms' = [lap_durations_ms EXCEPT ![MAX_LAPS - 1] = lap_ms]
         /\ UNCHANGED lap_count

(* Append lap_ms to the history array, shifting out the oldest when full. *)
RecordLap(lap_ms) ==
  IF lap_count < MAX_LAPS
    THEN /\ lap_durations_ms' = [lap_durations_ms EXCEPT ![lap_count] = lap_ms]
         /\ lap_count' = lap_count + 1
    ELSE /\ lap_durations_ms' = [i \in LapIdx |->
                                   IF i < MAX_LAPS - 1 THEN lap_durations_ms[i + 1]
                                                      ELSE lap_ms]
         /\ UNCHANGED lap_count

(* stopwatch_lap(); after a lazy init the stopwatch is Idle at 0.         *)
LapBody ==
  LET total == NowTotalMs
      lap_ms == (total - last_lap_total_ms) % U32_MOD
  IN /\ Len(hist) < LAP_BOUND
     /\ RecordLap(lap_ms)
     /\ last_lap_total_ms' = total
     /\ hist' = Append(hist, lap_ms)
     /\ UNCHANGED <<state, accumulated_ms, state_start_us, run_cyc, folds>>

Lap ==
  \/ inited /\ LapBody /\ TotalClockEffect /\ UNCHANGED inited
  \/ ~inited /\ LapBody /\ TimebaseInit /\ inited' = TRUE

(* stopwatch_clear_laps(): no lazy init; the next lap measures from now.  *)
ClearLaps ==
  /\ inited
  /\ lap_count' = 0
  /\ last_lap_total_ms' = NowTotalMs
  /\ lap_durations_ms' = NoLaps
  /\ TotalClockEffect
  /\ hist' = <<>>
  /\ UNCHANGED <<inited, state, accumulated_ms, state_start_us, run_cyc, folds>>

(* stopwatch_get_total_ms() while Running: the display thread, the CSV    *)
(* timer and sw_status poll it; it only changes the clock's state.        *)
GetTotalMs ==
  /\ inited /\ ReadsClock
  /\ Sample
  /\ UNCHANGED <<sw_vars, ghost_vars>>

Next ==
  \/ Tick
  \/ StopwatchInit
  \/ Start
  \/ Stop
  \/ Reset
  \/ Lap
  \/ ClearLaps
  \/ GetTotalMs

Spec == Init /\ [][Next]_vars

-----------------------------------------------------------------------------
TypeOK ==
  /\ TbTypeOK
  /\ inited \in BOOLEAN
  /\ state \in {IDLE, RUNNING, PAUSED}
  /\ accumulated_ms \in 0..U32_MOD - 1
  /\ state_start_us \in 0..U64_MOD - 1
  /\ last_lap_total_ms \in 0..U32_MOD - 1
  /\ lap_durations_ms \in [LapIdx -> 0..U32_MOD - 1]
  /\ lap_count \in 0..MAX_LAPS
  /\ run_cyc \in 0..MAX_CYCLES /\ folds \in Nat
  /\ hist \in Seq(0..U32_MOD - 1)

(* Milliseconds really spent Running since the last reset.                *)
TrueMs == ((run_cyc * US_PER_SEC) \div CPU_HZ) \div US_PER_MS

(* Intervals measured since the last reset, the open one included.        *)
Intervals == folds + (IF state = RUNNING THEN 1 ELSE 0)

(* What each measured interval may lose to the millisecond truncation,   *)
(* and on the tick fallback gain or lose to rounding.                     *)
Drift == (IF dwt_ok THEN 0 ELSE -Intervals)..Intervals

(* stopwatch_get_total_ms() reports the time the stopwatch really spent   *)
(* Running since the last reset, across start/stop/reset/lap, to within   *)
(* the millisecond each measured interval may truncate (and, on the tick  *)
(* fallback, the tick each reading may round off): it never reports time  *)
(* that did not pass on the DWT path, and never loses a whole interval.   *)
ElapsedTracksRunningTime ==
  inited => TrueMs - NowTotalMs \in Drift

(* The lap history keeps the latest MAX_LAPS laps, oldest first: eviction *)
(* in stopwatch_lap() drops exactly the oldest lap and keeps the order.   *)
LapWindowIsLatest ==
  LET kept == IF Len(hist) <= MAX_LAPS THEN Len(hist) ELSE MAX_LAPS
  IN /\ lap_count = kept
     /\ \A i \in 0..lap_count - 1 :
          lap_durations_ms[i] = hist[Len(hist) - kept + 1 + i]

(* The last lap mark is never ahead of the current total, so the next     *)
(* lap duration total_ms - last_lap_total_ms cannot wrap around in        *)
(* rt_uint32_t after any sequence of start/stop/reset/lap/clear_laps.     *)
LapMarkNotAhead ==
  inited => last_lap_total_ms <= NowTotalMs

(* The laps still held never add up to more than the total: the display  *)
(* and sw_status sum them in an rt_uint32_t (sum_ms) and divide by the    *)
(* count, which is only sound if no sequence of lap/clear_laps/reset/     *)
(* eviction leaves laps behind that the total no longer accounts for.     *)
LapsWithinTotal ==
  inited =>
    FoldLeft(LAMBDA acc, i : acc + lap_durations_ms[i], 0,
             [k \in 1..lap_count |-> k - 1]) <= NowTotalMs

-----------------------------------------------------------------------------
(* The retained laps as the sequence stopwatch_get_lap_ms(0..count-1).    *)
LapSeq == [k \in 1..lap_count |-> lap_durations_ms[k - 1]]

Abs == INSTANCE StopwatchAbstract
         WITH total_ms <- NowTotalMs, laps <- LapSeq, MAX_TOTAL <- U32_MOD - 1

(* The engine implements the promises of stopwatch.h: every step of       *)
(* stopwatch.c, with the clock read as get_total_ms() would read it, is a *)
(* step of StopwatchAbstract: the total never moves while not Running and *)
(* never goes back, a lap is the total since the previous one, and reset  *)
(* and clear_laps leave exactly what they promise.                        *)
StopwatchRefinesAbstract == Abs!AbsSpec

=============================================================================
