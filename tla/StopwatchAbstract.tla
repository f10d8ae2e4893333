-------------------------- MODULE StopwatchAbstract --------------------------
(***************************************************************************)
(* What the stopwatch engine promises its callers (stopwatch.h), without   *)
(* the clock: a state, a total in milliseconds that only grows while       *)
(* Running, the total at the last lap, and the retained laps, oldest first *)
(* and at most MAX_LAPS of them.  Each operation of stopwatch.c is one     *)
(* action; time passing is Elapse.  Stopwatch implements this module (see  *)
(* StopwatchRefinesAbstract there), and the consumer threads are composed  *)
(* with it in Consumers.                                                   *)
(***************************************************************************)
EXTENDS Naturals, Sequences

CONSTANTS
  MAX_LAPS,   \* STOPWATCH_MAX_LAPS (20)
  MAX_TOTAL   \* bound: the largest total (ms) explored

VARIABLES
  state,              \* stopwatch_get_state()
  total_ms,           \* stopwatch_get_total_ms()
  last_lap_total_ms,  \* the total when the last lap was taken or laps were cleared
  laps                \* stopwatch_get_lap_ms(0 .. lap_count - 1)

abs_vars == <<state, total_ms, last_lap_total_ms, laps>>

IDLE == "IDLE"
RUNNING == "RUNNING"
PAUSED == "PAUSED"

(* laps with lap appended, the oldest dropped beyond MAX_LAPS.            *)
Retain(ls, lap) ==
  IF Len(ls) < MAX_LAPS THEN Append(ls, lap) ELSE Append(Tail(ls), lap)

AbsInit ==
  /\ state = IDLE /\ total_ms = 0 /\ last_lap_total_ms = 0 /\ laps = <<>>

(* stopwatch_start(): Idle or Paused becomes Running; the total stays.    *)
AbsStart ==
  /\ state # RUNNING /\ state' = RUNNING
  /\ UNCHANGED <<total_ms, last_lap_total_ms, laps>>

(* stopwatch_stop(): Running becomes Paused; the total stays.             *)
AbsStop ==
  /\ state = RUNNING /\ state' = PAUSED
  /\ UNCHANGED <<total_ms, last_lap_total_ms, laps>>

(* stopwatch_reset(): zero everything; Running keeps running.             *)
AbsReset ==
  /\ state' = IF state = RUNNING THEN RUNNING ELSE IDLE
  /\ total_ms' = 0 /\ last_lap_total_ms' = 0 /\ laps' = <<>>

(* stopwatch_lap(): the lap is the total since the last lap.              *)
AbsLap ==
  /\ laps' = Retain(laps, total_ms - last_lap_total_ms)
  /\ last_lap_total_ms' = total_ms
  /\ UNCHANGED <<state, total_ms>>

(* stopwatch_clear_laps(): forget the laps; the next one starts now.      *)
AbsClearLaps ==
  /\ laps' = <<>> /\ last_lap_total_ms' = total_ms
  /\ UNCHANGED <<state, total_ms>>

(* Time passes while Running.                                             *)
Elapse ==
  /\ state = RUNNING /\ total_ms < MAX_TOTAL
  /\ total_ms' \in total_ms + 1..MAX_TOTAL
  /\ UNCHANGED <<state, last_lap_total_ms, laps>>

AbsNext ==
  AbsStart \/ AbsStop \/ AbsReset \/ AbsLap \/ AbsClearLaps \/ Elapse

AbsSpec == AbsInit /\ [][AbsNext]_abs_vars

=============================================================================
