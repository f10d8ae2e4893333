------------------------------ MODULE CsvStream ------------------------------
(***************************************************************************)
(* The CSV stream of stopwatch_cli.c: the commands sw_csv on [period]|off, *)
(* sw_csv_header on|off and sw_timefmt human|ms, run by the shell thread,  *)
(* and csv_timer_cb(), run by RT-Thread's soft-timer thread each period.   *)
(*                                                                         *)
(* The kernel timer is its state as the code sees it: whether it was      *)
(* created (csv_timer != RT_NULL), whether it is started, and its period   *)
(* in ticks (init_tick).  rt_timer_create() allocates from the heap and    *)
(* may fail.  The soft-timer thread (RT_TIMER_THREAD_PRIO, 4 by default)  *)
(* outranks the shell (20), so a callback runs between two commands, never *)
(* inside one, and each command is one step.  The engine is reduced to    *)
(* the total it reports, which may be any value between two steps; a row  *)
(* is its format, whether the header line came before it, and the text of *)
(* that total.                                                            *)
(***************************************************************************)
EXTENDS TimeFormat, Integers

CONSTANTS
  U32_BITS,            \* width of rt_uint32_t
  DEFAULT_PERIOD_MS,   \* csv_period_ms's initial value (200)
  MIN_PERIOD_MS,       \* the clamp of sw_csv on (10)
  PERIOD_ARGS,         \* atoi() results of the period argument typed
  TOTALS               \* the totals stopwatch_get_total_ms() may report

U32_MOD == 2^U32_BITS
RT_TICK_MAX == TICK_MOD - 1

VARIABLES
  csv_timer,      \* csv_timer != RT_NULL
  timer_active,   \* the timer is started
  timer_ticks,    \* the timer's period in ticks (0 before it exists)
  csv_period_ms,  \* csv_period_ms
  csv_header,     \* csv_header
  csv_human,      \* csv_human
  out,            \* the last callback's output: its format, header or not
  reported_ms     \* what stopwatch_get_total_ms() returns now

vars == <<csv_timer, timer_active, timer_ticks, csv_period_ms, csv_header,
          csv_human, out, reported_ms>>

NoOutput == [header |-> FALSE, human |-> FALSE, any |-> FALSE]

Init ==
  /\ csv_timer = FALSE /\ timer_active = FALSE /\ timer_ticks = 0
  /\ csv_period_ms = DEFAULT_PERIOD_MS
  /\ csv_header = FALSE /\ csv_human = FALSE
  /\ out = NoOutput
  /\ reported_ms \in TOTALS

(* Variant: the period argument taken without the 10 ms floor.          *)
PeriodArgUnclamped(a) == a % U32_MOD

(* (rt_uint32_t)atoi(argv[2]), then raised to the 10 ms floor.            *)
PeriodArg(a) ==
  LET v == a % U32_MOD IN IF v < MIN_PERIOD_MS THEN MIN_PERIOD_MS ELSE v

(* Variant: an existing timer restarted without RT_TIMER_CTRL_SET_TIME.   *)
CsvOnWithoutSetTime(p) ==
  /\ csv_period_ms' = p
  /\ \/ /\ ~csv_timer
        /\ \/ /\ csv_timer' = TRUE /\ timer_ticks' = MsToTicks(p)
              /\ timer_active' = TRUE
           \/ UNCHANGED <<csv_timer, timer_ticks, timer_active>>
     \/ /\ csv_timer
        /\ timer_active' = TRUE
        /\ UNCHANGED <<csv_timer, timer_ticks>>
  /\ UNCHANGED <<csv_header, csv_human, out, reported_ms>>

(* sw_csv on with the period p: create the periodic soft timer if there  *)
(* is none (which may fail with -RT_ENOMEM, leaving it RT_NULL), else set *)
(* its period; then start (or restart) it.                                *)
CsvOnWith(p) ==
  /\ csv_period_ms' = p
  /\ \/ /\ ~csv_timer
        /\ \/ /\ csv_timer' = TRUE /\ timer_ticks' = MsToTicks(p)
              /\ timer_active' = TRUE
           \/ UNCHANGED <<csv_timer, timer_ticks, timer_active>>
     \/ /\ csv_timer
        /\ timer_ticks' = MsToTicks(p)
        /\ timer_active' = TRUE
        /\ UNCHANGED csv_timer
  /\ UNCHANGED <<csv_header, csv_human, out, reported_ms>>

(* sw_csv on, without or with a period argument.                          *)
CsvOn ==
  \/ CsvOnWith(csv_period_ms)
  \/ \E a \in PERIOD_ARGS : CsvOnWith(PeriodArg(a))

(* sw_csv off: stop the timer if there is one.                            *)
CsvOff ==
  /\ timer_active' = FALSE
  /\ UNCHANGED <<csv_timer, timer_ticks, csv_period_ms, csv_header,
                 csv_human, out, reported_ms>>

(* sw_csv_header on|off.                                                  *)
CsvHeader(b) ==
  /\ csv_header' = b
  /\ UNCHANGED <<csv_timer, timer_active, timer_ticks, csv_period_ms,
                 csv_human, out, reported_ms>>

(* sw_timefmt human|ms.                                                   *)
TimeFmt(h) ==
  /\ csv_human' = h
  /\ UNCHANGED <<csv_timer, timer_active, timer_ticks, csv_period_ms,
                 csv_header, out, reported_ms>>

(* The text csv_timer_cb() prints for the total t: "%u" or format_time(). *)
RowTotalText(t) == IF csv_human THEN FormatTime(t) ELSE Digits(t)

(* csv_timer_cb(): read the engine, print the header once if asked for,   *)
(* then the row in the chosen format.                                     *)
CsvTimerCb ==
  /\ timer_active
  /\ out' = [header |-> csv_header, human |-> csv_human, any |-> TRUE]
  /\ csv_header' = FALSE
  /\ UNCHANGED <<csv_timer, timer_active, timer_ticks, csv_period_ms,
                 csv_human, reported_ms>>

(* The stopwatch runs, or is lapped, reset or started from another thread. *)
EngineReports ==
  /\ reported_ms' \in TOTALS
  /\ UNCHANGED <<csv_timer, timer_active, timer_ticks, csv_period_ms,
                 csv_header, csv_human, out>>

Next ==
  \/ CsvOn
  \/ CsvOff
  \/ \E b \in BOOLEAN : CsvHeader(b) \/ TimeFmt(b)
  \/ CsvTimerCb
  \/ EngineReports

Spec == Init /\ [][Next]_vars

-----------------------------------------------------------------------------
(* Types; in particular no sw_csv on argument leaves csv_period_ms below *)
(* the 10 ms floor, and the timer is only ever started once created.      *)
TypeOK ==
  /\ csv_timer \in BOOLEAN /\ timer_active \in BOOLEAN
  /\ timer_active => csv_timer
  /\ timer_ticks \in 0..TICK_MOD - 1
  /\ csv_period_ms \in MIN_PERIOD_MS..U32_MOD - 1
  /\ csv_header \in BOOLEAN /\ csv_human \in BOOLEAN
  /\ out \in [header : BOOLEAN, human : BOOLEAN, any : BOOLEAN]
  /\ reported_ms \in TOTALS

(* The running stream ticks at the period last accepted by sw_csv on,     *)
(* whatever came before (a timer created for an earlier period, a failed  *)
(* creation that left the new period behind, an off and an on without an  *)
(* argument), converted as ms_to_ticks() promises: the least whole number *)
(* of ticks, never 0, that lasts that period.                             *)
PeriodIsLeastTicks ==
  timer_active =>
    /\ timer_ticks >= 1
    /\ timer_ticks * 1000 >= csv_period_ms * TICK_PER_SECOND
    /\ timer_ticks = 1 \/ (timer_ticks - 1) * 1000 < csv_period_ms * TICK_PER_SECOND

(* A row csv_timer_cb() prints reads back as the total it read: the plain *)
(* number, or format_time()'s hh:mm:ss.mmm / mm:ss.mmm with every field in *)
(* range and of its width.                                                *)
RowReadsBack ==
  IF csv_human THEN ReadsAsClock(RowTotalText(reported_ms), reported_ms)
               ELSE Number(RowTotalText(reported_ms)) = reported_ms

(* The same total on the OLED (format_time_ms()) shows it cut down to     *)
(* whole centiseconds, as mm:ss.cc with unreduced minutes.               *)
OledTextShowsCentis ==
  ReadsAsCentis(FormatTimeMs(reported_ms), reported_ms - (reported_ms % 10))

(* Every period sw_csv on hands to rt_timer_control()/rt_timer_start() is *)
(* below RT_TICK_MAX / 2, which RT-Thread's timer asserts of init_tick.   *)
PeriodWithinTimerLimit ==
  timer_active => timer_ticks < RT_TICK_MAX \div 2

=============================================================================
