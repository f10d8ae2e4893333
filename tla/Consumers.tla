------------------------------ MODULE Consumers ------------------------------
(***************************************************************************)
(* The threads that poll the stopwatch, composed with what the engine      *)
(* promises (StopwatchAbstract, which Stopwatch is checked to implement):  *)
(*                                                                         *)
(*  - the display thread ui_entry (ui_oled.c, priority MAX - 4) drawing    *)
(*    the main page or the laps page from several separate engine calls,  *)
(*    and the page state s_page / s_page_drawn / s_laps_offset that it     *)
(*    shares with the shell;                                               *)
(*  - the shell thread tshell (higher priority), whose commands are the    *)
(*    engine operations and sw_page / sw_laps_prev / sw_laps_next; it      *)
(*    preempts the display thread between any two of its statements, so   *)
(*    each display step below ends where a preemption changes an outcome;  *)
(*                                                                         *)
(* Each engine call takes the engine's lock and is one atomic read.        *)
(***************************************************************************)
EXTENDS StopwatchAbstract, Integers

CONSTANT PAGE_ROWS  \* rows per laps page (the literal 6)

ASSUME PAGE_ROWS \in Nat \ {0}

VARIABLES
  s_page,         \* ui_oled.c s_page: 0 main, 1 laps
  s_page_drawn,   \* ui_oled.c s_page_drawn: main page labels are on screen
  s_laps_offset,  \* ui_oled.c s_laps_offset
  screen,         \* what the static part of the panel shows
  ui_pc,          \* where the display thread is
  f_total,        \* draw_main_page: total
  f_cnt,          \* draw_*_page: cnt
  f_i,            \* draw_laps_page: the loop counter i
  f_rows,         \* draw_laps_page: the rows drawn so far, <<idx, ms>>
  f_stats,        \* draw_laps_page: the values read for min/max/avg
  shown           \* history: the page and rows of the last completed frame

ui_vars == <<s_page, s_page_drawn, s_laps_offset, screen, ui_pc, f_total,
             f_cnt, f_i, f_rows, f_stats, shown>>
cvars == <<abs_vars, ui_vars>>

(* stopwatch_get_lap_ms(index): 0 for an index past the count.           *)
GetLapMs(i) == IF i < Len(laps) THEN laps[i + 1] ELSE 0

(* stopwatch_get_latest_lap_ms()                                          *)
GetLatestLapMs == IF laps # <<>> THEN laps[Len(laps)] ELSE 0

NoFrame == [page |-> 0, rows |-> <<>>]

(* After main(): ui_oled_init() has shown the splash screen.              *)
Init ==
  /\ AbsInit
  /\ s_page = 0 /\ s_page_drawn = FALSE /\ s_laps_offset = 0
  /\ screen = "splash" /\ ui_pc = "top"
  /\ f_total = 0 /\ f_cnt = 0 /\ f_i = 0 /\ f_rows = <<>> /\ f_stats = <<>>
  /\ shown = NoFrame

-----------------------------------------------------------------------------
(* The display thread.  The frame is on the panel, the thread sleeps and *)
(* the locals of draw_*_page are gone.                                    *)
FinishFrame(page) ==
  /\ shown' = [page |-> page, rows |-> f_rows]
  /\ ui_pc' = "top"
  /\ f_total' = 0 /\ f_cnt' = 0 /\ f_i' = 0
  /\ f_rows' = <<>> /\ f_stats' = <<>>

(* ui_entry line 113: choose the page (s_oled_enabled is never cleared).  *)
UiTop ==
  /\ ui_pc = "top"
  /\ ui_pc' = IF s_page = 0 THEN "main_total" ELSE "laps_cnt"
  /\ UNCHANGED <<s_page, s_page_drawn, s_laps_offset, screen, f_total,
                 f_cnt, f_i, f_rows, f_stats, shown>>

(* draw_main_page line 37: total = stopwatch_get_total_ms()               *)
MainTotal ==
  /\ ui_pc = "main_total"
  /\ f_total' = total_ms /\ ui_pc' = "main_static"
  /\ UNCHANGED <<s_page, s_page_drawn, s_laps_offset, screen, f_cnt, f_i,
                 f_rows, f_stats, shown>>

(* lines 40-45: draw the labels unless s_page_drawn says they are there.  *)
MainStatic ==
  /\ ui_pc = "main_static"
  /\ IF s_page_drawn
       THEN ui_pc' = "main_cnt" /\ UNCHANGED screen
       ELSE ui_pc' = "main_mark" /\ screen' = "main"
  /\ UNCHANGED <<s_page, s_page_drawn, s_laps_offset, f_total, f_cnt, f_i,
                 f_rows, f_stats, shown>>

(* line 46: s_page_drawn = 1                                              *)
MainMark ==
  /\ ui_pc = "main_mark"
  /\ s_page_drawn' = TRUE /\ ui_pc' = "main_cnt"
  /\ UNCHANGED <<s_page, s_laps_offset, screen, f_total, f_cnt, f_i,
                 f_rows, f_stats, shown>>

(* line 54: cnt = stopwatch_get_lap_count(); no lap shown when 0.         *)
MainCount ==
  /\ ui_pc = "main_cnt"
  /\ IF laps # <<>>
       THEN /\ f_cnt' = Len(laps) /\ ui_pc' = "main_latest"
            /\ UNCHANGED <<f_total, f_i, f_rows, f_stats, shown>>
       ELSE FinishFrame(0)
  /\ UNCHANGED <<s_page, s_page_drawn, s_laps_offset, screen>>

(* line 58: last = stopwatch_get_latest_lap_ms(); the frame is drawn.     *)
MainLatest ==
  /\ ui_pc = "main_latest"
  /\ FinishFrame(0)
  /\ UNCHANGED <<s_page, s_page_drawn, s_laps_offset, screen>>

(* draw_laps_page lines 69-71: OLED_Clear(), the title, and              *)
(* cnt = stopwatch_get_lap_count().                                       *)
LapsCount ==
  /\ ui_pc = "laps_cnt"
  /\ screen' = "laps" /\ f_cnt' = Len(laps) /\ ui_pc' = "laps_clamp"
  /\ UNCHANGED <<s_page, s_page_drawn, s_laps_offset, f_total, f_i, f_rows,
                 f_stats, shown>>

(* Variant: draw_laps_page without the fallback test of line 73.        *)
LapsClampMissing ==
  /\ ui_pc = "laps_clamp"
  /\ ui_pc' = "laps_row" /\ f_i' = 0
  /\ UNCHANGED <<s_page, s_page_drawn, s_laps_offset, screen, f_total,
                 f_cnt, f_rows, f_stats, shown>>

(* line 73, the load and compare: if (s_laps_offset >= cnt) ...           *)
LapsClamp ==
  /\ ui_pc = "laps_clamp"
  /\ ui_pc' = IF s_laps_offset >= f_cnt THEN "laps_clamp_store" ELSE "laps_row"
  /\ f_i' = 0
  /\ UNCHANGED <<s_page, s_page_drawn, s_laps_offset, screen, f_total,
                 f_cnt, f_rows, f_stats, shown>>

(* ... the store: s_laps_offset = 0                                       *)
LapsClampStore ==
  /\ ui_pc = "laps_clamp_store"
  /\ s_laps_offset' = 0 /\ ui_pc' = "laps_row"
  /\ UNCHANGED <<s_page, s_page_drawn, screen, f_total, f_cnt, f_i, f_rows,
                 f_stats, shown>>

(* Variant: the row loop without its i < 6 bound.                       *)
LapsRowUnbounded ==
  /\ ui_pc = "laps_row"
  /\ LET idx == s_laps_offset + f_i
     IN IF idx < f_cnt
          THEN /\ f_rows' = Append(f_rows, <<idx, GetLapMs(idx)>>)
               /\ f_i' = f_i + 1 /\ UNCHANGED ui_pc
          ELSE /\ ui_pc' = "laps_stat" /\ f_i' = 0 /\ UNCHANGED f_rows
  /\ UNCHANGED <<s_page, s_page_drawn, s_laps_offset, screen, f_total,
                 f_cnt, f_stats, shown>>

(* lines 75-84: one row; idx re-reads s_laps_offset every iteration.      *)
LapsRow ==
  /\ ui_pc = "laps_row"
  /\ LET idx == s_laps_offset + f_i
     IN IF f_i < PAGE_ROWS /\ idx < f_cnt
          THEN /\ f_rows' = Append(f_rows, <<idx, GetLapMs(idx)>>)
               /\ f_i' = f_i + 1 /\ UNCHANGED ui_pc
          ELSE /\ ui_pc' = "laps_stat" /\ f_i' = 0 /\ UNCHANGED f_rows
  /\ UNCHANGED <<s_page, s_page_drawn, s_laps_offset, screen, f_total,
                 f_cnt, f_stats, shown>>

(* lines 86-101: one value for min/max/avg, or the frame is drawn.        *)
LapsStat ==
  /\ ui_pc = "laps_stat"
  /\ IF f_i < f_cnt
       THEN /\ f_stats' = Append(f_stats, GetLapMs(f_i))
            /\ f_i' = f_i + 1 /\ UNCHANGED <<ui_pc, shown>>
            /\ UNCHANGED <<f_total, f_cnt, f_rows>>
       ELSE FinishFrame(1)
  /\ UNCHANGED <<s_page, s_page_drawn, s_laps_offset, screen>>

UiStep ==
  /\ \/ UiTop
     \/ MainTotal \/ MainStatic \/ MainMark \/ MainCount \/ MainLatest
     \/ LapsCount \/ LapsClamp \/ LapsClampStore \/ LapsRow \/ LapsStat
  /\ UNCHANGED abs_vars

-----------------------------------------------------------------------------
(* The shell thread: engine commands, and the paging commands.            *)
EngineCommand == AbsNext /\ UNCHANGED ui_vars

(* Variant: ui_oled_set_page() that leaves s_page_drawn alone.            *)
SetPageKeepDrawn(p) ==
  /\ s_page' = p
  /\ UNCHANGED <<abs_vars, s_page_drawn, s_laps_offset, screen,
                 ui_pc, f_total, f_cnt, f_i, f_rows, f_stats, shown>>

(* sw_page main|laps -> ui_oled_set_page()                                *)
SetPage(p) ==
  /\ s_page' = p /\ s_page_drawn' = FALSE
  /\ UNCHANGED <<abs_vars, s_laps_offset, screen, ui_pc, f_total,
                 f_cnt, f_i, f_rows, f_stats, shown>>

(* sw_laps_prev -> ui_oled_laps_prev()                                    *)
LapsPrev ==
  /\ s_laps_offset' = IF s_laps_offset >= PAGE_ROWS
                        THEN s_laps_offset - PAGE_ROWS ELSE 0
  /\ UNCHANGED <<abs_vars, s_page, s_page_drawn, screen, ui_pc,
                 f_total, f_cnt, f_i, f_rows, f_stats, shown>>

(* sw_laps_next -> ui_oled_laps_next(): a page further when there is one. *)
LapsNext ==
  /\ s_laps_offset + PAGE_ROWS < Len(laps)
  /\ s_laps_offset' = s_laps_offset + PAGE_ROWS
  /\ UNCHANGED <<abs_vars, s_page, s_page_drawn, screen, ui_pc,
                 f_total, f_cnt, f_i, f_rows, f_stats, shown>>

Next ==
  \/ EngineCommand
  \/ \E p \in {0, 1} : SetPage(p)
  \/ LapsPrev \/ LapsNext
  \/ UiStep

(* ui_entry loops forever with a sleep per turn, and every thread of      *)
(* higher priority (tshell, the timer thread) blocks between commands, so *)
(* it gets the CPU again: weak fairness.                                  *)
Spec == Init /\ [][Next]_cvars /\ WF_cvars(UiStep)

-----------------------------------------------------------------------------
TypeOK ==
  /\ state \in {IDLE, RUNNING, PAUSED}
  /\ total_ms \in 0..MAX_TOTAL /\ last_lap_total_ms \in 0..MAX_TOTAL
  /\ laps \in Seq(0..MAX_TOTAL) /\ Len(laps) <= MAX_LAPS
  /\ s_page \in {0, 1} /\ s_page_drawn \in BOOLEAN
  /\ s_laps_offset \in Nat
  /\ screen \in {"splash", "main", "laps"}
  /\ f_i \in 0..MAX_LAPS /\ Len(f_rows) <= PAGE_ROWS /\ Len(f_stats) <= MAX_LAPS

(* Whenever draw_main_page draws its time and lap values, the "Stopwatch" *)
(* and "Lap:" labels are on the panel: s_page_drawn, shared between       *)
(* sw_page in the shell and the display thread, never claims labels that  *)
(* the laps page has cleared away.                                        *)
MainLabelsShown == ui_pc \in {"main_cnt", "main_latest"} => screen = "main"

(* A frame is one picture of the stopwatch: the lap draw_main_page shows *)
(* is not longer than the total it shows, and each row draw_laps_page     *)
(* shows agrees with the value its min/max/avg statistics read for the    *)
(* same index.  Checked at the step that completes the frame.             *)
RowsAgreeWithStats(rows, stats) ==
  \A k \in DOMAIN rows :
    rows[k][1] < Len(stats) => stats[rows[k][1] + 1] = rows[k][2]

FrameIsSelfConsistent ==
  [][/\ ui_pc = "main_latest" => GetLatestLapMs <= f_total
     /\ ui_pc = "laps_stat" /\ ui_pc' = "top" => RowsAgreeWithStats(f_rows, f_stats)
    ]_cvars

(* The laps page the user asked for: PAGE_ROWS laps from s_laps_offset,   *)
(* or from the first lap once that offset is past the count.              *)
PageRows ==
  LET o == IF s_laps_offset >= Len(laps) THEN 0 ELSE s_laps_offset
      n == IF Len(laps) - o < PAGE_ROWS THEN Len(laps) - o ELSE PAGE_ROWS
  IN [k \in 1..n |-> <<o + k - 1, laps[o + k]>>]

(* Torn laps frames heal: once the laps, the offset and the page stop     *)
(* changing with the laps page selected, the display settles on showing   *)
(* exactly the requested page (the fallback to the first page included).  *)
LapsPageSettles ==
  (<>[][UNCHANGED <<laps, s_laps_offset, s_page>>]_cvars /\ <>[](s_page = 1))
    => <>[](shown.page = 1 /\ shown.rows = PageRows)

=============================================================================
