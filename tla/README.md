# TLA+ models of the RT-Thread stopwatch

This directory holds TLA+ models of the stopwatch firmware in `src/`. It has
the modules, the TLC configurations that check them, and `PROJECT.json`. That
file lists the components, the runs, the fault variants (mutants), the map from
definitions to source lines, the findings and the hazards.

## 1. Inventory

### Components

| Component | Source | State | Operations | Modelled |
|---|---|---|---|---|
| MonotonicClock | `applications/timebase.c` | `cpu_hz`, `dwt_ok`, `last_cyc`, `total_cyc`; hardware `DWT->CYCCNT` (32 bit) and `rt_tick` (32 bit) | `timebase_init`, `timebase_get_us` | `Timebase` |
| StopwatchEngine | `applications/stopwatch.c` | `g_inited`, `g_sw` = {state, accumulated_ms, state_start_us (0 = none), last_lap_total_ms, lap_durations_ms[20], lap_count, lock} | `stopwatch_init` (explicit and lazy), `start`, `stop`, `reset`, `lap`, `clear_laps`, `get_total_ms`; the queries `get_state`, `get_lap_count`, `get_lap_ms`, `get_latest_lap_ms` | `Stopwatch` |
| (interface) | `applications/stopwatch.h` | what the queries return | the promises of the engine | `StopwatchAbstract` |
| Startup | `applications/main.c` | none | calls `stopwatch_init` first, then starts the LED, display and light threads | `StopwatchInit` and each module's `Init`; the loop only sleeps |
| CommandInterface | `applications/stopwatch_cli.c` | `csv_timer`, `csv_period_ms`, `csv_header`, `csv_human` | `sw_*` shell commands; `csv_timer_cb` on a soft timer | partly: engine and paging commands (`Consumers`), `sw_light*`, `sw_beep`, `sw_oled_rate` (`LightLinkage`), `sw_csv*`, `sw_timefmt`, `csv_timer_cb` (`CsvStream`), `format_time`, `ms_to_ticks` (`TimeFormat`) |
| DisplayUI | `applications/ui_oled.c` | `s_page`, `s_page_drawn`, `s_laps_offset`, `s_refresh_ms`, `s_oled_enabled` | `ui_oled_init`, `ui_entry` loop (draw main or laps page); `set_page`, `laps_next/prev`, `set_refresh_ms` | `Consumers`, `LightLinkage`, `OledDisplay` |
| LightSensor | `applications/sensor_light.c` | `s_enabled`, `s_dark`, `s_invert`; the loop's `dark_cnt`, `light_cnt` | `light_thread_entry` (3-sample hysteresis), `apply_state`, `enable`, `set_invert` | `LightLinkage` |
| Buzzer | `applications/notifier_buzzer.c` | `s_beep_enabled`, the pin | `beep_enable`, `beep_once` | `LightLinkage` |
| LedIndicator | `applications/indicator_led.c` | the pins, the loop's `blink` | loop: poll `get_state`, set pins | `Indicator`, `Peripherals` |
| OledDriver | `qu_dong/OLED/OLED.c` | `OLED_DisplayBuf[8][128]`, `s_oled_addr`, the SCL/SDA pins | `OLED_Init`, `Clear`, `ClearArea`, `ShowImage`, `ShowChar`, `ShowString`, `Update`, `UpdateArea`; the bit-banged `Start`/`Stop`/`SendByte` | `OledBus`, `OledDriver` (panel: `Ssd1306`) |

### How the components interact

Four threads share the engine, and the shell thread runs every `sw_*` command.

- The shell thread is the only thread that mutates the engine: `start`, `stop`,
  `reset`, `lap` and `clear_laps`. It also runs `sw_status` and the paging
  commands.
- The display thread (`ui_entry`) polls `get_total_ms`, `get_lap_count` and
  `get_latest_lap_ms`, or on the laps page `get_lap_ms(i)`. It polls every
  `s_refresh_ms`, which is 10 ms in light and 300 ms in the dark.
- The CSV soft-timer thread polls `get_total_ms`, `get_lap_count` and
  `get_latest_lap_ms`.
- The shell thread (`tshell`, priority 20 by default) has a higher priority
  than the display thread (`RT_THREAD_PRIORITY_MAX - 4`) and the LED and light
  threads (`MAX - 3`). It can therefore preempt them between any two
  statements.
- The soft-timer thread (priority 4 by default) is higher than the shell. When
  it blocks on `g_sw.lock`, priority inheritance lets the holder finish one
  operation, and the timer thread then runs on. So the shell cannot run
  between the three calls of one CSV row.
- The LED thread polls `get_state`.
- The light thread writes the buzzer enable and the display refresh period.
- Only the display thread calls the OLED driver once the threads run;
  `ui_oled_init` (from `main`, before them) is its only other caller. The
  driver draws into `OLED_DisplayBuf` and sends it to the SSD1306 panel over
  a bit-banged I2C bus.

Each engine call takes `g_sw.lock` around its whole body. The clock is read
only inside those bodies. The engine has no callbacks.

### What is hard

- **Clock arithmetic at fixed widths.** CYCCNT wraps every 2^32 cycles, which is
  59.65 s at 72 MHz. `timebase_get_us` handles a wrap only if the counter is read
  at least once per period, and nothing reads it while the stopwatch is idle.
  The product `total_cyc * 1000000` is taken in 64 bits. The fallback tick is
  32 bits.
- **The `state_start_us == 0` sentinel.** 0 means "no reference", but 0 is also
  a legal clock reading.
- **Sequences of operations.** Reset while running, start while running,
  clear_laps, and laps at capacity are each a short sequence that unit tests
  rarely combine.
- **Multi-call reads by the pollers.** Each call is atomic, but a display frame
  is made of several calls, and the shell can run between them. A CSV row is
  also several calls, but under the default priorities the shell cannot
  separate them.
- **Hysteresis counters in the light thread**, which survive disable and invert.

### What makes each component correct

- MonotonicClock: the reading never decreases, and the running total equals
  the cycles that really passed.
- StopwatchEngine:
  - the total equals the time really spent Running since the last reset, up to
    the truncation the code documents;
  - the lap history is the latest `MAX_LAPS` laps, in order;
  - no lap duration wraps around;
  - every call sees a state that some serial order of the calls produces.
- The engine as a whole keeps the promises of `stopwatch.h`: a total that
  moves only while Running and never backwards, laps measured from the last
  mark, and reset and clear_laps that leave what they promise.
- Consumers: the main page always has its labels, and the laps page settles
  on the requested page. A frame showing values from one engine state would
  also be desirable, but it does not hold (see `consumers_torn_frame`).
- LightSensor: the dark/light state follows a steady reading; the buzzer is
  silent while disabled; `sw_light off` stops the linkage, which does not
  quite hold (see `lightlink_off_race`).
- LedIndicator: the LEDs settle on the pattern of the current state.

## 2. Plan

1. **`Timebase`** (done). It models the clock alone, with the hardware as true
   time in cycles.
2. **`Stopwatch`** (done). It EXTENDS `Timebase`, so every engine action also
   makes the clock's state change of the `timebase_get_us` calls it performs.
3. **`StopwatchAbstract`** and the refinement (done). `Stopwatch` implements
   it under the mapping total = `NowTotalMs`, laps = the retained window.
4. **`Consumers`** (done). The display thread and the shell's paging,
   composed with `StopwatchAbstract`. The CSV callback is not a separate
   process: under the default priorities its three calls cannot be separated
   by the shell (see section 1).
5. **`LightLinkage`** (done). The light thread, the buzzer, the refresh period
   and the shell commands that share them.
6. **`Indicator`** (done). The LED thread, composed with `StopwatchAbstract`.
7. **`TimeFormat`** and **`CsvStream`** (done). The text conversions, as
   operators checked against a reader's reference, and the CSV stream: the
   `sw_csv`, `sw_csv_header` and `sw_timefmt` commands, the soft timer's
   state, and the callback.
8. The 32-bit millisecond wrap of the total. Left out: at the bounds TLC
   reaches, the congruence it should satisfy holds by the shape of the
   arithmetic, so a run would show nothing (section 7).
9. **`Peripherals`** (done). `Indicator` and `LightLinkage` composed with the
   engine commands that both move the engine and beep.
10. **`OledBus`**, **`OledDriver`**, **`Ssd1306`** and **`OledDisplay`** (done).
   The OLED driver down to the pin writes, and the display thread's frames
   drawn through it onto a model of the panel.
11. Next:
   - `Consumers` under a non-default configuration in which the timer thread
     has a lower priority than the shell, where CSV rows can be torn;
   - a ghost of the running time at each lap mark, to check that a lap
     straddling the 32-bit wrap still measures its true duration.

## 3. Modules and their correspondence to the code

### `Timebase.tla` (timebase.c)

Variables:

- `cyccnt`, `dwt_ok`, `last_cyc` and `total_cyc` are the C variables and the
  register.
- `cycles` is true time since boot. The OS tick is derived from it:
  `TickAt(c) = (c / CYC_PER_TICK) % 2^TICK_BITS`.
- `init_at`, `sampled_at` and `last_us` are history variables.

Every C width is a constant: `CYC_BITS`, `TICK_BITS` and `U64_BITS`. The
`% 2^w` reductions sit where the code truncates.

| Definition | Code |
|---|---|
| `HwAdvance(d, gap)` | time passes. CYCCNT counts once enabled. `gap` is the most cycles allowed since the last read while the DWT path is in use. |
| `TimebaseInit` | `timebase_init`/`dwt_init`. The enable readback is a choice from `DWT_OUTCOMES`. |
| `Sample` | the state change of one `timebase_get_us` call. |
| `NowUs` | its result. |
| `InitAndSample(ok, lat)` | a lazy start: init, then a read `lat` cycles later. |

### `Stopwatch.tla` (stopwatch.c)

The module EXTENDS `Timebase`. Each public function is one atomic step,
because it holds `g_sw.lock` for its whole body. An early return that changes
nothing is a stuttering step and has no action. This covers:

- start while Running;
- stop while not Running;
- a failed `rt_mutex_create`;
- the snapshot queries.

Actions:

| Action | Code |
|---|---|
| `StopwatchInit` | a successful `stopwatch_init`, from `main` or lazily from `stop`/`reset` |
| `Start` | `stopwatch_start`: explicit, or with lazy init and a read `LAZY_LATENCY` cycles later |
| `Stop` | `stopwatch_stop`, including the sentinel branch |
| `Reset` | `stopwatch_reset`; a running stopwatch re-arms its reference |
| `Lap` | `stopwatch_lap`: total, duration, append or shift, mark; also the lazy-init variant |
| `ClearLaps` | `stopwatch_clear_laps` |
| `GetTotalMs` | a poll of `stopwatch_get_total_ms`, which advances the clock's `last_cyc`/`total_cyc` |
| `Tick` | time passing; the running history `run_cyc` follows it |

`Tick` uses two gap bounds:

- While the total reads the clock (Running with a non-zero reference), the
  display thread's polling bounds the gap between reads by `POLL_GAP`.
- Otherwise nothing reads the clock, and only `MAX_UNSAMPLED` applies.

History variables:

- `run_cyc`: the cycles spent Running since the last reset;
- `folds`: the intervals closed by `stop` since the last reset;
- `hist`: every lap since the last reset or `clear_laps`.

### `StopwatchAbstract.tla` (stopwatch.h)

Variables `state`, `total_ms`, `last_lap_total_ms` and `laps` (the retained
laps as a sequence). One action per operation (`AbsStart`, `AbsStop`,
`AbsReset`, `AbsLap`, `AbsClearLaps`) and `Elapse` for time passing while
Running, bounded by `MAX_TOTAL`. `Stopwatch` defines
`Abs == INSTANCE StopwatchAbstract WITH total_ms <- NowTotalMs, laps <- LapSeq`
and checks `StopwatchRefinesAbstract == Abs!AbsSpec` as a property.

### `Consumers.tla` (ui_oled.c, paging commands)

The module EXTENDS `StopwatchAbstract`. Every shell command is one step: an
engine operation (`EngineCommand`), `SetPage`, `LapsPrev` or `LapsNext`. The
display thread is a program counter `ui_pc` with one step per engine call and
per access of the shared page state:

| Step | Code |
|---|---|
| `UiTop` | `ui_entry` line 113: choose the page |
| `MainTotal`, `MainStatic`, `MainMark`, `MainCount`, `MainLatest` | `draw_main_page` lines 37, 40-45, 46, 54, 58 |
| `LapsCount` | `draw_laps_page` lines 69-71 (clear, title, count) |
| `LapsClamp`, `LapsClampStore` | line 73, its load and compare, then its store |
| `LapsRow` | one iteration of lines 75-84; `s_laps_offset` is re-read each time |
| `LapsStat` | one iteration of lines 89-95, or the end of the frame |

`screen` records which labels are on the panel (splash, main or laps), and the
history variable `shown` holds the page and rows of the last completed frame.
The frame's locals are reset when it ends, because they are dead afterwards.

### `TimeFormat.tla` (format_time, format_time_ms, ms_to_ticks)

Pure operators. A text is a sequence of one-character strings: `Digits` is
`%u`, `Pad` is `%0wu`, and `FormatTime` and `FormatTimeMs` put the fields
together exactly as the two `rt_snprintf` calls do. `MsToTicks` rounds up in
64 bits, replaces 0 by 1 and casts to `rt_tick_t`. The reference half of the
module reads a text back: `Fields`, `Separators`, `Number`, and `ReadsAsClock`
/ `ReadsAsCentis`, which accept a text only if each field has its width and
range, and give its value.

### `CsvStream.tla` (stopwatch_cli.c lines 116-221)

Variables: the four statics, the kernel timer as the code sees it (created,
started, period in ticks), the last callback's output, and `reported_ms`, the
total the engine reports (any value of `TOTALS` between two steps). Actions:

| Action | Code |
|---|---|
| `CsvOn` / `CsvOnWith(p)` | `cmd_sw_csv` "on": argument cast and clamp (`PeriodArg`), then create (may fail with `-RT_ENOMEM`) or `SET_TIME`, then start |
| `CsvOff` | `cmd_sw_csv` "off" |
| `CsvHeader(b)`, `TimeFmt(h)` | `cmd_sw_csv_header`, `cmd_sw_timefmt` |
| `CsvTimerCb` | `csv_timer_cb`: header once, then the row (`RowTotalText`) |
| `EngineReports` | the engine's total moving under other threads |

The soft-timer thread (priority 4 by default) outranks the shell, so each
command and each callback is one step.

### `Indicator.tla` (indicator_led.c)

The module EXTENDS `StopwatchAbstract`. `LedPoll` is one turn of the loop: read
the state, set the run and pause pins, and toggle `blink` while Running.

### `LightLinkage.tla` (sensor_light.c, notifier_buzzer.c, part of ui_oled.c)

Variables are the C statics, the loop's counters, the DO pin, the buzzer pin
and two program counters. The light thread has two steps: `LightCheck` (the
test of `s_enabled`, after which the shell may preempt it) and `LightSample`
(reading, counters at `rt_uint8_t` width, hysteresis and `apply_state`). The
shell's commands are `SwLight`, `SwLightInvert`, `SwBeep`, `SwOledRate` (with
the command's clamp, the `rt_uint16_t` cast and the setter's clamp), and
`BeepOnce`/`BeepDone` around the delay of `notifier_beep_once`.

### `Peripherals.tla` (indicator_led.c, sensor_light.c, the engine commands)

The module EXTENDS `LightLinkage` and `StopwatchAbstract` and instantiates
`Indicator`. `SwEngineCommand` is `sw_start`/`stop`/`reset`/`lap`: the engine
operation (or the early return of `start` while Running and `stop` while
stopped), then the beep of `notifier_beep_once`. `SwClearLaps` has no beep.
`LedTurn` is the LED thread's turn and `LightStep` any step of
`LightLinkage`. `PInit` is the state `main` leaves after the init calls.

### `OledBus.tla` (OLED.c lines 35-127)

A waveform is the sequence of pin writes `<<line, level>>`. `I2cStart`,
`I2cStop` and `SendByte` are the writes of `OLED_I2C_Start`, `OLED_I2C_Stop`
and `OLED_I2C_SendByte` (eight bits MSB first, then the unread acknowledge
slot); the delays are left out. `CommandBytes` and `DataBytes` are the bytes
of `OLED_WriteCommand` and `OLED_WriteData`. A reference receiver
(`RxStep`, `RxRun`) takes a START from SDA falling while SCL is high, a STOP
from SDA rising while SCL is high, and a bit on each rising SCL.
`StartStopDecode` and `GoodBytes` say which pieces decode as sent, from the
line levels each piece leaves for the next.

### `OledDriver.tla` (OLED.c lines 129-359)

`OLED_DisplayBuf` is a function from page to column to byte, and a byte is
the set of its 1 bits. Each drawing function is an operator from a buffer to
a buffer, with the code's guards: `ClearArea` clears on-screen pixels of the
rectangle; `ShowImage` clears, then ORs each image byte shifted by `Y % 8`
into its page and the remainder into the page below (`Shl` keeps the
`uint8_t` store's truncation); `ShowChar` draws the 6x8 glyph for both sizes,
because the 8x16 font is compiled out; `ShowString` advances `FontSize`
pixels per character. `SetCursor`, `Update` and `UpdateArea` give the
transactions sent, with `Page1 = (Y + Height - 1) / 8 + 1` and the bytes read
from `&OLED_DisplayBuf[j][X]` in row-major order. `OLED_Init` is its command
list, then `Clear` and `Update`. The font (`OLED_F6x8`, in `OLED_Data.c`,
which the repository does not include) is a constant.

### `Ssd1306.tla` (the panel; environment)

The panel as its datasheet describes it, in the page addressing mode it
resets to: its RAM, the page and column pointers, the two-byte command
whose argument it is waiting for, and whether the display and the charge
pump are on. The command decoder keeps waiting for an argument across
transactions; a START only restarts the byte receiver. The panel lights its
RAM only with both on (`Seen` in `OledDisplay`). `PanelTx` takes one transaction: the address,
the control byte (0x00 commands, 0x40 data), the rest. Data bytes land at the
column pointer, which advances and wraps within the page.

### `OledDisplay.tla` (ui_oled.c, with the driver and the panel)

Variables are `buf`, `panel`, `s_page`, `s_page_drawn`, the engine's current
total and laps, and the history `shown` (the page and values of the last
frame). `Init` is `ui_oled_init`: `OLED_Init`, then the splash screen, from any
state the panel can be in when `main` starts (`StartPanels`). The panel is
not reset with the MCU. After power-on its RAM is arbitrary and the rest is
at the datasheet defaults. After an MCU reset (the reset button, a debugger,
a fault) the panel keeps what the last run left: the pointers anywhere, the
display and pump on or not, and, when the reset fell between the two
`OLED_WriteCommand` calls of a two-byte command, a pending argument. The
first byte of the new `OLED_Init` is then taken as that argument. `DrawMainPage` and `DrawLapsPage` are whole
frames: every `OLED_*` call of `draw_main_page` / `draw_laps_page` in order,
the buffer changes and the transactions sent. A frame is one step because
only the display thread uses the driver; the tearing of a frame's engine
reads is the subject of `Consumers`, and here the engine's values range
independently, so every combination a torn frame can read is drawn.
`SetPage` is `ui_oled_set_page`, and `EngineStep` moves the engine.

## 4. Runs

| Run | Result | What it shows |
|---|---|---|
| `timebase_u64_overflow` (`MCTimebase_u64.cfg`) | violation of `ClockMonotonic` | `total_cyc * 1000000` overflows 64 bits. At full scale this happens after 2^64/10^6 cycles, about 71 h at 72 MHz. The reading then jumps back. |
| `timebase_tick_wrap` (`MCTimebase_tick.cfg`) | violation of `ClockMonotonic` | on the fallback path, the 32-bit tick wraps after 49.7 days and the reading drops to near 0. The spec says the fallback keeps monotonicity. |
| `stopwatch_pass` (`MCStopwatch.cfg`) | pass | see below |
| `stopwatch_lost_wrap` (`MCStopwatch_lostwrap.cfg`) | violation of `ElapsedTracksRunningTime` | see below |
| `csv_pass` (`MCCsvStream.cfg`) | pass | `PeriodIsLeastTicks`: the running CSV timer ticks at the least whole number of ticks, at least one, that lasts the period last accepted. This holds after a timer created for an older period, a failed creation, and `off` followed by `on` without an argument. `RowReadsBack`: each total up to 2^31-1 ms prints in a row as text that reads back as that total, in both formats. `OledTextShowsCentis`: the same total on the OLED reads back as the total cut to centiseconds. `TypeOK` also checks the 10 ms floor. |
| `csv_timer_limit` (`MCCsvStream_limit.cfg`) | violation of `PeriodWithinTimerLimit` | `sw_csv on -1`: `atoi` gives -1, the cast makes it the largest `rt_uint32_t`, and at 1000 ticks per second `ms_to_ticks` passes `rt_timer_start` a period of `RT_TICK_MAX` or more over 2. RT-Thread asserts against that. Any period of 2^31 ms or more does the same. |
| `consumers_pass` (`MCConsumers.cfg`) | pass | `MainLabelsShown`: the main page never draws its values without its labels, whatever order `sw_page` and the display thread run in. `LapsPageSettles`: once the laps, offset and page stop changing, the laps page ends up showing exactly the requested rows, or the first page when the offset is past the count. |
| `consumers_torn_frame` (`MCConsumers_torn.cfg`) | violation of `FrameIsSelfConsistent` | a `lap` between `draw_main_page`'s total read (line 37) and its lap read (line 58) shows a lap longer than the total beside it. On the laps page, a shift between the row and statistic reads makes a row disagree with its own min/max/avg. |
| `peripherals_pass` (`MCPeripherals.cfg`) | pass | On the composition of the LED thread, the light thread and the shell. `LedFollowsState`: the LEDs settle on the pattern of any state the commands leave the stopwatch in, and the run LED keeps blinking while Running. `BuzzerSilentWhenDisabled`: a dark transition during a command's beep silences the buzzer. `RefreshNeverBelowMin`: no `sw_oled_rate` argument gets the period under 10 ms, even 65541, which the cast turns into 5. `LightFollowsSteadyReading`: a steady reading is eventually adopted, whatever the counters held, including after the `uint8_t` counters wrap. |
| `oled_pass` (`MCOledDisplay.cfg`) | pass | `WireFramesDecode`: every byte the driver bit-bangs (address, control, every command and every framebuffer byte) decodes at a reference receiver as that byte, between a START and a STOP. `PanelShowsBuffer`: after the splash screen and every frame, the panel's RAM equals `OLED_DisplayBuf`, so each change was sent to the right page and column. `ScreenReadsBack`: the panel lights exactly the text of the last frame (labels, time, latest lap or none; or the lap rows and the statistics line, clipped at the right edge), with nothing left from an earlier frame or page, starting from any state an MCU reset leaves the panel in. |
| `lightlink_off_race` (`MCLightLinkage_off.cfg`) | violation of `LightOffFreezesLinkage` | `sw_light off` preempts the light thread after its `s_enabled` test, and the iteration still switches the dark state and, with it, the beep and refresh settings. |
| `lightlink_stale_counters` (`MCLightLinkage_stale.cfg`) | violation of `SwitchNeedsFreshRun` | the comment at line 63 promises a switch only after 3 consecutive determinations. `sw_light off` leaves `dark_cnt`/`bright_cnt` as they are, and `sw_light on` does not clear them. Two dark samples before `off` and one after `on` switch to dark on the first fresh sample. A history variable `fresh` in `MCLightLinkage` counts the samples taken since the last `off`-to-`on` edge; it is an observer and changes nothing in the model. |

Properties of `stopwatch_pass`:

- `ElapsedTracksRunningTime`: `TrueMs - NowTotalMs` lies in
  `[0 or -Intervals, Intervals]`. The lower bound is 0 on the DWT path and
  `-Intervals` on the tick path. Each interval measured since the last reset
  may lose at most the millisecond `stop` truncates, plus on the tick path one
  tick of rounding. So the total neither invents time (on DWT) nor loses an
  interval. This holds across reset while running and restarts.
- `LapWindowIsLatest`: the lap array holds the last `min(len, MAX_LAPS)` laps of
  the history, oldest first.
- `LapMarkNotAhead`: `last_lap_total_ms <= total`, so the next lap cannot wrap.
- `LapsWithinTotal`: the retained laps never add up to more than the total,
  so the display's `sum_ms` cannot overflow before the total does.
- `ClockMonotonic`, on the composed system. Across several CYCCNT wraps,
  readings never decrease, on both the DWT and the tick path.
- `StopwatchRefinesAbstract`: every step is a step of `StopwatchAbstract`.

`stopwatch_lost_wrap` uses only the DWT path, and nothing reads the clock while
idle. The trace runs as follows:

1. The first `start` comes exactly one CYCCNT period after init.
2. The read returns 0, and `start` stores the 0 sentinel.
3. `get_total_ms` then reports 0 while time passes, and `stop` would fold
   nothing.

A lazy start less than 1 µs after `timebase_init` reaches the same state.

Each property of a passing run has a mutant in `PROJECT.json`, and TLC finds
the property violated under it:

- a widened CYCCNT subtraction;
- `start` without its early return;
- `reset` that keeps the lap mark;
- a capacity test off by one;
- eviction without the shift;
- `reset` that keeps the lap count, and `stop` that drops the open interval;
- a laps-page row loop without its bound, `set_page` that keeps
  `s_page_drawn`, and a laps page without its fallback to offset 0;
- the LED's PAUSED case falling through into default;
- the refresh period without the setter's clamp, a buzzer left on when
  disabled, and a light branch that tests `dark_cnt`;
- `format_time` with unreduced minutes, `format_time_ms` taking the last two
  digits as centiseconds, and `ms_to_ticks` rounding down;
- `sw_csv on` restarting an existing timer without `SET_TIME`, and a period
  argument without its 10 ms floor;
- `SendByte` raising SCL before setting SDA, `UpdateArea` without the `+ 1`
  of `Page1`, `ShowImage` without the carry into the next page, and `OLED_Init` enabling the
  charge pump first: after an MCU reset with an argument pending, the pump
  command is swallowed and the panel stays dark. That mutant survives when
  only power-on panel states are checked.

## 5. Bounds and why they are enough

The MC modules scale the widths down and keep the ratios that matter:

- One cycle is 1 µs (`CPU_HZ = US_PER_SEC = 4`).
- A millisecond is 2 µs, so every interval truncation happens.
- One tick is one millisecond, as with `RT_TICK_PER_SECOND = 1000`.
- CYCCNT is 2 bits wide, so it wraps every 4 cycles. `MAX_CYCLES` is 12 for
  the clock and 10 for the stopwatch, so runs cross two or three wraps.
- The lap array holds 2 laps and up to 3 laps are recorded, so eviction happens.
- `stop` folds are capped at 2 per reset, through the state constraint
  `FoldBound`.

The pass runs choose `U64_BITS`, `TICK_BITS` and `U32_BITS` wide enough that
no overflow happens within `MAX_CYCLES`. The violation runs narrow exactly one
of them.

`MAX_UNSAMPLED = POLL_GAP = 3` (under one wrap period) in the pass runs.
No property of the pass run depends on that bound to hold where the code
would fail it: the idle lost wrap it excludes is exactly what
`stopwatch_lost_wrap` shows.
`POLL_GAP` is justified by the display thread, which polls `get_total_ms` at
least every 300 ms while Running, far below 59 s. `MAX_UNSAMPLED` is not
justified by the code: nothing reads the clock while idle. The pass run
therefore states what holds when the clock is read often enough, and
`stopwatch_lost_wrap` drops that bound.

`Consumers` keeps 3 laps shown 2 per page, so that paging, eviction and an
offset past the count all occur. Totals go up to 1 ms, which is enough to tell
a lap from an empty slot and a shifted array from an unshifted one; it gives
962,080 states. `Peripherals` uses 1 lap and totals up to 1 ms (the LEDs
depend on the state only), the real refresh values, 3-bit counters (so a long
dark run wraps them), and `sw_oled_rate` arguments 0, 300 and 65541.

`MCOledDisplay` uses a font whose glyphs use all eight rows, so glyphs drawn
at `Y = 36` carry into the next page. The totals are 1230 ms and 6000000 ms,
whose texts are 8 and 9 characters long, so a shorter time follows a longer
one. The laps are up to two of 980 ms and 120000 ms, so the latest lap is
shown or not, and the statistics line of two 120000 ms laps (23 characters)
runs past the right edge. The starting panel RAM is blank or all lit; its
pointers are at page 0 or 7 and column 0 or 100; the pending command is
none or any of the eight two-byte commands; the display and pump are both
off, pump only, or both on (the last run turned the pump on first). The
run has 1,085 states.

`CsvStream` cuts the period's `rt_uint32_t` and `rt_tick_t` to 16 bits, which
keeps the ratio between the default 200 ms and `RT_TICK_MAX / 2`. The
arguments are 0 (also what `atoi` gives for text), 15, 20 and -1. The pass run
uses 100 ticks per second, so 15 ms and 65535 ms are not whole numbers of
ticks and the rounding is exercised. The limit run uses 1000. The totals are
0..99 and two values on each side of every field roll-over, up to 100 hours,
plus 2^31 - 2 and 2^31 - 1. TLC's integers stop at 2^31 - 1, so totals from
24.8 to 49.7 days are not checked; the arithmetic of those fields is the same.

The model makes the following assumptions:

- A shell command comes at least one cycle (1 µs) after `stopwatch_init`.
- A lazy start reads the clock at least 1 µs after init (`LAZY_LATENCY = {1}`).
- Making one cycle equal 1 µs leaves out the sub-microsecond floor of the
  72 MHz conversion.

## 6. Fairness

Engine operations never wait except for the lock, which is held for bounded
time; engine and shell steps get no fairness (the user may stop typing).

- `LightLinkage`: weak fairness on `LightCheck`, `LightSample` and `BeepDone`.
  The light thread sleeps a fixed 50 ms per turn. Every thread of higher
  priority blocks regularly: the shell waits for input, and the display thread
  sleeps at least 10 ms per frame. The end of a beep is the end of a fixed
  delay.
- `Consumers`: weak fairness on the display thread's step, which sleeps
  `s_refresh_ms` per frame and is preempted only by threads that block.
- `Peripherals`: weak fairness on `LedTurn` (the LED thread sleeps 200 or
  500 ms per turn) and on the light thread's steps, as in `LightLinkage`.
- `OledDisplay` checks only invariants and assumes no fairness.

## 7. Not modelled, and why

- `OLED_DrawPoint`, which nothing calls, and the UTF-8 branch of
  `OLED_ShowString`, which is compiled out. `OLED_SetI2CAddress` is called
  once with the default `0x78` and is the constant `OLED_ADDR`.
- The bus waveform is checked piece by piece (START, each byte value, STOP),
  not as one waveform per frame: a frame is thousands of pin writes.
- The statistics line of three laps of 100 s or more is longer than the
  panel, and the end of the average is cut off. `ScreenReadsBack` checks the
  clipped line as drawn; that such a line cannot be read is not stated as a
  property.
- `s_laps_offset` in `OledDisplay`: with at most six laps the laps page never
  scrolls (paging is checked in `Consumers`).
- Lost bytes on the I2C bus. `OLED_I2C_SendByte` never reads the
  acknowledge bit, so a missed byte is never noticed or resent. The next
  frame resends the time and lap areas and the whole laps page, but the main
  page labels only return after a page switch. The model delivers every
  transaction; checking recovery would need each frame split at each of its
  transactions, too many states for the pixel-level model.
- `ui_oled_set_enabled` and `ui_oled_laps_reset`, which nothing calls.
- `sw_status`: it runs on the shell thread, the only mutator, so its several
  calls see one state. It changes nothing but the clock's sample. Its min/max/
  avg loop is that of the laps page (`LapsStat` in `Consumers`), and its text
  is `format_time`.
- The CSV row's lap and count columns, and the text of the laps page and its
  statistics. The callback reads them in one step (section 1), and their text
  is `Digits` and `FormatTimeMs` again.
- The kernel's soft-timer list: a timer is its created, started and period
  state. Whether a period of `RT_TICK_MAX / 2` or more trips the assertion or,
  without asserts, fires at once is the kernel's business.
- The LED pins and the buzzer pulse. They carry no state that a property
  distinguishes.
- `state_start_tick`: it is written but never read.
- The lazy-init race on `g_inited`, where two threads could both create the
  mutex. It is unreachable here: only the shell thread calls the
  lazily-initialising mutators, and `main` calls `stopwatch_init` before any
  user command.
- The 49.7-day wrap of the total and of a lap straddling it. Both are
  computed modulo 2^32, so the total is the running time modulo 2^32, which
  the comment at line 35 of `stopwatch.c` documents. With a 2-bit
  `rt_uint32_t`, the only width TLC reaches a wrap with, that congruence holds
  by the shape of the arithmetic, so no run checks it.
