------------------------------ MODULE Timebase ------------------------------
(***************************************************************************)
(* The microsecond time source of applications/timebase.c.                 *)
(*                                                                         *)
(* timebase_get_us() reads the free-running DWT cycle counter CYCCNT,      *)
(* adds the wrap-safe delta since the previous read to a 64-bit running    *)
(* total and converts it with total * 1000000 / cpu_hz.  When the DWT      *)
(* could not be enabled it falls back to rt_tick_get() * 1000000 /         *)
(* RT_TICK_PER_SECOND.  The module keeps the hardware (true time in        *)
(* cycles, the CYCCNT register and the RT-Thread tick derived from it) and *)
(* the software state, and every fixed width of the C code as a constant   *)
(* so that an MC module can shrink 2^32 and 2^64 to sizes TLC can reach.   *)
(***************************************************************************)
EXTENDS Integers

CONSTANTS
  CYC_BITS,         \* width of DWT->CYCCNT and of last_cyc (32)
  TICK_BITS,        \* width of rt_tick_t (32)
  U64_BITS,         \* width of uint64_t (64)
  CPU_HZ,           \* cpu_hz, taken from SystemCoreClock
  US_PER_SEC,       \* the 1000000ULL factor
  TICK_PER_SECOND,  \* RT_TICK_PER_SECOND
  MAX_CYCLES,       \* bound: cycles since boot the model explores
  MAX_STEP,         \* bound: cycles one hardware step may advance
  DWT_OUTCOMES      \* what reading DWT_CTRL back after enabling can give

ASSUME /\ CYC_BITS \in Nat \ {0} /\ TICK_BITS \in Nat \ {0}
       /\ U64_BITS \in Nat \ {0}
       /\ CPU_HZ \in Nat \ {0} /\ US_PER_SEC \in Nat \ {0}
       /\ TICK_PER_SECOND \in Nat \ {0}
       /\ CPU_HZ % TICK_PER_SECOND = 0
       /\ MAX_CYCLES \in Nat /\ MAX_STEP \in Nat \ {0}
       /\ DWT_OUTCOMES \subseteq BOOLEAN /\ DWT_OUTCOMES # {}

VARIABLES
  cycles,      \* true time: CPU cycles since boot (hardware, not in the code)
  cyccnt,      \* DWT->CYCCNT
  dwt_ok,      \* dwt_ok
  last_cyc,    \* last_cyc
  total_cyc,   \* total_cyc
  tb_inited,   \* timebase_init() has run
  init_at,     \* history: cycles when timebase_init() ran
  sampled_at,  \* history: cycles at the last timebase_get_us()
  last_us      \* history: the value the last timebase_get_us() returned

clock_vars == <<cycles, cyccnt, dwt_ok, last_cyc, total_cyc, tb_inited,
                init_at, sampled_at, last_us>>

CYC_MOD  == 2^CYC_BITS
TICK_MOD == 2^TICK_BITS
U64_MOD  == 2^U64_BITS

CYC_PER_TICK == CPU_HZ \div TICK_PER_SECOND

(* rt_tick_get(): the OS tick counter, one tick every CYC_PER_TICK cycles  *)
(* since boot, truncated to rt_tick_t.                                    *)
TickAt(c) == (c \div CYC_PER_TICK) % TICK_MOD

(* Variant: the raw sample widened before subtracting, so a wrap gives a *)
(* negative delta (the mistake the cast in timebase_get_us() avoids).     *)
CycDeltaWide(cur, last) == cur - last

(* (uint32_t)(cur - last_cyc): subtraction at the register's width.      *)
CycDelta(cur, last) == (cur - last) % CYC_MOD

(* (total_cyc * 1000000ULL) / cpu_hz, the product taken in uint64_t.     *)
UsOfCycles(tc) == ((tc * US_PER_SEC) % U64_MOD) \div CPU_HZ

(* ((uint64_t)ticks * 1000000ULL) / RT_TICK_PER_SECOND                   *)
UsOfTicks(t) == ((t * US_PER_SEC) % U64_MOD) \div TICK_PER_SECOND

(* total_cyc after one more sample of the counter                        *)
NextTotalCyc == (total_cyc + CycDelta(cyccnt, last_cyc)) % U64_MOD

(* The value timebase_get_us() returns in the current state.             *)
NowUs == IF dwt_ok THEN UsOfCycles(NextTotalCyc) ELSE UsOfTicks(TickAt(cycles))

-----------------------------------------------------------------------------
(* Variant: a counter that is not truncated to its register width.       *)
HwAdvanceUnwrapped(d, gap) ==
  /\ cycles + d <= MAX_CYCLES
  /\ (tb_inited /\ dwt_ok) => cycles + d - sampled_at <= gap
  /\ cycles' = cycles + d
  /\ cyccnt' = IF tb_inited /\ dwt_ok THEN cyccnt + d ELSE cyccnt
  /\ UNCHANGED <<dwt_ok, last_cyc, total_cyc, tb_inited, init_at,
                 sampled_at, last_us>>

(* Hardware: time passes.  CYCCNT counts only once timebase_init() has    *)
(* enabled it.  gap is the most cycles the environment lets pass since    *)
(* the last sample while the DWT path is in use (the composing module     *)
(* says who samples and how often).                                       *)
HwAdvance(d, gap) ==
  /\ cycles + d <= MAX_CYCLES
  /\ (tb_inited /\ dwt_ok) => cycles + d - sampled_at <= gap
  /\ cycles' = cycles + d
  /\ cyccnt' = IF tb_inited /\ dwt_ok THEN (cyccnt + d) % CYC_MOD ELSE cyccnt
  /\ UNCHANGED <<dwt_ok, last_cyc, total_cyc, tb_inited, init_at,
                 sampled_at, last_us>>

(* timebase_init() and dwt_init(): CYCCNT is zeroed and enabled; whether  *)
(* the enable sticks is read back from the hardware (ok).                 *)
TimebaseInitWith(ok) ==
  /\ tb_inited' = TRUE
  /\ dwt_ok' = ok
  /\ cyccnt' = 0
  /\ last_cyc' = IF ok THEN 0 ELSE last_cyc
  /\ total_cyc' = IF ok THEN 0 ELSE total_cyc
  /\ init_at' = cycles
  /\ sampled_at' = cycles
  /\ last_us' = 0
  /\ UNCHANGED cycles

TimebaseInit == \E ok \in DWT_OUTCOMES : TimebaseInitWith(ok)

(* The state change of one timebase_get_us() call; NowUs is its result.  *)
Sample ==
  /\ last_cyc' = IF dwt_ok THEN cyccnt ELSE last_cyc
  /\ total_cyc' = IF dwt_ok THEN NextTotalCyc ELSE total_cyc
  /\ sampled_at' = cycles
  /\ last_us' = NowUs
  /\ UNCHANGED <<cycles, cyccnt, dwt_ok, tb_inited, init_at>>

(* timebase_init() followed, lat cycles later and with nothing else       *)
(* reading the clock in between, by one timebase_get_us() (the lazy       *)
(* initialisation inside stopwatch_start()).  InitSampleUs is its result. *)
InitSampleUs(ok, lat) ==
  IF ok THEN UsOfCycles(CycDelta(lat % CYC_MOD, 0))
        ELSE UsOfTicks(TickAt(cycles + lat))

InitAndSample(ok, lat) ==
  /\ cycles + lat <= MAX_CYCLES
  /\ tb_inited' = TRUE
  /\ dwt_ok' = ok
  /\ cycles' = cycles + lat
  /\ cyccnt' = IF ok THEN lat % CYC_MOD ELSE 0
  /\ last_cyc' = IF ok THEN lat % CYC_MOD ELSE last_cyc
  /\ total_cyc' = IF ok THEN CycDelta(lat % CYC_MOD, 0) ELSE total_cyc
  /\ init_at' = cycles
  /\ sampled_at' = cycles + lat
  /\ last_us' = InitSampleUs(ok, lat)

-----------------------------------------------------------------------------
(* The clock on its own: any thread may call timebase_get_us() at any     *)
(* time after timebase_init().                                            *)
CONSTANT MAX_UNSAMPLED  \* bound: most cycles between two samples

(* Power-on state, c cycles after reset: nothing initialised yet.         *)
TbInitAt(c) ==
  /\ cycles = c /\ cyccnt = 0 /\ dwt_ok = FALSE
  /\ last_cyc = 0 /\ total_cyc = 0 /\ tb_inited = FALSE
  /\ init_at = 0 /\ sampled_at = 0 /\ last_us = 0

TbInit == TbInitAt(0)

GetUs == tb_inited /\ Sample

TbNext ==
  \/ \E d \in 1..MAX_STEP : HwAdvance(d, MAX_UNSAMPLED)
  \/ ~tb_inited /\ TimebaseInit
  \/ GetUs

TbSpec == TbInit /\ [][TbNext]_clock_vars

-----------------------------------------------------------------------------
TbTypeOK ==
  /\ cycles \in 0..MAX_CYCLES
  /\ cyccnt \in 0..CYC_MOD - 1 /\ last_cyc \in 0..CYC_MOD - 1
  /\ total_cyc \in 0..U64_MOD - 1
  /\ dwt_ok \in BOOLEAN /\ tb_inited \in BOOLEAN
  /\ init_at \in 0..MAX_CYCLES /\ sampled_at \in 0..MAX_CYCLES
  /\ last_us \in 0..U64_MOD - 1

(* timebase.h promises a monotonic clock: no call of timebase_get_us()     *)
(* returns less than the call before it.                                   *)
ClockMonotonic == [][tb_inited => last_us' >= last_us]_clock_vars

=============================================================================
