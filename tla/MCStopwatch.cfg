CONSTANTS
  CYC_BITS <- MC_CYC_BITS
  TICK_BITS <- MC_TICK_BITS
  U64_BITS <- MC_U64_BITS
  CPU_HZ <- MC_CPU_HZ
  US_PER_SEC <- MC_US_PER_SEC
  TICK_PER_SECOND <- MC_TPS
  MAX_CYCLES <- MC_MAX_CYCLES
  MAX_STEP <- MC_MAX_STEP
  DWT_OUTCOMES <- MC_ANY_DWT
  MAX_UNSAMPLED <- MC_MAX_UNSAMPLED
  U32_BITS <- MC_U32_BITS
  US_PER_MS <- MC_US_PER_MS
  MAX_LAPS <- MC_MAX_LAPS
  LAP_BOUND <- MC_LAP_BOUND
  LAZY_LATENCY <- MC_LAZY_LATENCY
  POLL_GAP <- MC_POLL_GAP
  BOOT_CYCLES <- MC_BOOT
SPECIFICATION Spec
CONSTRAINT FoldBound
INVARIANT TypeOK
 
INVARIANT LapWindowIsLatest
INVARIANT LapMarkNotAhead
INVARIANT LapsWithinTotal
PROPERTY ClockMonotonic
PROPERTY StopwatchRefinesAbstract
