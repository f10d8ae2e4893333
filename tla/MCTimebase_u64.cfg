CONSTANTS
  CYC_BITS <- MC_CYC_BITS
  TICK_BITS <- MC_WIDE_TICK_BITS
  U64_BITS <- MC_NARROW_U64_BITS
  CPU_HZ <- MC_CPU_HZ
  US_PER_SEC <- MC_US_PER_SEC
  TICK_PER_SECOND <- MC_TPS
  MAX_CYCLES <- MC_MAX_CYCLES
  MAX_STEP <- MC_MAX_STEP
  MAX_UNSAMPLED <- MC_MAX_UNSAMPLED
  DWT_OUTCOMES <- MC_DWT_ONLY
INIT TbInit
NEXT TbNext
PROPERTY ClockMonotonic

