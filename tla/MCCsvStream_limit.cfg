CONSTANTS
  TICK_PER_SECOND <- MC_TPS_1000
  TICK_BITS <- MC_TICK_BITS
  U32_BITS <- MC_U32_BITS
  DEFAULT_PERIOD_MS <- MC_DEFAULT_MS
  MIN_PERIOD_MS <- MC_MIN_MS
  PERIOD_ARGS <- MC_PERIOD_ARGS
  TOTALS <- MC_TOTALS
SPECIFICATION Spec
INVARIANT PeriodWithinTimerLimit
