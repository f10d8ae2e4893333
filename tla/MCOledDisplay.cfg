CONSTANTS
  OLED_F6x8 <- MC_FONT
  OLED_8X16 = 8
  OLED_6X8 = 6
  TICK_PER_SECOND = 1000
  TICK_BITS = 32
  TOTALS <- MC_TOTALS
  LAP_VALUES <- MC_LAP_VALUES
  MAX_LAPS <- MC_MAX_LAPS
SPECIFICATION Spec
INVARIANT WireFramesDecode
INVARIANT PanelShowsBuffer
INVARIANT ScreenReadsBack
