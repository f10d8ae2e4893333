CONSTANTS
  MAX_LAPS <- MC_MAX_LAPS
  MAX_TOTAL <- MC_MAX_TOTAL
  PAGE_ROWS <- MC_PAGE_ROWS
SPECIFICATION Spec
PROPERTY FrameIsSelfConsistent
