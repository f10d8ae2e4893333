CONSTANTS
  U8_BITS <- MC_U8_BITS
  U16_BITS <- MC_U16_BITS
  HYST <- MC_HYST
  DARK_REFRESH_MS = 300
  LIGHT_REFRESH_MS = 10
  MIN_REFRESH_MS = 10
  RATE_ARGS <- MC_RATE_ARGS
SPECIFICATION HSpec



PROPERTY LightOffFreezesLinkage
