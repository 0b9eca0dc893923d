CONSTANTS
  NULL = NULL
  Junk = Junk
  LOG_LEVEL = 4
  FIFO_SIZE = 2
  CHAR_MOD = 8
  CODE_MOD = 64
  Characters <- MCCharacters
  FONT <- MCFont
  MESSAGE <- MCMessage
  FramebufferResponses <- MCResponses
  MemoryMaps <- MCMemoryMaps
  MAX_REGIONS = 2
  GREETING <- MCGreeting
  Texts <- MCTexts
  MaxCalls = 3
SPECIFICATION Spec
INVARIANTS
  WireIsLog
  ScreenShowsText
  FaultExplained
PROPERTIES
  LogComplete
  HelloShown
