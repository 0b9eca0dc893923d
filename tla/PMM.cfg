CONSTANTS
  PAGE_SIZE = 2
  MemoryMaps <- MCMemoryMaps
  Counts <- MCCounts
SPECIFICATION Spec
INVARIANTS
  TypeOK
  FreeCountExact
  FramesConserved
  BitmapHoldsEveryFrame
  FaultOnlyWithoutRoom
PROPERTIES
  LowestFirst
  Implements
