CONSTANTS
  ENTRIES = 2
  Pools <- MCPools
  BootFrames <- MCBootFrames
  BootTables <- MCBootTables
  BootRoot = 10
  Pages <- MCPages
  FlagSets <- MCFlagSets
  Virtual <- MCVirtual
SPECIFICATION Spec
INVARIANTS
  TypeOK
  LiveTablesHeld
  TLBCoherent
  NothingLeaked
PROPERTIES
  MappingsStable
