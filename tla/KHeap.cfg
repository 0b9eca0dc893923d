CONSTANTS
  h1 = h1
  h2 = h2
  h3 = h3
  Handles = {h1, h2, h3}
  Sizes <- MCSizes
  Arrays <- MCArrays
  Pool <- MCPool
  PAGE_SIZE = 8
  HEAP_ALIGN = 2
  MIN_GROW = 8
  SIZE_MOD = 64
SYMMETRY Symmetric
SPECIFICATION Spec
INVARIANTS
  TypeOK
  BlocksTile
  EachBlockOwned
  FreeListCoalesced
  DataIntact
  OneGrowthSuffices
PROPERTIES
  Implements
