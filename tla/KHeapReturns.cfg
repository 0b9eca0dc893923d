CONSTANTS
  h1 = h1
  h2 = h2
  h3 = h3
  Handles = {h1, h2}
  Sizes <- LargestAligned
  Arrays <- NoArrays
  Pool <- MCPool
  PAGE_SIZE = 8
  HEAP_ALIGN = 2
  MIN_GROW = 8
  SIZE_MOD = 64
SPECIFICATION Spec
PROPERTIES
  CallsReturn
