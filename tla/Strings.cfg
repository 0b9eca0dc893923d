CONSTANTS
  SIZE = 6
  CHAR_MOD = 3
  CharSets <- MCCharSets
  MaxTokens = 3
SPECIFICATION Spec
INVARIANTS
  TokensInOrder
  MoveExact
  SearchesAgree
