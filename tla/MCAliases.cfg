SPECIFICATION AliasSpec
CONSTANTS
  Names <- MCNames
  Numeric <- MCNumeric
  Limit = 4
  MayMiss = FALSE
  MaxCols = 6
INVARIANTS
  KeysDistinct
  HangsNeedNames
