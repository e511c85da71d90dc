SPECIFICATION Spec
CONSTANTS
  Word = 2048
  ColMax = 99
  Scales <- MCScales
  Ints <- MCInts
  MaxLen = 4
INVARIANTS
  NarrowInRange
  ReadsBack
