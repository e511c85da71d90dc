SPECIFICATION Spec
CONSTANTS
  Objs = {b1, b2}
  MaxStrm = 3
  MaxData = 2
  MaxLen = 2
SYMMETRY Symmetry
INVARIANTS
  InfoTrue
  PositionTrue
PROPERTIES
  StreamsKept
