SPECIFICATION Spec
CONSTANTS
  Stmts = {s1, s2}
  MaxRs = 2
  MaxRun = 2
  MaxRows = 2
SYMMETRY Symmetry
INVARIANTS
  CursorsHeld
  ExhaustedMeansRead
PROPERTIES
  RowsOfLastExecute
  ImplementsStreams
