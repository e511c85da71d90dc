SPECIFICATION Spec
CONSTANTS
  Stmts = {s1}
  MaxRs = 2
  MaxRun = 2
  MaxRows = 2
INVARIANTS
  NoMoreRowsIsNull
