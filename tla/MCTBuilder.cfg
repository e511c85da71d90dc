SPECIFICATION Spec
CONSTANTS
  ShortMax = 7
  IntMax = 15
  Timeouts <- MCTimeouts
  Numbers <- MCNumbers
INVARIANTS
  NeverFatal
  OptionsReach
  SmallSnapshotReaches
