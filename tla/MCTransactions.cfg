SPECIFICATION FairSpec
CONSTANTS
  MaxDb = 2
  MaxTr = 2
  MaxTid = 2
  Objs = {o1, o2}
INVARIANTS
  IndInv
  HandlesExclusive
  ActiveHeld
  ActiveOwned
  IdNeverMisleads
PROPERTIES
  LimboDurable
  CommitOnlyByCall
  ImplementsCells
  ActiveEnds
