CONSTANTS
  Dbs = {d1, d2}
  Trs = {t1, t2}
  Sts = {s1}
  Bls = {b1}
  Nobody = Nobody
  MaxDb = 2
  MaxSlot = 3
  MaxMade = 3
SPECIFICATION Spec
SYMMETRY Symmetry
INVARIANTS HandlesLeadHome CheckWouldDo StaleNeedsCall TransactionOutlives NoOrphans
PROPERTY NamesStay
