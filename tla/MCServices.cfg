CONSTANTS
  Svcs = {s1, s2}
  Names = {n1, n2}
  Texts = {a, b}
  Absent = Absent
  Unset = Unset
  Default = Default
  MaxSv = 3
SPECIFICATION Spec
INVARIANTS HandlesPrivate SessionsOwned
PROPERTIES ImplementsSessions OnlyWhatWasSaid
