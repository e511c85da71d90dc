CONSTANTS
  Values = {0, 1}
  Unset = Unset
  Undef = Undef
  Garbage = Garbage
  MaxItems = 4
  MaxBeyond = 1
  MaxLimbo = 3
SPECIFICATION Spec
INVARIANTS TypeOK InfoTrue LimboWhole UsersWhole CountsTrue CodesOwn
