CONSTANTS
  a = a
  b = b
  garbage = garbage
  Addrs = {a, b}
  Intervals <- MCIntervals
  Garbage = garbage
  MaxProvided = 3
SPECIFICATION Spec
INVARIANTS TypeOK FlagOverridesFile DefaultsHideNothing LevelUnderstood
