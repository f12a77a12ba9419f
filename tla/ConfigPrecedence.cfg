CONSTANTS
  a = a
  b = b
  garbage = garbage
  Addrs = {a, b}
  Intervals <- MCIntervals
  Garbage = garbage
  MaxProvided = 2
SPECIFICATION Spec
INVARIANTS EnvOverridesFlags
