CONSTANTS
  Samples = {4, 8}
  Lo = 4
  Hi = 8
  Scale = 4
  Alpha <- MCAlpha
  Files <- MCFiles
SPECIFICATION Spec
INVARIANTS TypeOK LoadGaugesTogether CoresPlausible
