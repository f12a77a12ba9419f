CONSTANTS
  r1 = r1
  r2 = r2
  Readers = {r1, r2}
  Samples = {4, 8}
  Lo = 4
  Hi = 8
  Scale = 4
  Alpha <- MCAlpha
SPECIFICATION FairSpec
INVARIANTS TypeOK NoZeroBias
PROPERTIES GetLoadsAtomic SamplePublished ReadersServed
