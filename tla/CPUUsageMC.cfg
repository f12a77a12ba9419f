CONSTANTS
  CPUs = 1
  Counting = {"idle", "steal"}
  MaxTime = 1
SPECIFICATION Spec
INVARIANTS TypeOK SharesAddUp EveryTickOnce
