SPECIFICATION FairSpec
CONSTANTS
  m = m
  o1 = o1
  o2 = o2
  Nobody = Nobody
  Keys <- OneMessage
  Objects <- TwoLocks
  Tasks <- ThreeUpdates
  LastPts = 3
  Update <- AndDeleted
  Baseline <- AsPlaced
  MaxKept = 2
  MaxFaults = 1
INVARIANTS TypeOK MutualExclusion AccountedIsDurable ChangesAddUp ShownIsNewest
PROPERTIES EveryUpdateAccounted
CHECK_DEADLOCK FALSE
