SPECIFICATION FairSpec
CONSTANTS
  t1 = t1
  t2 = t2
  t3 = t3
  None = None
  Threads = {t1, t2}
  Ops = {"lookup", "read", "change"}
  MaxRefresh = 2
  MaxChanges = 1
INVARIANTS TypeOK RotationPersisted CacheFresh ListedOnce
PROPERTIES StoredForward EveryCallReturns
