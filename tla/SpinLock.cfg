CONSTANTS
  Threads = {t1, t2, t3}
  NoOwner = NoOwner
  MaxRounds = 2
SPECIFICATION FairSpec
INVARIANTS MutualExclusion NoDataRace NoLostUpdate SpinLockInv
PROPERTIES LockIsGranted ALSpec
