CONSTANTS
  Threads = {t1, t2, t3}
  First = t1
  Second = t2
  MaxStores = 8
SPECIFICATION Spec
INVARIANTS ClientsInv SeqCstAgrees FailureAcquires IncrementsExact OneWinner LockedCountExact
