\* Every lock.  The scaled bounds let the pause of the backoff lock reach its
\* cap.  Termination is checked, so a deadlock would be a violation of it.
CONSTANTS
  Threads = {t1, t2, t3}
  Main = Main
  Iterations = 2
  Kinds = {"tas", "ttas", "backoff"}
  BACKOFF_MIN = 4
  BACKOFF_MAX = 10
  MaxSpurious = 1
SPECIFICATION FairSpec
INVARIANTS MutualExclusion NoDataRace TotalExact
PROPERTIES BackoffGrows Terminates ImplementsAtomicCounter
CHECK_DEADLOCK FALSE
