\* Four workers: two can race ahead into the next round while two are still
\* leaving the last one.  Termination is checked, so a deadlock would be a
\* violation of it.
CONSTANTS
  Threads = {t1, t2, t3, t4}
  NumPhases = 3
  MaxSpurious = 3
  NoThread = NoThread
SPECIFICATION FairSpec
INVARIANTS PhaseSync SerialIsRound CountIsArrived NoLostWakeup DestroyedUnused
PROPERTIES RoundClosedByLast Terminates ImplementsPhaseBarrier
CHECK_DEADLOCK FALSE
