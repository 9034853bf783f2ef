\* Three workers and three turns: enough for a thread to sleep between load
\* and store while the others run their loops to the end, and for every way
\* of joining turns.  Termination is a property, so a deadlock violates it.
CONSTANTS
  Threads = {t1, t2, t3}
  NoThread = NoThread
  Iterations = 3
  Kinds = {"plain", "mutex", "atomic"}
SPECIFICATION FairSpec
INVARIANTS TotalExact RacyTotal
PROPERTIES Terminates ImplementsAtomicCounter
CHECK_DEADLOCK FALSE
