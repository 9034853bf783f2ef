\* Two readers can overlap and pass a waiting writer; two writers exclude
\* each other; two turns each bring everybody back to the lock.  Termination
\* is checked, so a deadlock would be a violation of it.
CONSTANTS
  Readers = {r1, r2}
  Writers = {w1, w2}
  OPERATIONS = 2
SPECIFICATION FairSpec
INVARIANTS ReadStable DestroyedUnused
PROPERTIES WritesNumbered Terminates ImplementsAtomicCounter
CHECK_DEADLOCK FALSE
