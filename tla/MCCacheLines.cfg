\* As many threads as the exercise has, and three turns, so that a line can be
\* lost and fetched again.  Main must end, so a deadlock is a violation.
CONSTANTS
  NUM_THREADS = 4
  ITERATIONS = 3
SPECIFICATION FairSpec
INVARIANTS NoFalseSharing FalseSharing
PROPERTIES EndsExact ImplementsAtomicCounter
