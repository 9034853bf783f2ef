\* Three descriptors, so that breaks can use them up; misses are told apart
\* from none, one and several.
CONSTANTS
  Fds = {3, 4, 5}
  Breaks = TRUE
  MaxMisses = 3
SPECIFICATION PerfSpec
INVARIANTS MissesExact OnlyBreaksLeak
