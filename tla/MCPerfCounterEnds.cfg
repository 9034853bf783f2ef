\* The block does not break out.
CONSTANTS
  Fds = {3, 4, 5}
  Breaks = FALSE
  MaxMisses = 3
SPECIFICATION PerfFairSpec
PROPERTY ReachesStatementAfterMacro
