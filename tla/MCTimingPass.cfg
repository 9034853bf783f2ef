\* Three scaled seconds of five nanoseconds: readings fall on both sides of the
\* turn of a second, and a fifth is no sum of powers of two.
CONSTANTS
  Forms = {"TIME_BLOCK", "measure_time"}
  Second = 5
  MaxClock = 15
  Rounded <- Nearest
  U = 256
  One = 4096
  Limit = 65536
SPECIFICATION FairSpec
INVARIANTS ElapsedAccurate BlockOnce
PROPERTY ReachesStatementAfter
