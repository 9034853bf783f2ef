\* A time of 0, samples close together, where the variance cancels, and others
\* apart.
CONSTANTS
  Values = {0, 1024, 1032, 1040, 1392, 1400}
  MaxCount = 4
  Rounded <- Nearest
  U = 256
  One = 256
  Normal = 128
  Limit = 131072
  Least = 1024
  Most = 1400
  Huge = 1073741824
SPECIFICATION StatsSpec
INVARIANTS ExtremesExact MeanAccurate VarianceAccurate
