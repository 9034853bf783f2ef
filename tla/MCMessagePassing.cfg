\* The mains as they are, with all their rounds.  Termination is checked, so
\* a deadlock would be a violation of it.
CONSTANT Programs <- ThePrograms
SPECIFICATION FairSpec
INVARIANTS AssertHolds RaceFree BrokenAlwaysRaces SeesOwnProducer
PROPERTY TerminatesUnlessHoisted
CHECK_DEADLOCK FALSE
