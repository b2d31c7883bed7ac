\* Three builds, then the pipeline stops: no deadlock check.
CONSTANT MaxBuilds = 3
SPECIFICATION Spec
CHECK_DEADLOCK FALSE
INVARIANTS
  TypeOK
  ReleasesRise
  NoVersionSkipped
  LatestIsHighest
