CONSTANTS
  d1 = d1
  d2 = d2
  s1 = s1
  c1 = c1
  c2 = c2
  Docs <- MCDocs
  Series <- MCSeries
  SeriesOf <- MCSeriesOf
  Calls <- MCCalls
  Nobody = Nobody
  MaxVersions = 3
SPECIFICATION Spec
SYMMETRY Symmetry
INVARIANTS
  TypeOK
  NumbersSequential
  NoNumberCollision
  NumberIsRecorded
  VersionsWithoutGaps
CHECK_DEADLOCK FALSE
