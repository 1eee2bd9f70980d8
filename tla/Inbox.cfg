CONSTANTS
  Keys = {k1, k2}
  Calls = {c1, c2, c3}
  MaxDeliveries = 4
  MaxResets = 1
  MaxFaults = 2
SPECIFICATION FairSpec
INVARIANTS
  TypeOK
  CompletedHadEffect
  OnceUnlessFailed
  ProcessingIsOwned
PROPERTY EventuallyJudged
CHECK_DEADLOCK FALSE
