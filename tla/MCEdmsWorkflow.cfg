CONSTANTS
  i1 = i1
  i2 = i2
  r1 = r1
  r2 = r2
  r3 = r3
  r4 = r4
  c1 = c1
  c2 = c2
  Instances = {i1, i2}
  Rows = {r1, r2, r3}
  Calls = {c1, c2}
  Steps <- MCSteps
  TypeOf <- MCTypeOf
  Skips <- MCSkips
  Parallel = {1}
  Threshold <- MCThreshold
  Timed = {3}
  ReturnTo <- MCReturnTo
  MaxAborts = 1
SPECIFICATION Spec
SYMMETRY Symmetry
INVARIANTS
  TypeOK
  NoStepBypassed
  CompletedPassedAllSteps
CHECK_DEADLOCK FALSE
