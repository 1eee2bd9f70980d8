CONSTANTS
  i1 = i1
  i2 = i2
  r1 = r1
  r2 = r2
  r3 = r3
  r4 = r4
  c1 = c1
  c2 = c2
  Instances = {i1}
  Rows = {r1, r2}
  Calls = {c1}
  Steps <- MCSteps
  TypeOf <- MCTypeOf
  Skips <- MCSkips
  Parallel = {}
  Threshold <- MCThreshold
  Timed = {1}
  ReturnTo <- MCReturnTo
  MaxAborts = 0
SPECIFICATION Spec

INVARIANT ActiveInstanceCanProceed
CHECK_DEADLOCK FALSE
