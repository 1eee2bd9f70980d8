CONSTANTS
  e1 = e1
  k1 = k1
  w1 = w1
  w2 = w2
  c1 = c1
  c2 = c2
  Events <- MCEvents
  Keys <- MCKeys
  KeyOf <- MCKeyOf
  Workers <- MCWorkers
  Calls <- MCCalls
  BatchLimit = 1
  MaxAttempts = 2
  MaxCommands = 0
  MaxAborts = 1
  MaxDeliveries = 5
  MaxResets = 0
  MaxFaults = 1
  MaxRetries = 0
SPECIFICATION FairSpec
PROPERTY HandledOrReported
CHECK_DEADLOCK FALSE
