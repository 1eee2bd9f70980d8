CONSTANTS
  e1 = e1
  k1 = k1
  w1 = w1
  w2 = w2
  c1 = c1
  c2 = c2
  Events <- MCEvents
  Keys <- MCKeys
  KeyOf <- MCKeyOf
  Workers <- MCWorkers
  Calls <- MCCalls
  BatchLimit = 1
  MaxAttempts = 2
  MaxCommands = 1
  MaxAborts = 1
  MaxDeliveries = 3
  MaxResets = 1
  MaxFaults = 1
  MaxRetries = 1
SPECIFICATION Spec
SYMMETRY Symmetry
PROPERTY RefinesReliableEvents
CHECK_DEADLOCK FALSE
