CONSTANTS
  Events = {e1, e2}
  Workers = {w1, w2}
  MaxAttempts = 2
  BatchLimit = 2
  MaxCommands = 2
  MaxAborts = 1
SPECIFICATION FairSpec
INVARIANTS
  TypeOK
  DispatchedWasEmitted
  WaitingHasAttemptsLeft
  DeadLetterIsJustified
PROPERTY EventuallySettled
CHECK_DEADLOCK FALSE
