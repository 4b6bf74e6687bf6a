SPECIFICATION RvSpec
CONSTANTS
  bob = bob
  carol = carol
  Targets <- MCTwo
  MaxAttempts = 2
  Kinds <- RefuseAndSlow
  MaxEvents = 4
INVARIANT
  OnePendingNudge
CHECK_DEADLOCK FALSE
