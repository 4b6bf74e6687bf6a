SPECIFICATION RvSpec
CONSTANTS
  bob = bob
  carol = carol
  Targets <- MCOne
  MaxAttempts = 2
  Kinds <- RefuseAndSlow
  MaxEvents = 2
INVARIANT
  AttemptsCapped
CHECK_DEADLOCK FALSE
