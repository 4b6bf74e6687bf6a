\* What is done and still parked: claude that boots past the grace, or codex that was in a
\* turn of its own and took the text for plain typing.
SPECIFICATION DrSpec
CONSTANTS
  Runtimes = {"codex", "claude"}
  Cold = {"claude"}
  Bursts = 1
  Retries = 3
  Grace = 2
  Repress = 2
  TornRun = 1
  MaxMessages = 1
  MaxOwn = 1
  MaxHot = 1
  MaxDeaths = 0
INVARIANTS
  ParkedIsNotDone
CHECK_DEADLOCK FALSE
