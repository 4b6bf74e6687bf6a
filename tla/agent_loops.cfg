\* Liveness and the refinement: one record of either id, any two of the disruptions
\* that move the session or reach the directories; two shims, one call, one disturbance;
\* two messages typed to any runtime, one own turn, one swallowed key and one death.
SPECIFICATION LoopsSpec
CONSTANTS
  alice = alice
  self = self
  Ids <- MCIds
  SelfIds <- MCSelfIds
  MaxSeq = 1
  Provision = "auto"
  Kinds <- LiveKinds
  MaxFaults = 2
  s1 = s1 s2 = s2 c1 = c1 k1 = k1 k2 = k2
  Shims = {s1, s2}
  Calls = {c1}
  Probes = {k1, k2}
  ShimOf <- MCShimOf
  MaxSessions = 3
  MaxSetbacks = 1
  Runtimes = {"codex", "claude", "foreign", "plain"}
  Cold = {"codex", "claude"}
  Bursts = 1
  Retries = 3
  Grace = 2
  Repress = 2
  TornRun = 1
  MaxMessages = 2
  MaxOwn = 1
  MaxHot = 1
  MaxDeaths = 1
PROPERTIES
  QueueMoves
  StatusConverges
  MailboxSpec
  PlaneServes
  DriverServes
\* A loop that threw never runs again.
CHECK_DEADLOCK FALSE
