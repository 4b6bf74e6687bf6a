SPECIFICATION ServicesSpec
CONSTANTS
  m1 = m1 NoMsg = NoMsg
  Msgs = {m1}
  MaxSlips = 2
  toAdmins = toAdmins toPeer = toPeer peer = peer adm1 = adm1 adm2 = adm2 team = team
  f1 = f1 f2 = f2 Nothing = Nothing Part = Part
  Files = {f1, f2}
  Contents = {toAdmins, toPeer}
  Targets <- MCTargets
  SettleTicks = 1
  MaxMishaps = 2
  Kind <- MCKind
  Grace = 1
  Patience = 1
  Keep = 1
  MaxGens = 1
  MaxSpoils = 2
  MaxBirth = 0
  MaxClock = 4
  Recurring = {cron}
  Once = {once}
  OnceAt = 1
  MaxTime = 2
  MaxChanges = 2
  Callers = {"peer", "person", "agent"}
  Recipients = {adm1, adm2}
  Users = {adm2}
  Members <- MCMembers
  Edges <- MCEdges
  Limit <- MCLimit
  Plan <- MCPlan
  MaxCalls <- MCCalls
  MaxToggles = 1
  People = {adm1, adm2}
  Options = {yes, no}
  MaxCries = 2
  Asks = {1}
  MaxUpsets = 2
  ask = ask ans = ans note = note Default = Default
  Sent = {ask}
  Replies = {ans}
  Topics = {note}
  ReplyTo <- MCReplyTo
  TopicOf <- MCTopicOf
  MaxFaults = 2
  sat = sat hub = hub up = up down = down idle = idle
  Origin = sat
  From <- MCFrom
  To <- MCTo
  Relays = {up}
  Statuses = {idle, busy}
  MaxJolts = 2
  MaxInFlight = 1
  pic = pic p1 = p1 p2 = p2
  Stored = {pic}
  Posts = {p1, p2}
  RefTo <- MCRefTo
  QueueNo <- MCQueueNo
  Queues = 2
  Logs = 1
  None = None Own = Own Nowhere = Nowhere
  Names <- MCNames
  FqnNames = {"x@y"}
  PathNames = {"p/q"}
  Types = {"claude"}
  Catalog <- MCCatalog
  Slashes = {"clear", "fix", "pause"}
  Internal = {"pause"}
  Aliases = {"al"}
  Nodes <- MCRefs
  RootFile = "root"
  Loads <- MCLoads
INVARIANTS
  ServicesTypeOK
  HistoryKept
  ReferencedKept
  BootIsSound
  AccessAgrees
PROPERTIES
  AnswerEnds
  SweepsSpare
  OutboxEnds
  EveryChainSettles
  FiresForCause
  GatesSoft
  RunsInTime
  AlarmsAnswered
  ViewConverges
CHECK_DEADLOCK FALSE
