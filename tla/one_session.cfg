SPECIFICATION ApSpec
CONSTANTS
  s1 = s1 s2 = s2 c1 = c1 k1 = k1 k2 = k2
  Shims = {s1, s2}
  Calls = {c1}
  Probes = {k1, k2}
  ShimOf <- MCShimOf
  MaxSessions = 2
  MaxSetbacks = 0
INVARIANT
  OneSessionPerName
CHECK_DEADLOCK FALSE
