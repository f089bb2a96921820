SPECIFICATION Spec
CONSTANTS
  MaxFiles = 5
  Capacity = 2
  Window = 3
  Unparseable <- MCUnparseable
  MaxFaults = 2
  n1 = n1
  n2 = n2
  Name = {n1, n2}
  Temporary = {n2}
  MaxVersions = 3
  Malformed <- MCMalformed
  MaxMishaps = 2
  None = None
  s1 = s1
  s2 = s2
  Scan = {s1, s2}
  x1 = x1
  x2 = x2
  Address = {x1, x2}
  Nobody = Nobody
  d1 = d1
  d2 = d2
  d3 = d3
  e1 = e1
  Managed = {d1, d2, d3}
  External = {e1}
  Neighbours <- MCNeighbours
  Builder = {b1, b2}
  r1 = r1
  r2 = r2
  a1 = a1
  y1 = y1
  y2 = y2
  Replica = {r1, r2}
  Api = {a1}
  Device = {y1, y2}
  ShardCount = 1
  ShardId <- MCShardId
  Hash <- MCHash
  Interval = 2
  Run = {1, 2}
  MaxFailures = 1
  Client = {q1, q2}
  Router = {g1}
  Output = {u1}
  NoOutput = NoOutput
  Slots = 1
  Connections = 2
INVARIANTS
  PulledOnce
  AccountedOnce
PROPERTIES
  EventuallyPulled
  EventuallyMoved
  NamesKept
  ScansEnd
  PolicyPolled
  PassesEnd
  RequestsAnswered
