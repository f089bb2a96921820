SPECIFICATION Spec
CONSTANTS
  Collector = {c1, c2}
  Config = {x1, x2}
  MaxRows = 4
  Operator = {o1, o2}
  Reader = {r1, r2}
  Handler = {h1}
  Throttle = 1
  MaxAlarms = 2
  MaxTime = 2
  Seeder = {s1, s2}
  Days = {7, 30}
  Default = 30
  MaxSaves = 3
  MaxRequests = 3
  Process = {p1, p2}
  Address = {a1, a2}
  NoAddress = none
  Limit = 1
  Window = 3
  Cooldown = 2
  Delay = 1
  MaxNow = 4
  Target = {d1, d2}
  Debounce = 2
  Minute = 3
  MaxPerMinute = 2
  MaxSecond = 7
  Replica = {w1, w2}
  Expected = 1
  Interval = 2
  Backoff = 1
  MaxPass = 1
  TimeToLive = 5
  MaxFaults = 3
  MaxTicks = 10
  Node = {1, 2, 3, 4, 5}
  Root = 1
  Rank = {0, 1}
  Graph <- MCGraph
  MaxDepth = {0, 3}
  Polling = {l1, l2}
  Small = 2
  Big = 4
  MaxOctets = 5
  MaxClock = 1
  Caller = {c3, c4, c5}
  MaxEdits = 3
  Worker = {k1}
  Request = {k2}
  Keep = {0, 1, 2}
  MaxStarts = 4
  Client = {q1, q2}
  Router = {g1, g2}
  Output = {u1, u2}
  NoOutput = NoOutput
  Slots = 2
  Connections = 2
  Import = {i1, i2}
  Host = {1, 2}
  Table <- MCTable
  Ingester = {f1, f2, f3}
  NoStat = NoStat
  MaxStored = 4
  Part = {"n", "p", "q"}
  Port = {"p", "q"}
  Service = {"mesh", "link", "all", "idle"}
  Weight <- MCWeight
  Dependency <- MCDependency
  Reach <- MCReach
  Severity = {"critical", "info"}
  MaxLoaded = 2
  MaxStanding = 3
  MaxTimes = 7
  IfPort = {p1, p2}
  SharedKey = shared
  NoKey = none
  Priority = {1, 2}
  MaxRules = 2
  MaxRuleEdits = 2
SYMMETRY Symmetry
INVARIANTS
  BackupsTrue
  StatusNoted
  SnapshotsBounded
  CustomSurvives
  BudgetExact
  RefreshesLimited
  StaleMeansDead
  SearchExact
  RateExact
  SuiteCopies
  PrunedToKeep
  LastIsRecent
  RowsIsolated
  StatTrue
  OpenForCause
PROPERTIES
  WorseNeverBetter
CHECK_DEADLOCK FALSE
