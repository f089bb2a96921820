CONSTANTS
  w1 = w1
  p1 = p1
  own = own
  shared = shared
  NoValue = NoValue
  Worker <- MCWorker
  Poller <- MCPoller
  Value <- MCValue
  Setting <- MCSetting
  Key <- MCKey
  OwnKey = own
  Rewriting <- MCRewriting
  MaxRows = 2
  MaxEchoes = 1
  MaxAlarms = 2
  Collect = {c1, c2}
  Slot = {1}
  Columns = {1, 2}
  NoPart = NoPart
  Nothing = Nothing
  MaxParts = 2
  Editor = {e1, e2}
  ServiceId = {s1, s2}
  Title = {n1, n2}
  NoTitle = untitled
  Element = {d1, i1}
  Deletable = {d1}
  NoElement = noelement
  Admin = {m1, m2, m3}
  UserRole = {r1, r2}
  NoUser = nobody
  RoleAdmin = {b1, b2}
  LockedRole = {k1}
  OpenRole = {o1}
  CustomRole = {}
  Permits = {shipped, other, nothing}
  Shipped = shipped
  NoPermits = nothing
  NoRole = norole
SPECIFICATION Managed
INVARIANTS
  AlarmFollowsEvaluations
  ShownFresh
  CatalogueSound
  TrailTrue
  RolesStand
CONSTRAINT Unmixed
