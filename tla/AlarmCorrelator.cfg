CONSTANTS
  h1 = h1
  h2 = h2
  c1 = c1
  k1 = k1
  k2 = k2
  host = host
  Handler <- MCHandler
  Consumer <- MCConsumer
  Key <- MCKey
  Host <- MCHost
  MaxEvents = 3
SPECIFICATION Spec
SYMMETRY Symmetry
CHECK_DEADLOCK FALSE
INVARIANTS
  SerialIsExact
  DuplicatesBounded
  NeverOvercounts
  OperatorDecides
