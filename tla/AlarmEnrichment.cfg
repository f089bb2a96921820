CONSTANTS
  h1 = h1
  h2 = h2
  c1 = c1
  k1 = k1
  k2 = k2
  host = host
  Handler <- MCOneHandler
  Consumer <- MCConsumer
  Key <- MCOneKey
  Host <- MCOneHost
  MaxEvents = 2
SPECIFICATION Spec
CHECK_DEADLOCK FALSE
PROPERTIES
  EnrichOnlyAnnotates
