SPECIFICATION BuildSpec
CONSTANTS
  d1 = d1
  d2 = d2
  d3 = d3
  e1 = e1
  Managed = {d1, d2, d3}
  External = {e1}
  Neighbours <- MCNeighbours
  Builder = {b1}
PROPERTY NeighboursLinked
