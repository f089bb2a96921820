CONSTANTS
  Worker = {w1, w2}
  Device = {d1}
  Name = {d1}
  NoName = unnamed
  NoRow = norow
  Reports <- MCReports
  MaxReports = 2
  MaxRefreshes = 1
SPECIFICATION Spec
PROPERTIES
  EveryTransitionAnnounced
