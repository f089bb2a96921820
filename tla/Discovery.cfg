SPECIFICATION Spec
CONSTANTS
  Worker = {w1, w2}
  Device = {x1}
  Name = {x1, z1}
  NoName = unnamed
  NoRow = norow
  Reports <- MCReports
  MaxReports = 3
  MaxRefreshes = 1
SYMMETRY Symmetry
PROPERTIES
  AnnouncedRightly
CHECK_DEADLOCK FALSE
