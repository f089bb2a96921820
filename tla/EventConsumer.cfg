CONSTANTS
  w1 = w1
  w2 = w2
  e1 = e1
  p1 = p1
  Worker <- MCWorker
  EventId <- MCEventId
  Poison <- MCPoison
  Batch = 2
  MaxLen = 2
  MaxEntries = 3
  MaxStarts = 2
SPECIFICATION Spec
INVARIANTS
  NothingForgotten
  AckedWasHandled
  OncePerStart
PROPERTIES
  ImplementsAtLeastOnce
