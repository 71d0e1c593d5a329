SPECIFICATION Spec
CONSTANTS
  Builds = {b1, b2}
  Workers = {w1}
  Team = {w1}
  Pollers = {}
  Concurrency = 1
  Buffer = 1
  Events = {"cancel", "break", "crash", "drain", "restart", "expire", "noreport"}
  MaxSessions = 3
SYMMETRY Symmetry
INVARIANTS
  TypeOK
  ClosedOnce
  SlotsCover
