SPECIFICATION FairSpec
CONSTANTS
  Builds = {b1, b2}
  Workers = {w1}
  Team = {w1}
  Pollers = {e1}
  Concurrency = 2
  Buffer = 1
  Events = {"cancel"}
  MaxSessions = 1
PROPERTIES
  PendingIsTaken
  SlotReturns
  
