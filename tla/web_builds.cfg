SPECIFICATION Spec
CONSTANTS
  MaxBuild = 3
  Loaded = {2}
  Initially = {"failed"}
  Births = {"pending"}
  Moves <- Moves2
  PageSize = 1
  Cap = 2
  Polls = {p1, p2}
  Opened <- Opened3
  TrackIDs = {1}
  MaxRetries = 0
  MaxReqs = 1
INVARIANTS
  TypeOK
  TabsSound
PROPERTIES
  OpenTabStays
  PollingRefined
