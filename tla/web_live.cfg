SPECIFICATION Spec
CONSTANTS
  MaxBuild = 2
  Loaded = {1}
  Initially = {"failed"}
  Births = {"pending"}
  Moves <- Moves2
  PageSize = 1
  Cap = 3
  Polls = {p1}
  Opened <- Opened1
  TrackIDs = {}
  MaxRetries = 1
  MaxReqs = 1
PROPERTIES
  TabSettles
  NewBuildShown
