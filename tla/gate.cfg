SPECIFICATION Spec
CONSTANTS
  jobA = jobA
  jobB = jobB
  Jobs = {jobA}
  NoJob = NoJob
  Users = {u1, u2}
  NoUser = NoUser
  Clients = {c1, c2}
  Workers = {w1}
  Embedded = {}
  Groups = {}
  Concurrency <- NoLimit
  SerialGroups <- NoGroups
  ApproveCount <- GateCount
  Interruptible = {jobA}
  DisableRetry = {}
  Downstream <- NoPassed
  SQLite = TRUE
  Events = {"create", "approve", "reject", "cancel", "swallowed"}
  MaxID = 2
SYMMETRY Symmetry
INVARIANTS
  GateRespected
  NewestWins
PROPERTIES
  CancellationSettles
