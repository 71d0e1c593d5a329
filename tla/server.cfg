SPECIFICATION Spec
CONSTANTS
  jobA = jobA
  jobB = jobB
  Jobs = {jobA}
  NoJob = NoJob
  Users = {u1}
  NoUser = NoUser
  Clients = {c1}
  Workers = {w1, w2}
  Embedded = {}
  Groups = {}
  Concurrency <- NoLimit
  SerialGroups <- NoGroups
  ApproveCount <- OneVote
  Interruptible = {jobA}
  DisableRetry = {}
  Downstream <- NoPassed
  SQLite = FALSE
  Events = {"create", "cancel", "approve", "reject", "delete", "pin", "pause", "noversion", "restart", "dberror"}
  MaxID = 2
SYMMETRY Symmetry
INVARIANTS
  TypeOK
  OneRunner
