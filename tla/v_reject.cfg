SPECIFICATION Spec
CONSTANTS
  jobA = jobA
  jobB = jobB
  Jobs = {jobA}
  NoJob = NoJob
  Users = {u1, u2}
  NoUser = NoUser
  Clients = {c1, c2}
  Workers = {w1}
  Embedded = {w1}
  Groups = {}
  Concurrency <- NoLimit
  SerialGroups <- NoGroups
  ApproveCount <- OneVote
  Interruptible = {}
  DisableRetry = {}
  Downstream <- NoPassed
  SQLite = TRUE
  Events = {"create", "approve", "reject"}
  MaxID = 1
PROPERTY
  RejectionIsFinal
