SPECIFICATION Spec
CONSTANTS
  jobA = jobA
  jobB = jobB
  Jobs = {jobA, jobB}
  NoJob = NoJob
  Users = {}
  NoUser = NoUser
  Clients = {c1}
  Workers = {w1, w2}
  Embedded = {}
  Groups = {"deploy", "a", "b"}
  Concurrency <- OneSlot
  SerialGroups <- SharedGroup
  ApproveCount <- NoGate
  Interruptible = {jobB}
  DisableRetry = {jobB}
  Downstream <- AThenB
  SQLite = TRUE
  Events = {"create", "cancel", "restart", "retry", "warn", "dberror"}
  MaxID = 2
SYMMETRY Symmetry
INVARIANTS
  SlotsRespected
  SerialGroupsRespected
