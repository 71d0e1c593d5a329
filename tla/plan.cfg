SPECIFICATION FairSpec
CONSTANTS
  db = db  web = web  get = get  test = test  tick = tick  gone = gone  fire = fire
  par = par  cond = cond  None = None
  Steps <- JobSteps
  Services = {db, web}
  Parallels = {par}
  Ifs = {cond}
  Plan <- JobPlan
  Kind <- JobKind
  Idle = {tick}
  Members <- JobMembers
  Limit <- JobLimit
  FailFast = {par}
  Branches <- JobBranches
  Attempts <- JobAttempts
  Hooks <- JobHooks
  Notifications = 1
  Timeout = TRUE
  Modes <- JobModes
  Events = {"cancel", "drain", "restart"}
  MaxLost = 1
INVARIANTS TypeOK ResultStored SuccessHonest HooksRun ServicesStopped FailureStops StepsSettled
PROPERTIES FailFastHolds PlanEnds
