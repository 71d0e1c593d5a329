--------------------------- MODULE BuildLifecycle ---------------------------
(***************************************************************************)
(* The builds table of a PikoCI server and everything that moves a build   *)
(* through it: the request handlers of pikoci/builds.go and approvals.go,  *)
(* the claim of NextWork (work.go), the workers' status reports and the    *)
(* recovery of a restarted server.                                         *)
(*                                                                         *)
(* A handler is as many steps as it has database statements that other     *)
(* handlers can get between: it reads a row with Find, decides, and later  *)
(* writes the row back with Update, which is addressed by job and build    *)
(* number and not by the row's id or its status.  Only what runs in a unit *)
(* of work is one step, and that only on SQLite, whose transactions take   *)
(* the write lock at BEGIN (mysql/new.go).  Each statement may fail: some  *)
(* handlers then return the error, others log it and go on without what    *)
(* they wanted to know or write.                                           *)
(***************************************************************************)
EXTENDS Integers, FiniteSets

CONSTANTS
  Jobs,           \* the jobs of one pipeline
  NoJob,          \* the job of a row that does not exist
  Users,          \* who may vote on a build
  NoUser,         \* the voter of a request that is not a vote
  Clients,        \* HTTP request handlers that may be in flight at once
  Workers,        \* executions that may be in flight at once
  Embedded,       \* the workers that live in the server's process
  Groups,         \* serial groups
  Concurrency,    \* job -> limit of running builds, 0 for none
  SerialGroups,   \* job -> its serial groups
  ApproveCount,   \* job -> approvals its gate needs, 0 for no gate
  Interruptible,  \* the jobs whose new build cancels the older ones
  DisableRetry,   \* the jobs that cannot be retried
  Downstream,     \* job -> jobs with a passed constraint on it
  SQLite,         \* TRUE: serialised units of work, ids of rows reused
  Events,         \* bound on what users, operators and resources do
  MaxID           \* bound on the ids of builds

Procs == Clients \cup Workers
IDs == 1..MaxID

EventKinds == {"create", "retry", "cancel", "warn", "approve", "reject", "delete",
               "pin", "pause", "noversion", "restart",
               "dberror",     \* a statement fails and with it its handler
               "swallowed"}   \* a statement fails and its handler goes on

ASSUME Assumptions ==
  /\ MaxID \in Nat
  /\ NoJob \notin Jobs
  /\ NoUser \notin Users
  /\ IsFiniteSet(Users)
  /\ Clients \cap Workers = {}
  /\ Embedded \subseteq Workers
  /\ Concurrency \in [Jobs -> Nat]
  /\ SerialGroups \in [Jobs -> SUBSET Groups]
  /\ ApproveCount \in [Jobs -> Nat]
  /\ Interruptible \subseteq Jobs
  /\ DisableRetry \subseteq Jobs
  /\ Downstream \in [Jobs -> SUBSET Jobs]
  /\ SQLite \in BOOLEAN
  /\ Events \subseteq EventKinds

VARIABLES
  builds,     \* id -> row of the builds table
  votes,      \* id -> user -> the vote in build_approvals
  paused,     \* the paused jobs
  req,        \* process -> what its request or execution is doing
  \* History, read by no action:
  lastID,     \* the largest id ever used (also MySQL's and PostgreSQL's sequence)
  gone,       \* job and build number of the deleted rows
  irregular,  \* rows that did not follow the lifecycle of a build
  ungated,    \* main builds whose creator could not read their job
  spared      \* older builds that were not cancelled for a newer one: their
              \* cancellation failed, or the server stopped before it

slips == <<ungated, spared>>
vars  == <<builds, votes, paused, req, lastID, gone, irregular, slips>>

-----------------------------------------------------------------------------
(* The builds table.                                                       *)

Active   == {"started", "pending", "waiting"}
Terminal == {"succeeded", "failed", "cancelled", "warning"}
Status   == Active \cup Terminal

\* A retry of build number n is numbered n.sub; a main build has sub = 0.
Row   == [job: Jobs \cup {NoJob}, num: Nat, sub: Nat, status: Status \cup {"none"}]
NoRow == [job |-> NoJob, num |-> 0, sub |-> 0, status |-> "none"]

Key(r)    == [job |-> r.job, num |-> r.num, sub |-> r.sub]
KeyType   == [job: Jobs \cup {NoJob}, num: Nat, sub: Nat]
NoKey     == Key(NoRow)

Exists(i) == builds[i].status # "none"
Rows      == {i \in IDs : Exists(i)}
Find(k)   == {i \in Rows : Key(builds[i]) = k}

Running(j) == {i \in IDs : builds[i].status = "started" /\ builds[i].job = j}

\* CountRunning counts the job's own running builds ...
CountRunning(j) == Cardinality(Running(j))

\* ... and CountRunningInSerialGroups those of other jobs in one of its groups.
\* (X_Y is a mutant of definition X: what Y names is wrong in it.)
SerialGroupBusy_AllGroups(j) ==
  \E k \in Jobs \ {j} : SerialGroups[j] \subseteq SerialGroups[k] /\ Running(k) # {}

SerialGroupBusy(j) ==
  \E k \in Jobs \ {j} : /\ SerialGroups[k] \cap SerialGroups[j] # {}
                        /\ Running(k) # {}

Pending(j) == {i \in IDs : builds[i].status = "pending" /\ builds[i].job = j}

FindOldestPending(j) == {i \in Pending(j) : \A k \in Pending(j) : i <= k}

FindActiveBuilds_OnlyStarted(j, before) ==
  {i \in IDs : i < before /\ builds[i].job = j /\ builds[i].status = "started"}

FindActiveBuilds(j, before) ==
  {i \in IDs : i < before /\ builds[i].job = j /\ builds[i].status \in Active}

\* Numbers are allocated from the rows that are there, so that deleting the
\* newest build frees its number; the same holds of SQLite's row ids.
IsNextNumber(j, n) ==
  LET used == {builds[i].num : i \in {i \in Rows : builds[i].job = j /\ builds[i].sub = 0}}
  IN  /\ \A m \in used : m < n
      /\ n - 1 \in used \cup {0}

IsNextRetry(j, n, s) ==
  LET used == {builds[i].sub : i \in {i \in Rows :
                 builds[i].job = j /\ builds[i].num = n /\ builds[i].sub > 0}}
  IN  /\ \A t \in used : t < s
      /\ s - 1 \in used \cup {0}

IsNextID(i) ==
  IF SQLite THEN /\ \A k \in Rows : k < i
                 /\ i - 1 \in Rows \cup {0}
            ELSE i = lastID + 1

Approvals_AnyVote(i) == {u \in Users : votes[i][u] # "none"}

Approvals(i) == {u \in Users : votes[i][u] = "approved"}
Rejected(i)  == \E u \in Users : votes[i][u] = "rejected"

NoVotes == [u \in Users |-> "none"]

-----------------------------------------------------------------------------
(* What the writes below are compared with: the life of a build that its   *)
(* documentation describes.  A row that is moved any other way, or that    *)
(* was given the id or the number of a deleted one, is irregular from then *)
(* on.                                                                     *)

Lifecycle(old, new) ==
  \/ new = old
  \/ new = "cancelled" /\ old \in Active
  \/ new = "pending"   /\ old = "waiting"
  \/ new = "failed"    /\ old \in {"waiting", "started"}
  \/ new = "warning"   /\ old \in {"started", "failed"}
  \/ new = "succeeded" /\ old = "started"

-----------------------------------------------------------------------------
(* Requests and executions.                                              *)

PCs == {"idle",    \* no request
        "create",  \* the job was read, the build is to be inserted
        "vote",    \* a vote on a build that was found waiting
        "count",   \* the vote is stored, the approvals are to be counted
        "write",   \* Find has read the row, its Update is to come
        "down",    \* the downstream jobs are to be listed
        "eval",    \* ... and are being evaluated one by one
        "older",   \* an interruptible job's older builds are to be listed
        "cancel",  \* ... and are being cancelled one by one
        "claim",   \* NextWork chose a pending build
        "checked", \* its limits were checked, on a server database
        "run"}     \* the worker executes the build

\* key: the row that will be written, or that the worker executes; id: that
\* row when it was read; st: the status that will be written; local: the
\* worker's own copy of the status, "started" at first; down: the evaluation
\* of downstream jobs follows; blind: st was decided without the row, whose
\* Find failed; job: the job that was read, NoJob when that failed, or the job
\* whose builds older than new are cancelled.
Request == [pc: PCs, key: KeyType, id: 0..MaxID, user: Users \cup {NoUser},
            st: Status \cup {"none", "approved", "rejected"},
            local: Status, down: BOOLEAN, blind: BOOLEAN,
            job: Jobs \cup {NoJob}, new: 0..MaxID,
            todo: SUBSET KeyType, rest: SUBSET Jobs]

Idle == [pc |-> "idle", key |-> NoKey, id |-> 0, user |-> NoUser, st |-> "none",
         local |-> "started", down |-> FALSE, blind |-> FALSE, job |-> NoJob,
         new |-> 0, todo |-> {}, rest |-> {}]

\* Where a process goes on after the last statement of a handler: a worker to
\* the build it executes, any other client nowhere.
Return(p) ==
  IF p \in Workers
    THEN [Idle EXCEPT !.pc = "run", !.key = req[p].key, !.id = req[p].id,
                      !.local = req[p].local]
    ELSE Idle

\* The evaluation of the downstream jobs goes on with the next job.
Resume(p) ==
  IF req[p].rest = {}
    THEN Return(p)
    ELSE [req[p] EXCEPT !.pc = "eval", !.job = NoJob, !.new = 0, !.todo = {}]

Init ==
  /\ builds = [i \in IDs |-> NoRow]
  /\ votes = [i \in IDs |-> NoVotes]
  /\ paused = {}
  /\ req = [p \in Procs |-> Idle]
  /\ lastID = 0
  /\ gone = {}
  /\ irregular = {}
  /\ ungated = {}
  /\ spared = {}

-----------------------------------------------------------------------------
(* The statements that write the builds table.                             *)

Insert(i, j, n, s, st) ==
  LET r == [job |-> j, num |-> n, sub |-> s, status |-> st]
  IN  /\ IsNextID(i)
      /\ builds' = [builds EXCEPT ![i] = r]
      /\ lastID' = IF i > lastID THEN i ELSE lastID
      /\ irregular' = IF i <= lastID \/ Key(r) \in gone
                        THEN irregular \cup {i} ELSE irregular
      /\ UNCHANGED <<votes, gone, paused>>

Update(k, st) ==
  /\ builds' = [i \in IDs |-> IF i \in Find(k) THEN [builds[i] EXCEPT !.status = st]
                                              ELSE builds[i]]
  /\ irregular' = irregular \cup {i \in Find(k) : ~Lifecycle(builds[i].status, st)}
  /\ UNCHANGED <<votes, lastID, gone, paused>>

\* The foreign key of build_approvals deletes the votes with the build.
Delete(k) ==
  /\ builds' = [i \in IDs |-> IF i \in Find(k) THEN NoRow ELSE builds[i]]
  /\ votes' = [i \in IDs |-> IF i \in Find(k) THEN NoVotes ELSE votes[i]]
  /\ irregular' = irregular \ Find(k)
  /\ ungated' = ungated \ Find(k)
  /\ spared' = spared \ Find(k)
  /\ gone' = gone \cup {Key(builds[i]) : i \in Find(k)}
  /\ UNCHANGED <<lastID, paused>>

Table == <<builds, votes, paused, lastID, gone, irregular>>

-----------------------------------------------------------------------------
(* Creating builds.                                                        *)

InitialStatus_UnknownStatus(j) ==
  IF j # NoJob /\ ApproveCount[j] > 0 THEN "approval" ELSE "pending"

\* A creator that could not read the job knows of no gate ...
InitialStatus(j) == IF j # NoJob /\ ApproveCount[j] > 0 THEN "waiting" ELSE "pending"

\* ... and of no interruption.  What follows the creation of build i by process
\* p, which read job j.
AfterCreate(p, j, i) ==
  IF j \in Interruptible
    THEN [req[p] EXCEPT !.pc = "older", !.job = j, !.new = i]
    ELSE Resume(p)

\* The job is read before the unit of work that inserts the build.  A job that
\* cannot be read is not known to be paused either.
CreateJobBuild(c, j) ==
  /\ "create" \in Events
  /\ req[c].pc = "idle"
  /\ \E read \in {j, NoJob} :
       /\ IF read = j THEN j \notin paused ELSE "swallowed" \in Events
       /\ req' = [req EXCEPT ![c] =
            [Idle EXCEPT !.pc = "create", !.job = read,
                         !.key = [job |-> j, num |-> 0, sub |-> 0]]]
  /\ UNCHANGED <<Table, slips>>

\* The retry of a retry is numbered after the main build, which is found too.
RetryJobBuild(c, k) ==
  /\ "retry" \in Events
  /\ req[c].pc = "idle"
  /\ k.job \notin DisableRetry
  /\ \E i \in Find(k) : builds[i].status \notin Active
  /\ Find([k EXCEPT !.sub = 0]) # {}
  /\ req' = [req EXCEPT ![c] =
       [Idle EXCEPT !.pc = "create", !.job = k.job, !.key = [k EXCEPT !.sub = 0]]]
  /\ UNCHANGED <<Table, slips>>

\* Create and, when a main build is named, CreateRetry: a retry is pending at
\* once, whatever the gate of its job.
CreateBuild(c) ==
  /\ req[c].pc = "create"
  /\ LET k == req[c].key
         j == req[c].job
     IN  \E i \in IDs, n \in 1..MaxID :
           /\ IF k.num = 0
                THEN /\ IsNextNumber(k.job, n)
                     /\ Insert(i, k.job, n, 0, InitialStatus(j))
                ELSE /\ IsNextRetry(k.job, k.num, n)
                     /\ Insert(i, k.job, k.num, n, "pending")
           /\ req' = [req EXCEPT ![c] = AfterCreate(c, j, i)]
           /\ IF j # NoJob
                THEN UNCHANGED slips
                ELSE /\ ungated' = ungated \cup {i}
                     /\ spared' = spared \cup FindActiveBuilds(k.job, i)

\* The unit of work fails, for one when no number was free in five attempts.
FailCreate(c) ==
  /\ req[c].pc = "create"
  /\ req' = [req EXCEPT ![c] = Idle]
  /\ UNCHANGED <<Table, slips>>

\* EvaluateDownstreamJobs reads the pipeline, skipping its paused jobs ...
EvaluateDownstreamJobs(p) ==
  /\ req[p].pc = "down"
  /\ LET next == Downstream[req[p].key.job] \ paused
     IN  req' = [req EXCEPT ![p] =
                   IF next = {} THEN Return(p)
                   ELSE [req[p] EXCEPT !.pc = "eval", !.rest = next]]
  /\ UNCHANGED <<Table, slips>>

\* ... and then visits each: a job with no version ready, or with a build
\* pending, is passed over, another gets a build.  Which versions are ready
\* is not part of this module.
evaluateJobDownstream(p) ==
  /\ req[p].pc = "eval"
  /\ \E j \in req[p].rest :
       LET left == [req[p] EXCEPT !.rest = @ \ {j}]
       IN  \/ /\ req' = [req EXCEPT ![p] = IF left.rest = {} THEN Return(p) ELSE left]
              /\ UNCHANGED <<Table, slips>>
           \/ /\ Pending(j) = {}
              /\ \E i \in IDs, n \in 1..MaxID :
                   /\ IsNextNumber(j, n)
                   /\ Insert(i, j, n, 0, InitialStatus(j))
                   /\ UNCHANGED slips
                   /\ req' = [req EXCEPT ![p] =
                        IF j \in Interruptible
                          THEN [left EXCEPT !.pc = "older", !.job = j, !.new = i]
                          ELSE IF left.rest = {} THEN Return(p) ELSE left]

\* The builds that process p still has to cancel for a newer one.
Uncancelled(p) ==
  {i \in IDs : /\ i < req[p].new
               /\ builds[i].job = req[p].job
               /\ \/ req[p].pc = "older" /\ builds[i].status \in Active
                  \/ req[p].pc = "cancel" /\ Key(builds[i]) \in req[p].todo}

\* cancelOlderBuilds of an interruptible job: one read of the active builds,
\* then one write each.  When the read fails nothing is cancelled, when a write
\* fails the next one follows.
ListOlderBuilds(p) ==
  /\ req[p].pc = "older"
  /\ \/ /\ LET older == FindActiveBuilds(req[p].job, req[p].new)
           IN  req' = [req EXCEPT ![p] =
                         IF older = {} THEN Resume(p)
                         ELSE [req[p] EXCEPT !.pc = "cancel",
                                             !.todo = {Key(builds[i]) : i \in older}]]
        /\ UNCHANGED slips
     \/ /\ "swallowed" \in Events
        /\ req' = [req EXCEPT ![p] = Resume(p)]
        /\ spared' = spared \cup Uncancelled(p)
        /\ UNCHANGED ungated
  /\ UNCHANGED Table

CancelOlderBuild(p) ==
  /\ req[p].pc = "cancel"
  /\ \E k \in req[p].todo :
       /\ \/ Update(k, "cancelled") /\ UNCHANGED slips
          \/ /\ "swallowed" \in Events
             /\ spared' = spared \cup (Uncancelled(p) \cap Find(k))
             /\ UNCHANGED <<Table, ungated>>
       /\ req' = [req EXCEPT ![p] =
            IF req[p].todo = {k} THEN Resume(p) ELSE [req[p] EXCEPT !.todo = @ \ {k}]]

\* PinResourceVersion cancels the pending builds of a job, read in one
\* statement, that were created for another version.  Which ones these are is
\* not part of this module.
cancelMismatchedPendingBuilds(c, j) ==
  /\ "pin" \in Events
  /\ req[c].pc = "idle"
  /\ \E other \in SUBSET Pending(j) \ {{}} :
       req' = [req EXCEPT ![c] = [Idle EXCEPT !.pc = "cancel", !.job = j,
                                              !.todo = {Key(builds[i]) : i \in other}]]
  /\ UNCHANGED <<Table, slips>>

-----------------------------------------------------------------------------
(* Handlers that read a row and write it back.                             *)

\* The request of client c has read row i and will write it back as st.
WillWrite(c, i, st, down) ==
  req' = [req EXCEPT ![c] = [Idle EXCEPT !.pc = "write", !.key = Key(builds[i]),
                                         !.id = i, !.st = st, !.down = down]]

CancelJobBuild(c, k) ==
  /\ "cancel" \in Events
  /\ req[c].pc = "idle"
  /\ \E i \in Find(k) : builds[i].status \in Active /\ WillWrite(c, i, "cancelled", FALSE)
  /\ UNCHANGED <<Table, slips>>

MarkBuildAsWarning(c, k) ==
  /\ "warn" \in Events
  /\ req[c].pc = "idle"
  /\ \E i \in Find(k) : builds[i].status = "failed" /\ WillWrite(c, i, "warning", TRUE)
  /\ UNCHANGED <<Table, slips>>

\* ApproveBuild and RejectBuild up to the vote.
Vote(c, k, u, action) ==
  /\ IF action = "approved" THEN "approve" \in Events /\ ApproveCount[k.job] > 0
                            ELSE "reject" \in Events
  /\ req[c].pc = "idle"
  /\ \E i \in Find(k) :
       /\ builds[i].status = "waiting"
       /\ req' = [req EXCEPT ![c] = [Idle EXCEPT !.pc = "vote", !.key = k, !.id = i,
                                                 !.user = u, !.st = action]]
  /\ UNCHANGED <<Table, slips>>

\* CreateApproval: build_approvals is unique in build and user, and refers to
\* a build that exists.  An approval is counted next, a rejection fails the
\* build.
CreateApproval(c) ==
  /\ req[c].pc = "vote"
  /\ LET r == req[c]
     IN  IF Exists(r.id) /\ votes[r.id][r.user] = "none"
           THEN /\ votes' = [votes EXCEPT ![r.id][r.user] = r.st]
                /\ req' = [req EXCEPT ![c] =
                     IF r.st = "approved" THEN [r EXCEPT !.pc = "count"]
                     ELSE [r EXCEPT !.pc = "write", !.st = "failed"]]
           ELSE req' = [req EXCEPT ![c] = Idle] /\ UNCHANGED votes
  /\ UNCHANGED <<builds, paused, lastID, gone, irregular, slips>>

\* ApproveBuild after the vote.
ApproveBuild(c) ==
  /\ req[c].pc = "count"
  /\ LET r == req[c]
     IN  req' = [req EXCEPT ![c] =
           IF Cardinality(Approvals(r.id)) >= ApproveCount[r.key.job]
             THEN [r EXCEPT !.pc = "write", !.st = "pending"] ELSE Idle]
  /\ UNCHANGED <<Table, slips>>

\* The Update that ends each of them, and each report of a worker.
WriteBack(p) ==
  /\ req[p].pc = "write"
  /\ Update(req[p].key, req[p].st)
  /\ req' = [req EXCEPT ![p] =
       IF req[p].down /\ Find(req[p].key) # {}
         THEN [req[p] EXCEPT !.pc = "down", !.blind = FALSE] ELSE Return(p)]
  /\ UNCHANGED slips

\* A statement fails and with it the handler, which tells its caller so and
\* has changed nothing since the statement before.
ReturnError(p) ==
  /\ "dberror" \in Events
  /\ req[p].pc \in {"vote", "count", "write", "down", "claim", "checked"}
  /\ req' = [req EXCEPT ![p] =
       IF req[p].pc \in {"claim", "checked"} THEN Idle ELSE Return(p)]
  /\ UNCHANGED <<Table, slips>>

DeleteJobBuild(c, k) ==
  /\ "delete" \in Events
  /\ req[c].pc = "idle"
  /\ Find(k) # {}
  /\ Delete(k)
  /\ UNCHANGED req

PauseJob(j) ==
  /\ "pause" \in Events
  /\ paused' = paused \cup {j}
  /\ UNCHANGED <<builds, votes, req, lastID, gone, irregular, slips>>

UnpauseJob(j) ==
  /\ "pause" \in Events
  /\ paused' = paused \ {j}
  /\ UNCHANGED <<builds, votes, req, lastID, gone, irregular, slips>>

-----------------------------------------------------------------------------
(* Claiming a build for a worker.                                          *)

\* NextWork, up to the choice of a pending build.
NextWork(w, j) ==
  /\ req[w].pc = "idle"
  /\ j \notin paused
  /\ \E i \in FindOldestPending(j) :
       req' = [req EXCEPT ![w] = [Idle EXCEPT !.pc = "claim", !.id = i, !.job = j]]
  /\ UNCHANGED <<Table, slips>>

\* What StartPendingBuild checks before it starts a build of job j.
Admissible_OneTooMany(j) ==
  /\ j \notin paused
  /\ Concurrency[j] > 0 => CountRunning(j) <= Concurrency[j]
  /\ ~SerialGroupBusy(j)

Admissible(j) ==
  /\ j \notin paused
  /\ Concurrency[j] > 0 => CountRunning(j) < Concurrency[j]
  /\ ~SerialGroupBusy(j)

\* The statement is guarded by the row's id and status, not by its job.
CanStart_AnyActive(i) == builds[i].status \in Active

CanStart(i) == builds[i].status = "pending"

StartPending(w) ==
  LET r == req[w]
      b == builds[r.id]
  IN  IF CanStart(r.id)
        THEN /\ builds' = [builds EXCEPT ![r.id].status = "started"]
             /\ req' = [req EXCEPT ![w] =
                  [Idle EXCEPT !.pc = "run", !.id = r.id, !.local = "started",
                     !.key = [job |-> r.job, num |-> b.num, sub |-> b.sub]]]
             /\ UNCHANGED <<votes, paused, lastID, gone, irregular, slips>>
        ELSE /\ req' = [req EXCEPT ![w] = Idle]
             /\ UNCHANGED <<Table, slips>>

\* The unit of work is one step on SQLite.  On a server database the checks
\* read a snapshot and the guarded update comes later.
StartPendingBuild(w) ==
  /\ req[w].pc = "claim"
  /\ IF ~Admissible(req[w].job)
       THEN req' = [req EXCEPT ![w] = Idle] /\ UNCHANGED <<Table, slips>>
       ELSE IF SQLite
         THEN StartPending(w)
         ELSE req' = [req EXCEPT ![w].pc = "checked"] /\ UNCHANGED <<Table, slips>>

StartCheckedBuild(w) ==
  /\ req[w].pc = "checked"
  /\ StartPending(w)

-----------------------------------------------------------------------------
(* The worker's side, as far as the table sees it.                         *)

\* The statuses that processJob may report: progress while it runs, then a
\* result, which the hooks repeat.  A failure becomes a warning at the end of a
\* job that allows it; "cancelled" is reported only when the row is read so; a put
\* or notify step that fails as a hook turns any result into a failure.
Reports(w) ==
  LET final == {"failed", "warning"} \cup
               {s \in {"cancelled"} : \E i \in Find(req[w].key) : builds[i].status = s}
  IN  CASE req[w].local = "started" -> final \cup {"started", "succeeded"}
        [] req[w].local = "failed"  -> final
        [] OTHER                    -> {req[w].local, "failed"}

\* A build that is read as cancelled is written back so.
Reported_Unguarded(k, st) == st

Reported(k, st) ==
  IF \E i \in Find(k) : builds[i].status = "cancelled" THEN "cancelled" ELSE st

\* UpdateJobBuild up to its Update.  The row is read only to protect a
\* cancellation: when its Find fails the report is written as it came.
\* failBuild works on a copy of the worker's build, so that a failure may leave
\* the local status as it was.  EvaluateDownstreamJobs follows the first
\* successful report of a result, which may be a retry of the call.
UpdateJobBuild(w) ==
  /\ req[w].pc = "run"
  /\ \E st \in Reports(w), copy, down, blind \in BOOLEAN :
       /\ copy => st = "failed" /\ req[w].local \in {"started", "failed"}
       /\ down => st \in {"succeeded", "warning"}
       /\ req[w].local # st /\ st \in {"succeeded", "warning"} => down
       /\ blind => "swallowed" \in Events
       /\ req' = [req EXCEPT ![w] =
            [req[w] EXCEPT !.pc = "write", !.blind = blind,
                           !.st = IF blind THEN st ELSE Reported(req[w].key, st),
                           !.local = IF copy THEN @ ELSE st, !.down = down]]
  /\ UNCHANGED <<Table, slips>>

\* No version to run with: the worker deletes the build it was given.
deleteBuild(w) ==
  /\ "noversion" \in Events
  /\ req[w].pc = "run"
  /\ req[w].local = "started"
  /\ Delete(req[w].key)
  /\ req' = [req EXCEPT ![w] = Idle]

\* processJob returns, at its end or on one of its error paths, or the worker
\* dies, or the work item was never delivered: the table is left as it is.
StopWork(w) ==
  /\ req[w].pc = "run"
  /\ req' = [req EXCEPT ![w] = Idle]
  /\ UNCHANGED <<Table, slips>>

\* The server stops, or crashes, and starts again.  Its requests and embedded
\* workers are gone, the others go on; RecoverOrphanedBuilds fails every
\* build that is started.  Builds that were still to be cancelled for a newer
\* one are not.
Restart ==
  /\ "restart" \in Events
  /\ builds' = [i \in IDs |-> IF builds[i].status = "started"
                               THEN [builds[i] EXCEPT !.status = "failed"] ELSE builds[i]]
  /\ req' = [p \in Procs |->
       IF p \in Workers \ Embedded /\ req[p].pc \notin {"idle", "claim", "checked"}
         THEN Return(p) ELSE Idle]
  /\ spared' = spared \cup UNION {Uncancelled(p) : p \in Procs}
  /\ UNCHANGED <<votes, paused, lastID, gone, irregular, ungated>>

-----------------------------------------------------------------------------
Keys == {Key(builds[i]) : i \in Rows}

Handler(c) ==
  \/ \E j \in Jobs : CreateJobBuild(c, j) \/ cancelMismatchedPendingBuilds(c, j)
  \/ CreateBuild(c)
  \/ FailCreate(c)
  \/ \E k \in Keys : \/ RetryJobBuild(c, k)
                      \/ CancelJobBuild(c, k)
                      \/ MarkBuildAsWarning(c, k)
                      \/ DeleteJobBuild(c, k)
                      \/ \E u \in Users, a \in {"approved", "rejected"} : Vote(c, k, u, a)
  \/ CreateApproval(c)
  \/ ApproveBuild(c)

Execution(w) ==
  \/ \E j \in Jobs : NextWork(w, j)
  \/ StartPendingBuild(w)
  \/ StartCheckedBuild(w)
  \/ UpdateJobBuild(w)
  \/ deleteBuild(w)
  \/ StopWork(w)

Common(p) ==
  \/ WriteBack(p)
  \/ ReturnError(p)
  \/ EvaluateDownstreamJobs(p)
  \/ evaluateJobDownstream(p)
  \/ ListOlderBuilds(p)
  \/ CancelOlderBuild(p)

Next ==
  \/ \E c \in Clients : Handler(c)
  \/ \E w \in Workers : Execution(w)
  \/ \E p \in Procs : Common(p)
  \/ \E j \in Jobs : PauseJob(j) \/ UnpauseJob(j)
  \/ Restart

Spec == Init /\ [][Next]_vars

-----------------------------------------------------------------------------
(* What holds of every build that followed its lifecycle.                  *)

\* Every variable holds what the code can store in it: rows have a status the
\* schema knows, a request's copy of a row is a row.
TypeOK ==
  /\ builds \in [IDs -> Row]
  /\ votes \in [IDs -> [Users -> {"none", "approved", "rejected"}]]
  /\ paused \subseteq Jobs
  /\ req \in [Procs -> Request]
  /\ lastID \in 0..MaxID
  /\ gone \subseteq KeyType
  /\ irregular \subseteq IDs
  /\ ungated \subseteq IDs
  /\ spared \subseteq IDs

\* StartPendingBuild counts and starts in one serialised unit of work, so that
\* however many workers claim at once the regular running builds of a job
\* never outnumber its concurrency.
SlotsRespected ==
  SQLite => \A j \in Jobs : Concurrency[j] > 0 =>
              Cardinality(Running(j) \ irregular) <= Concurrency[j]

\* For the same reason no two jobs of a serial group run regular builds at
\* the same time.
SerialGroupsRespected ==
  SQLite => \A j \in Jobs : \A k \in Jobs \ {j} :
              SerialGroups[j] \cap SerialGroups[k] # {} =>
                \/ Running(j) \subseteq irregular
                \/ Running(k) \subseteq irregular

\* A regular main build of a gated job, whose creator could read the job, is
\* queued, runs and succeeds only with as many approvals as ApproveBuild asks
\* for, whichever votes, cancellations, deletions, restarts and failing
\* statements came in between.
GateRespected ==
  \A i \in Rows \ (irregular \cup ungated) :
    builds[i].sub = 0 /\ builds[i].status \in {"pending", "started", "succeeded"} =>
      Cardinality({u \in Users : votes[i][u] = "approved"}) >= ApproveCount[builds[i].job]

\* The workers that execute build i.
Executing(i) ==
  {w \in Workers : req[w].id = i /\ req[w].pc \notin {"idle", "claim", "checked"}}

\* StartPending is guarded by the status it replaces: a regular build is
\* handed to one worker, also when several chose it and when the server
\* restarts under them.
OneRunner ==
  \A i \in Rows \ irregular : \A w, x \in Executing(i) : w = x

\* On SQLite, where the builds of a job become visible in the order of their
\* ids: while an older regular build of an interruptible job is active, some
\* request is about to cancel it for a newer one, unless the job could not be
\* read, the cancellation itself failed or a restart came before it.  However
\* many builds are created at once, none slips between the creation of a build
\* and the listing of the older ones.
NewestWins ==
  SQLite => \A k \in Rows : \A i \in Rows \ (irregular \cup spared) :
    i < k /\ builds[i].job = builds[k].job
      /\ builds[i].job \in Interruptible /\ builds[i].status \in Active =>
        \E p \in Procs : i \in Uncancelled(p)

\* Build i is cancelled and no request that read it before will write anything
\* else.
Settled(i) ==
  /\ builds[i].status = "cancelled"
  /\ \A p \in Procs :
       req[p].pc \in {"vote", "count", "write"} /\ req[p].key = Key(builds[i]) =>
         req[p].pc = "write" /\ req[p].st = "cancelled"

\* Build i is about to be written by a report whose Find failed.
Blind(i) == \E p \in Procs : req[p].blind /\ req[p].key = Key(builds[i])

\* A settled cancellation is final: UpdateJobBuild turns every later report of
\* a worker into "cancelled", and no other handler accepts the build.  Only a
\* report that could not read the row undoes it.
CancellationSettles ==
  [][\A i \in IDs : Settled(i) => Settled(i)' \/ builds'[i] = NoRow \/ Blind(i)']_vars

-----------------------------------------------------------------------------
(* What the documentation says of every build.                             *)

\* docs/Approval-Gates.md: "A single rejection immediately fails the build".  A
\* build whose rejection has been written does not come back to the queue.
RejectionIsFinal ==
  [][\A i \in IDs : Rejected(i) /\ builds[i].status = "failed" =>
       builds'[i].status \notin Active]_vars
=============================================================================
