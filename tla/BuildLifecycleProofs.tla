------------------------ MODULE BuildLifecycleProofs ------------------------
(***************************************************************************)
(* Proofs about BuildLifecycle, for any number of jobs, users, requests,   *)
(* workers and builds: its types, and the limits on running builds.        *)
(***************************************************************************)
EXTENDS BuildLifecycle, FiniteSetTheorems, TLAPS

(***************************************************************************)
(* TypeOK is not inductive: what a request writes is a status, and the job *)
(* whose downstream jobs are evaluated is a job, only because of the       *)
(* handler that the request is in.  TypeInv adds what the handlers know.   *)
(***************************************************************************)
TableOK ==
  /\ builds \in [IDs -> Row]
  /\ votes \in [IDs -> [Users -> {"none", "approved", "rejected"}]]
  /\ paused \subseteq Jobs
  /\ lastID \in 0..MaxID
  /\ gone \subseteq KeyType
  /\ irregular \subseteq IDs

RowsOK == \A i \in IDs : Exists(i) => builds[i].job \in Jobs /\ i <= lastID

\* The statements after which a request names a build in its key.
Keyed(p, r) ==
  \/ r.pc \in {"create", "vote", "count", "write", "down"}
  \/ p \in Workers /\ r.pc \notin {"idle", "claim", "checked"}

Good(p, r) ==
  /\ r \in Request
  /\ Keyed(p, r) => r.key.job \in Jobs
  /\ r.pc = "create" => r.job \in {r.key.job, NoJob}
  /\ r.pc \in {"claim", "checked"} => r.job \in Jobs /\ r.id \in IDs
  /\ r.pc \in {"vote", "count"} => r.id \in IDs
  /\ r.pc = "vote" => r.st \in {"approved", "rejected"}
  /\ r.pc = "write" => r.st \in Status

ReqOK == req \in [Procs -> Request] /\ \A p \in Procs : Good(p, req[p])

TypeInv == TableOK /\ RowsOK /\ ReqOK

-----------------------------------------------------------------------------
(* What processes are left with.                                           *)

\* No id and every id fit the id field of a request.
LEMMA IDRange == 0 \in 0..MaxID /\ IDs \subseteq 0..MaxID
BY Assumptions DEF IDs

\* An idle process is left with a request.
LEMMA IdleGood == ASSUME NEW p \in Procs PROVE Good(p, Idle)
<1>1. Idle \in Request
  BY IDRange DEF Idle, Request, PCs, NoKey, Key, KeyType, NoRow, Status, Active, Terminal
<1> QED BY <1>1 DEF Good, Keyed, Idle

\* So is a process that returns from a handler ...
LEMMA ReturnGood ==
  ASSUME ReqOK, NEW p \in Procs, p \in Workers => Keyed(p, req[p])
  PROVE  Good(p, Return(p))
<1>1. CASE p \in Workers
  <2>1. req[p] \in Request /\ Idle \in Request /\ req[p].key.job \in Jobs
    BY <1>1, IdleGood DEF ReqOK, Good
  <2>2. Return(p) \in Request
    BY <1>1, <2>1 DEF Return, Request, PCs
  <2>3. Return(p).pc = "run" /\ Return(p).key = req[p].key
    BY <1>1, <2>1 DEF Return, Request
  <2> QED BY <2>1, <2>2, <2>3 DEF Good
<1>2. CASE p \notin Workers
  BY <1>2, IdleGood DEF Return
<1> QED BY <1>1, <1>2

\* ... or that goes on with the evaluation of downstream jobs.
LEMMA ResumeGood ==
  ASSUME ReqOK, NEW p \in Procs, p \in Workers => Keyed(p, req[p])
  PROVE  Good(p, Resume(p))
<1>1. CASE req[p].rest = {}
  BY <1>1, ReturnGood DEF Resume
<1>2. CASE req[p].rest # {}
  <2>1. req[p] \in Request /\ (p \in Workers => req[p].key.job \in Jobs)
    BY DEF ReqOK, Good
  <2>2. Resume(p) \in Request
    BY <1>2, <2>1, IDRange DEF Resume, Request, PCs
  <2>3. Resume(p).pc = "eval" /\ Resume(p).key = req[p].key
    BY <1>2, <2>1 DEF Resume, Request
  <2> QED BY <2>1, <2>2, <2>3 DEF Good, Keyed
<1> QED BY <1>1, <1>2

\* A step of process p that leaves it with a good request.
LEMMA ReqStep ==
  ASSUME ReqOK, NEW p \in Procs, NEW r, Good(p, r), req' = [req EXCEPT ![p] = r]
  PROVE  ReqOK'
<1>1. r \in Request
  BY DEF Good
<1>2. req' \in [Procs -> Request]
  BY <1>1 DEF ReqOK
<1>3. \A q \in Procs : Good(q, req[q])'
  BY DEF ReqOK, Good, Keyed
<1> QED BY <1>2, <1>3 DEF ReqOK

-----------------------------------------------------------------------------
(* What the statements on the table leave.                                 *)

\* A row's key is a key, and that of a row that exists names a job.
LEMMA RowKey ==
  ASSUME TableOK, RowsOK, NEW i \in IDs
  PROVE  /\ Key(builds[i]) \in KeyType
         /\ Exists(i) => Key(builds[i]).job \in Jobs
BY DEF TableOK, RowsOK, Key, KeyType, Row

\* A build is created waiting or pending.
LEMMA InitialStatusType == ASSUME NEW j PROVE InitialStatus(j) \in {"waiting", "pending"}
BY DEF InitialStatus

\* Create and CreateRetry leave a well-typed table when the row they insert is
\* one of a job and has a status.
LEMMA InsertType ==
  ASSUME TableOK, RowsOK, NEW i \in IDs, NEW j \in Jobs, NEW n \in Nat, NEW s \in Nat,
         NEW st \in Status, Insert(i, j, n, s, st)
  PROVE  TableOK' /\ RowsOK'
<1> DEFINE r == [job |-> j, num |-> n, sub |-> s, status |-> st]
<1>1. r \in Row
  BY DEF Row
<1>2. lastID' \in 0..MaxID /\ i <= lastID' /\ lastID <= lastID'
  BY IDRange, Assumptions DEF Insert, TableOK, IDs
<1>3. builds' = [builds EXCEPT ![i] = r]
  BY DEF Insert
<1>4. TableOK'
  BY <1>1, <1>2, <1>3 DEF Insert, TableOK
<1>5. RowsOK'
  <2> SUFFICES ASSUME NEW k \in IDs, Exists(k)' PROVE builds'[k].job \in Jobs /\ k <= lastID'
    BY DEF RowsOK
  <2>1. CASE k = i
    BY <2>1, <1>2, <1>3 DEF TableOK
  <2>2. CASE k # i
    <3>1. builds'[k] = builds[k]
      BY <2>2, <1>3 DEF TableOK
    <3>2. builds[k].job \in Jobs /\ k <= lastID
      BY <3>1 DEF RowsOK, Exists
    <3> QED BY <3>1, <3>2, <1>2 DEF TableOK, IDs
  <2> QED BY <2>1, <2>2
<1> QED BY <1>4, <1>5

\* The Update of a row to a status leaves a well-typed table.
LEMMA UpdateType ==
  ASSUME TableOK, RowsOK, NEW k, NEW st \in Status, Update(k, st)
  PROVE  TableOK' /\ RowsOK'
<1>1. builds' \in [IDs -> Row]
  BY DEF Update, TableOK, Row
<1>2. irregular' \subseteq IDs
  BY DEF Update, TableOK, Find, Rows
<1>3. TableOK'
  BY <1>1, <1>2 DEF Update, TableOK
<1>4. \A i \in IDs : builds'[i].job = builds[i].job /\ (Exists(i)' => Exists(i))
  BY DEF Update, TableOK, Row, Find, Rows, Exists
<1> QED BY <1>3, <1>4 DEF RowsOK, Update

\* Deleting rows, with their votes, leaves a well-typed table.
LEMMA DeleteType ==
  ASSUME TableOK, RowsOK, NEW k, Delete(k)
  PROVE  TableOK' /\ RowsOK'
<1>1. NoRow \in Row /\ NoVotes \in [Users -> {"none", "approved", "rejected"}]
  BY DEF NoRow, Row, NoVotes
<1>2. gone' \subseteq KeyType
  BY RowKey DEF Delete, TableOK, Find, Rows
<1>3. TableOK'
  BY <1>1, <1>2 DEF Delete, TableOK
<1>4. \A i \in IDs : Exists(i)' => Exists(i) /\ builds'[i] = builds[i]
  BY DEF Delete, NoRow, Exists
<1> QED BY <1>3, <1>4 DEF RowsOK, Delete

\* So does a statement that only reads.
LEMMA TableSame == ASSUME TableOK, RowsOK, UNCHANGED Table PROVE TableOK' /\ RowsOK'
BY DEF TableOK, RowsOK, Table, Exists

\* The guarded update of a claim starts a row that exists, and leaves the worker
\* with a build of a job.
LEMMA StartPendingType ==
  ASSUME TypeInv, NEW w \in Workers, req[w].pc \in {"claim", "checked"}, StartPending(w)
  PROVE  TypeInv'
<1> DEFINE i == req[w].id
           r == [Idle EXCEPT !.pc = "run", !.id = i, !.local = "started",
                   !.key = [job |-> req[w].job, num |-> builds[i].num, sub |-> builds[i].sub]]
<1>1. w \in Procs /\ i \in IDs /\ req[w].job \in Jobs /\ builds[i] \in Row
  BY DEF TypeInv, ReqOK, Good, TableOK, Procs
<1>2. CASE CanStart(i)
  <2>0. /\ builds' = [builds EXCEPT ![i] = [builds[i] EXCEPT !.status = "started"]]
        /\ UNCHANGED <<votes, paused, lastID, gone, irregular>>
    BY <1>2 DEF StartPending
  <2>1. TableOK'
    <3>1. [builds[i] EXCEPT !.status = "started"] \in Row
      BY <1>1 DEF Row, Status, Active
    <3>2. builds' \in [IDs -> Row]
      BY <2>0, <3>1 DEF TypeInv, TableOK
    <3> QED BY <2>0, <3>2 DEF TypeInv, TableOK
  <2>2. RowsOK'
    <3>1. Exists(i)
      BY <1>2 DEF CanStart, Exists
    <3>2. \A k \in IDs : Exists(k)' => Exists(k) /\ builds'[k].job = builds[k].job
      BY <1>1, <2>0, <3>1 DEF TypeInv, TableOK, Row, Exists
    <3> QED BY <2>0, <3>2 DEF TypeInv, RowsOK
  <2>3. Good(w, r)
    <3>1. r \in Request
      BY <1>1, IdleGood, IDRange DEF Good, Request, PCs, KeyType, Row, Status, Active
    <3>2. r.pc = "run" /\ r.key.job = req[w].job
      BY IdleGood, <1>1 DEF Good, Request
    <3> QED BY <1>1, <3>1, <3>2 DEF Good
  <2>4. req' = [req EXCEPT ![w] = r]
    BY <1>2 DEF StartPending
  <2> QED BY <1>1, <2>1, <2>2, <2>3, <2>4, ReqStep DEF TypeInv
<1>3. CASE ~CanStart(i)
  BY <1>1, <1>3, TableSame, IdleGood, ReqStep DEF StartPending, TypeInv
<1> QED BY <1>2, <1>3

-----------------------------------------------------------------------------
(* One lemma per action.                                                   *)

\* CreateJobBuild reads a job and leaves the table alone.
LEMMA CreateJobBuildType ==
  ASSUME TypeInv, NEW c \in Clients, NEW j \in Jobs, CreateJobBuild(c, j)
  PROVE  TypeInv'
<1>0. PICK read \in {j, NoJob} :
        req' = [req EXCEPT ![c] = [Idle EXCEPT !.pc = "create", !.job = read,
                                               !.key = [job |-> j, num |-> 0, sub |-> 0]]]
  BY DEF CreateJobBuild
<1> DEFINE r == [Idle EXCEPT !.pc = "create", !.job = read,
                             !.key = [job |-> j, num |-> 0, sub |-> 0]]
<1>1. c \in Procs
  BY DEF Procs
<1>2. r \in Request /\ r.pc = "create" /\ r.key.job = j /\ r.job = read
  BY <1>1, IdleGood DEF Good, Request, PCs, KeyType
<1>3. Good(c, r)
  BY <1>2 DEF Good
<1>4. req' = [req EXCEPT ![c] = r]
  BY <1>0
<1> QED BY <1>1, <1>3, <1>4, ReqStep, TableSame DEF CreateJobBuild, TypeInv

\* RetryJobBuild names the main build of a row that it found.
LEMMA RetryJobBuildType ==
  ASSUME TypeInv, NEW c \in Clients, NEW k \in KeyType, k.job \in Jobs, RetryJobBuild(c, k)
  PROVE  TypeInv'
<1> DEFINE r == [Idle EXCEPT !.pc = "create", !.job = k.job, !.key = [k EXCEPT !.sub = 0]]
<1>1. c \in Procs
  BY DEF Procs
<1>2. r \in Request /\ r.pc = "create" /\ r.key.job = k.job /\ r.job = k.job
  BY <1>1, IdleGood DEF Good, Request, PCs, KeyType
<1>3. Good(c, r)
  BY <1>2 DEF Good
<1>4. req' = [req EXCEPT ![c] = r]
  BY DEF RetryJobBuild
<1> QED BY <1>1, <1>3, <1>4, ReqStep, TableSame DEF RetryJobBuild, TypeInv

\* A process that has created a build is left with a request, whether or not it
\* has older builds to cancel.
LEMMA AfterCreateGood ==
  ASSUME TypeInv, NEW p \in Procs, NEW j \in Jobs \cup {NoJob}, NEW i \in IDs,
         p \in Workers => Keyed(p, req[p])
  PROVE  Good(p, AfterCreate(p, j, i))
<1>1. CASE j \in Interruptible
  <2> DEFINE r == [req[p] EXCEPT !.pc = "older", !.job = j, !.new = i]
  <2>1. req[p] \in Request /\ (p \in Workers => req[p].key.job \in Jobs)
    BY DEF TypeInv, ReqOK, Good
  <2>2. r \in Request /\ r.pc = "older" /\ r.key = req[p].key
    BY <2>1, IDRange DEF Request, PCs
  <2>3. Good(p, r)
    BY <2>1, <2>2 DEF Good, Keyed
  <2> QED BY <1>1, <2>3 DEF AfterCreate
<1>2. CASE j \notin Interruptible
  BY <1>2, ResumeGood DEF AfterCreate, TypeInv
<1> QED BY <1>1, <1>2

\* The unit of work of CreateJobBuild and RetryJobBuild.
LEMMA CreateBuildType ==
  ASSUME TypeInv, NEW c \in Clients, CreateBuild(c)
  PROVE  TypeInv'
<1> DEFINE k == req[c].key
           j == req[c].job
<1>1. /\ c \in Procs /\ c \notin Workers
      /\ k \in KeyType /\ k.job \in Jobs /\ j \in Jobs \cup {NoJob}
  BY Assumptions DEF Procs, CreateBuild, TypeInv, ReqOK, Good, Keyed, Request
<1>2. PICK i \in IDs, n \in 1..MaxID :
        /\ \/ Insert(i, k.job, n, 0, InitialStatus(j))
           \/ Insert(i, k.job, k.num, n, "pending")
        /\ req' = [req EXCEPT ![c] = AfterCreate(c, j, i)]
  BY DEF CreateBuild
<1>3. TableOK' /\ RowsOK'
  <2>1. InitialStatus(j) \in Status /\ "pending" \in Status
    BY InitialStatusType DEF Status, Active
  <2>2. n \in Nat /\ k.num \in Nat /\ 0 \in Nat
    BY <1>1 DEF KeyType
  <2> QED BY <1>1, <1>2, <2>1, <2>2, InsertType DEF TypeInv
<1>4. ReqOK'
  BY <1>1, <1>2, AfterCreateGood, ReqStep DEF TypeInv
<1> QED BY <1>3, <1>4 DEF TypeInv

\* The same unit of work, rolled back.
LEMMA FailCreateType ==
  ASSUME TypeInv, NEW c \in Clients, FailCreate(c)
  PROVE  TypeInv'
BY IdleGood, ReqStep, TableSame DEF FailCreate, Procs, TypeInv

\* The jobs that EvaluateDownstreamJobs lists are jobs of the pipeline.
LEMMA EvaluateDownstreamJobsType ==
  ASSUME TypeInv, NEW p \in Procs, EvaluateDownstreamJobs(p)
  PROVE  TypeInv'
<1> DEFINE next == Downstream[req[p].key.job] \ paused
           r == [req[p] EXCEPT !.pc = "eval", !.rest = next]
<1>1. req[p] \in Request /\ req[p].key.job \in Jobs /\ Keyed(p, req[p])
  BY DEF EvaluateDownstreamJobs, TypeInv, ReqOK, Good, Keyed
<1>2. next \subseteq Jobs
  BY <1>1, Assumptions
<1>3. r \in Request /\ r.pc = "eval" /\ r.key = req[p].key
  BY <1>1, <1>2 DEF Request, PCs
<1>4. Good(p, r)
  BY <1>1, <1>3 DEF Good
<1>5. Good(p, Return(p))
  BY <1>1, ReturnGood DEF TypeInv
<1>6. Good(p, IF next = {} THEN Return(p) ELSE r)
  BY <1>4, <1>5
<1>7. req' = [req EXCEPT ![p] = IF next = {} THEN Return(p) ELSE r]
  BY DEF EvaluateDownstreamJobs
<1> QED BY <1>6, <1>7, ReqStep, TableSame DEF EvaluateDownstreamJobs, TypeInv

\* evaluateJobDownstream passes a job over, or creates a build of it.
LEMMA evaluateJobDownstreamType ==
  ASSUME TypeInv, NEW p \in Procs, evaluateJobDownstream(p)
  PROVE  TypeInv'
<1>1. PICK j \in req[p].rest :
        LET left == [req[p] EXCEPT !.rest = @ \ {j}]
        IN  \/ /\ req' = [req EXCEPT ![p] = IF left.rest = {} THEN Return(p) ELSE left]
               /\ UNCHANGED Table
            \/ \E i \in IDs, n \in 1..MaxID :
                 /\ Insert(i, j, n, 0, InitialStatus(j))
                 /\ req' = [req EXCEPT ![p] =
                      IF j \in Interruptible
                        THEN [left EXCEPT !.pc = "older", !.job = j, !.new = i]
                        ELSE IF left.rest = {} THEN Return(p) ELSE left]
  BY DEF evaluateJobDownstream
<1> DEFINE left == [req[p] EXCEPT !.rest = @ \ {j}]
<1>2. /\ req[p] \in Request /\ req[p].pc = "eval"
      /\ p \in Workers => Keyed(p, req[p]) /\ req[p].key.job \in Jobs
  BY DEF evaluateJobDownstream, TypeInv, ReqOK, Good, Keyed
<1>3. j \in Jobs
  BY <1>2 DEF Request
<1>4. Good(p, left)
  <2>1. left \in Request /\ left.pc = "eval" /\ left.key = req[p].key
    BY <1>2 DEF Request
  <2> QED BY <1>2, <2>1 DEF Good, Keyed
<1>5. Good(p, IF left.rest = {} THEN Return(p) ELSE left)
  BY <1>2, <1>4, ReturnGood DEF TypeInv
<1>6. CASE /\ req' = [req EXCEPT ![p] = IF left.rest = {} THEN Return(p) ELSE left]
           /\ UNCHANGED Table
  BY <1>5, <1>6, ReqStep, TableSame DEF TypeInv
<1>7. ASSUME NEW i \in IDs, NEW n \in 1..MaxID, Insert(i, j, n, 0, InitialStatus(j)),
             req' = [req EXCEPT ![p] =
                      IF j \in Interruptible
                        THEN [left EXCEPT !.pc = "older", !.job = j, !.new = i]
                        ELSE IF left.rest = {} THEN Return(p) ELSE left]
      PROVE  TypeInv'
  <2> DEFINE r == [left EXCEPT !.pc = "older", !.job = j, !.new = i]
  <2>1. Good(p, r)
    <3>1. left \in Request /\ (p \in Workers => left.key.job \in Jobs)
      BY <1>2, <1>4 DEF Good, Request
    <3>2. r \in Request /\ r.pc = "older" /\ r.key = left.key
      BY <1>3, <3>1, IDRange DEF Request, PCs
    <3> QED BY <3>1, <3>2 DEF Good, Keyed
  <2>2. ReqOK'
    <3>1. CASE j \in Interruptible
      BY <3>1, <1>7, <2>1, ReqStep DEF TypeInv
    <3>2. CASE j \notin Interruptible
      BY <3>2, <1>7, <1>5, ReqStep DEF TypeInv
    <3> QED BY <3>1, <3>2
  <2>3. InitialStatus(j) \in Status /\ n \in Nat
    BY InitialStatusType DEF Status, Active
  <2>4. TableOK' /\ RowsOK'
    BY <1>3, <1>7, <2>3, InsertType DEF TypeInv
  <2> QED BY <2>2, <2>4 DEF TypeInv
<1> QED BY <1>1, <1>6, <1>7

\* cancelOlderBuilds keeps the keys of rows.
LEMMA ListOlderBuildsType ==
  ASSUME TypeInv, NEW p \in Procs, ListOlderBuilds(p)
  PROVE  TypeInv'
<1> DEFINE older == FindActiveBuilds(req[p].job, req[p].new)
           keys == {Key(builds[i]) : i \in older}
           r == [req[p] EXCEPT !.pc = "cancel", !.todo = keys]
<1>1. /\ req[p] \in Request
      /\ p \in Workers => Keyed(p, req[p]) /\ req[p].key.job \in Jobs
  BY DEF ListOlderBuilds, TypeInv, ReqOK, Good, Keyed
<1>2. keys \subseteq KeyType
  BY RowKey DEF TypeInv, FindActiveBuilds
<1>3. r \in Request /\ r.pc = "cancel" /\ r.key = req[p].key
  BY <1>1, <1>2 DEF Request, PCs
<1>4. Good(p, r)
  BY <1>1, <1>3 DEF Good, Keyed
<1>5. Good(p, Resume(p)) /\ Good(p, IF older = {} THEN Resume(p) ELSE r)
  BY <1>1, <1>4, ResumeGood DEF TypeInv
<1>6. \/ req' = [req EXCEPT ![p] = IF older = {} THEN Resume(p) ELSE r]
      \/ req' = [req EXCEPT ![p] = Resume(p)]
  BY DEF ListOlderBuilds
<1> QED BY <1>5, <1>6, ReqStep, TableSame DEF ListOlderBuilds, TypeInv

\* ... and writes them back one by one.
LEMMA CancelOlderBuildType ==
  ASSUME TypeInv, NEW p \in Procs, CancelOlderBuild(p)
  PROVE  TypeInv'
<1>1. PICK k \in req[p].todo :
        /\ Update(k, "cancelled") \/ UNCHANGED Table
        /\ req' = [req EXCEPT ![p] =
             IF req[p].todo = {k} THEN Resume(p) ELSE [req[p] EXCEPT !.todo = @ \ {k}]]
  BY DEF CancelOlderBuild
<1> DEFINE r == [req[p] EXCEPT !.todo = @ \ {k}]
<1>2. /\ req[p] \in Request /\ req[p].pc = "cancel"
      /\ p \in Workers => Keyed(p, req[p]) /\ req[p].key.job \in Jobs
  BY DEF CancelOlderBuild, TypeInv, ReqOK, Good, Keyed
<1>3. r \in Request /\ r.pc = "cancel" /\ r.key = req[p].key
  BY <1>2 DEF Request
<1>4. Good(p, r)
  BY <1>2, <1>3 DEF Good, Keyed
<1>5. Good(p, IF req[p].todo = {k} THEN Resume(p) ELSE r)
  BY <1>2, <1>4, ResumeGood DEF TypeInv
<1>6. ReqOK'
  BY <1>1, <1>5, ReqStep DEF TypeInv
<1>7. TableOK' /\ RowsOK'
  BY <1>1, UpdateType, TableSame DEF TypeInv, Status, Terminal
<1> QED BY <1>6, <1>7 DEF TypeInv

\* A pin keeps the keys of rows too.
LEMMA cancelMismatchedPendingBuildsType ==
  ASSUME TypeInv, NEW c \in Clients, NEW j \in Jobs, cancelMismatchedPendingBuilds(c, j)
  PROVE  TypeInv'
<1>1. PICK other \in SUBSET Pending(j) \ {{}} :
        req' = [req EXCEPT ![c] = [Idle EXCEPT !.pc = "cancel", !.job = j,
                                               !.todo = {Key(builds[i]) : i \in other}]]
  BY DEF cancelMismatchedPendingBuilds
<1> DEFINE keys == {Key(builds[i]) : i \in other}
           r == [Idle EXCEPT !.pc = "cancel", !.job = j, !.todo = keys]
<1>2. c \in Procs /\ c \notin Workers
  BY Assumptions DEF Procs
<1>3. keys \subseteq KeyType
  BY RowKey DEF TypeInv, Pending
<1>4. r \in Request /\ r.pc = "cancel"
  BY <1>2, <1>3, IdleGood DEF Good, Request, PCs
<1>5. Good(c, r)
  BY <1>2, <1>4 DEF Good, Keyed
<1> QED
  BY <1>1, <1>2, <1>5, ReqStep, TableSame DEF cancelMismatchedPendingBuilds, TypeInv

\* A handler that has found a row keeps its key and a status to write.
LEMMA WillWriteGood ==
  ASSUME TypeInv, NEW c \in Clients, NEW i \in Rows, NEW st \in Status,
         NEW down \in BOOLEAN, WillWrite(c, i, st, down)
  PROVE  ReqOK'
<1> DEFINE r == [Idle EXCEPT !.pc = "write", !.key = Key(builds[i]),
                             !.id = i, !.st = st, !.down = down]
<1>1. c \in Procs /\ i \in IDs /\ Key(builds[i]) \in KeyType /\ Key(builds[i]).job \in Jobs
  BY RowKey DEF Procs, Rows, TypeInv
<1>2. r \in Request /\ r.pc = "write" /\ r.key = Key(builds[i]) /\ r.st = st
  BY <1>1, IdleGood, IDRange DEF Good, Request, PCs
<1>3. Good(c, r)
  BY <1>1, <1>2 DEF Good
<1> QED BY <1>1, <1>3, ReqStep DEF WillWrite, TypeInv

\* CancelJobBuild is such a handler.
LEMMA CancelJobBuildType ==
  ASSUME TypeInv, NEW c \in Clients, NEW k, CancelJobBuild(c, k)
  PROVE  TypeInv'
<1>1. PICK i \in Rows : WillWrite(c, i, "cancelled", FALSE)
  BY DEF CancelJobBuild, Find
<1> QED BY <1>1, WillWriteGood, TableSame DEF CancelJobBuild, TypeInv, Status, Terminal

\* So is MarkBuildAsWarning.
LEMMA MarkBuildAsWarningType ==
  ASSUME TypeInv, NEW c \in Clients, NEW k, MarkBuildAsWarning(c, k)
  PROVE  TypeInv'
<1>1. PICK i \in Rows : WillWrite(c, i, "warning", TRUE)
  BY DEF MarkBuildAsWarning, Find
<1> QED BY <1>1, WillWriteGood, TableSame DEF MarkBuildAsWarning, TypeInv, Status, Terminal

\* A vote keeps the id of the row that was found waiting.
LEMMA VoteType ==
  ASSUME TypeInv, NEW c \in Clients, NEW k \in KeyType, k.job \in Jobs, NEW u \in Users,
         NEW action \in {"approved", "rejected"}, Vote(c, k, u, action)
  PROVE  TypeInv'
<1>1. PICK i \in IDs :
        req' = [req EXCEPT ![c] = [Idle EXCEPT !.pc = "vote", !.key = k, !.id = i,
                                               !.user = u, !.st = action]]
  BY DEF Vote, Find, Rows
<1> DEFINE r == [Idle EXCEPT !.pc = "vote", !.key = k, !.id = i, !.user = u, !.st = action]
<1>2. c \in Procs
  BY DEF Procs
<1>3. r \in Request /\ r.pc = "vote" /\ r.key = k /\ r.id = i /\ r.st = action
  BY <1>2, IdleGood, IDRange DEF Good, Request, PCs
<1>4. Good(c, r)
  BY <1>3 DEF Good
<1> QED BY <1>1, <1>2, <1>4, ReqStep, TableSame DEF Vote, TypeInv

\* What CreateApproval stores is a vote; a rejection goes on to write a status.
LEMMA CreateApprovalType ==
  ASSUME TypeInv, NEW c \in Clients, CreateApproval(c)
  PROVE  TypeInv'
<1> DEFINE r == req[c]
           q == IF r.st = "approved" THEN [r EXCEPT !.pc = "count"]
                ELSE [r EXCEPT !.pc = "write", !.st = "failed"]
<1>1. /\ c \in Procs /\ r \in Request /\ r.key.job \in Jobs /\ r.id \in IDs
      /\ r.st \in {"approved", "rejected"}
  BY DEF Procs, CreateApproval, TypeInv, ReqOK, Good, Keyed
<1>2. CASE Exists(r.id) /\ votes[r.id][r.user] = "none"
  <2>1. votes' = [votes EXCEPT ![r.id][r.user] = r.st]
    BY <1>2 DEF CreateApproval
  <2>2. votes' \in [IDs -> [Users -> {"none", "approved", "rejected"}]]
    BY <1>1, <2>1 DEF TypeInv, TableOK
  <2>3. TableOK' /\ RowsOK'
    BY <2>2 DEF CreateApproval, TypeInv, TableOK, RowsOK, Exists
  <2>4. Good(c, q)
    <3>1. CASE r.st = "approved"
      <4>1. q \in Request /\ q.pc = "count" /\ q.key = r.key /\ q.id = r.id
        BY <1>1, <3>1 DEF Request, PCs
      <4> QED BY <1>1, <4>1 DEF Good
    <3>2. CASE r.st # "approved"
      <4>1. q \in Request /\ q.pc = "write" /\ q.key = r.key /\ q.st = "failed"
        BY <1>1, <3>2 DEF Request, PCs, Status, Terminal
      <4> QED BY <1>1, <4>1 DEF Good, Status, Terminal
    <3> QED BY <3>1, <3>2
  <2>5. req' = [req EXCEPT ![c] = q]
    BY <1>2 DEF CreateApproval
  <2> QED BY <1>1, <2>3, <2>4, <2>5, ReqStep DEF TypeInv
<1>3. CASE ~(Exists(r.id) /\ votes[r.id][r.user] = "none")
  <2>1. req' = [req EXCEPT ![c] = Idle] /\ UNCHANGED Table
    BY <1>3 DEF CreateApproval, Table
  <2> QED BY <1>1, <2>1, IdleGood, ReqStep, TableSame DEF TypeInv
<1> QED BY <1>2, <1>3

\* An approval that was the last one needed goes on to write a status.
LEMMA ApproveBuildType ==
  ASSUME TypeInv, NEW c \in Clients, ApproveBuild(c)
  PROVE  TypeInv'
<1> DEFINE r == req[c]
           enough == Cardinality(Approvals(r.id)) >= ApproveCount[r.key.job]
           q == [r EXCEPT !.pc = "write", !.st = "pending"]
<1>1. c \in Procs /\ r \in Request /\ r.key.job \in Jobs
  BY DEF Procs, ApproveBuild, TypeInv, ReqOK, Good, Keyed
<1>2. q \in Request /\ q.pc = "write" /\ q.key = r.key /\ q.st = "pending"
  BY <1>1 DEF Request, PCs, Status, Active
<1>3. Good(c, q)
  BY <1>1, <1>2 DEF Good, Status, Active
<1>4. Good(c, IF enough THEN q ELSE Idle)
  BY <1>1, <1>3, IdleGood
<1>5. req' = [req EXCEPT ![c] = IF enough THEN q ELSE Idle]
  BY DEF ApproveBuild
<1> QED BY <1>1, <1>4, <1>5, ReqStep, TableSame DEF ApproveBuild, TypeInv

\* The Update of a handler writes the status that the request holds; what is
\* evaluated next belongs to a job.
LEMMA WriteBackType ==
  ASSUME TypeInv, NEW p \in Procs, WriteBack(p)
  PROVE  TypeInv'
<1> DEFINE r == [req[p] EXCEPT !.pc = "down", !.blind = FALSE]
           more == req[p].down /\ Find(req[p].key) # {}
<1>1. /\ req[p] \in Request /\ req[p].key.job \in Jobs /\ req[p].st \in Status
      /\ Keyed(p, req[p])
  BY DEF WriteBack, TypeInv, ReqOK, Good, Keyed
<1>2. r \in Request /\ r.pc = "down" /\ r.key = req[p].key
  BY <1>1 DEF Request, PCs
<1>3. Good(p, r)
  BY <1>1, <1>2 DEF Good
<1>4. Good(p, IF more THEN r ELSE Return(p))
  BY <1>1, <1>3, ReturnGood DEF TypeInv
<1>5. req' = [req EXCEPT ![p] = IF more THEN r ELSE Return(p)]
  BY DEF WriteBack
<1>6. ReqOK'
  BY <1>4, <1>5, ReqStep DEF TypeInv
<1>7. TableOK' /\ RowsOK'
  BY <1>1, UpdateType DEF WriteBack, TypeInv
<1> QED BY <1>6, <1>7 DEF TypeInv

\* A handler that returns an error leaves the table as it is.
LEMMA ReturnErrorType ==
  ASSUME TypeInv, NEW p \in Procs, ReturnError(p)
  PROVE  TypeInv'
<1>1. p \in Workers => req[p].pc \in {"claim", "checked"} \/ Keyed(p, req[p])
  BY DEF Keyed, ReturnError
<1>2. Good(p, IF req[p].pc \in {"claim", "checked"} THEN Idle ELSE Return(p))
  BY <1>1, IdleGood, ReturnGood DEF TypeInv
<1> QED BY <1>2, ReqStep, TableSame DEF ReturnError, TypeInv

\* DeleteJobBuild.
LEMMA DeleteJobBuildType ==
  ASSUME TypeInv, NEW c, NEW k, DeleteJobBuild(c, k)
  PROVE  TypeInv'
<1>1. TableOK' /\ RowsOK'
  BY DeleteType DEF DeleteJobBuild, TypeInv
<1> QED BY <1>1 DEF DeleteJobBuild, TypeInv, ReqOK, Good, Keyed

\* Pausing and unpausing move only the set of paused jobs.
LEMMA PauseType ==
  ASSUME TypeInv, NEW j \in Jobs, PauseJob(j) \/ UnpauseJob(j)
  PROVE  TypeInv'
<1>1. paused' \subseteq Jobs /\ UNCHANGED <<builds, votes, req, lastID, gone, irregular>>
  BY DEF PauseJob, UnpauseJob, TypeInv, TableOK
<1>2. TableOK' /\ RowsOK'
  BY <1>1 DEF TypeInv, TableOK, RowsOK, Exists
<1> QED BY <1>1, <1>2 DEF TypeInv, ReqOK, Good, Keyed

\* A claim names a row that was pending and the job it was found for.
LEMMA NextWorkType ==
  ASSUME TypeInv, NEW w \in Workers, NEW j \in Jobs, NextWork(w, j)
  PROVE  TypeInv'
<1>1. PICK i \in IDs :
        req' = [req EXCEPT ![w] = [Idle EXCEPT !.pc = "claim", !.id = i, !.job = j]]
  BY DEF NextWork, FindOldestPending, Pending
<1> DEFINE r == [Idle EXCEPT !.pc = "claim", !.id = i, !.job = j]
<1>2. w \in Procs
  BY DEF Procs
<1>3. r \in Request /\ r.pc = "claim" /\ r.id = i /\ r.job = j
  BY <1>2, IdleGood, IDRange DEF Good, Request, PCs
<1>4. Good(w, r)
  BY <1>3 DEF Good, Keyed
<1> QED BY <1>1, <1>2, <1>4, ReqStep, TableSame DEF NextWork, TypeInv

\* StartPendingBuild, in one step or in two.
LEMMA StartPendingBuildType ==
  ASSUME TypeInv, NEW w \in Workers, StartPendingBuild(w)
  PROVE  TypeInv'
<1>1. w \in Procs /\ req[w].pc = "claim"
  BY DEF Procs, StartPendingBuild
<1>2. CASE req' = [req EXCEPT ![w] = Idle] /\ UNCHANGED Table
  BY <1>1, <1>2, IdleGood, ReqStep, TableSame DEF TypeInv
<1>3. CASE StartPending(w)
  BY <1>1, <1>3, StartPendingType
<1>4. CASE req' = [req EXCEPT ![w].pc = "checked"] /\ UNCHANGED Table
  <2> DEFINE r == [req[w] EXCEPT !.pc = "checked"]
  <2>1. req[w] \in Request /\ req[w].job \in Jobs /\ req[w].id \in IDs
    BY <1>1 DEF TypeInv, ReqOK, Good
  <2>2. r \in Request /\ r.pc = "checked" /\ r.job = req[w].job /\ r.id = req[w].id
    BY <2>1 DEF Request, PCs
  <2>3. Good(w, r)
    BY <2>1, <2>2 DEF Good, Keyed
  <2>4. req' = [req EXCEPT ![w] = r]
    BY <1>4
  <2> QED BY <1>1, <1>4, <2>3, <2>4, ReqStep, TableSame DEF TypeInv
<1> QED BY <1>2, <1>3, <1>4 DEF StartPendingBuild

\* What a worker reports is a status, also when it is turned into "cancelled".
LEMMA UpdateJobBuildType ==
  ASSUME TypeInv, NEW w \in Workers, UpdateJobBuild(w)
  PROVE  TypeInv'
<1>1. PICK st \in Reports(w), copy \in BOOLEAN, down \in BOOLEAN, blind \in BOOLEAN :
        req' = [req EXCEPT ![w] =
          [req[w] EXCEPT !.pc = "write", !.blind = blind,
                         !.st = IF blind THEN st ELSE Reported(req[w].key, st),
                         !.local = IF copy THEN @ ELSE st, !.down = down]]
  BY DEF UpdateJobBuild
<1> DEFINE rep == IF blind THEN st ELSE Reported(req[w].key, st)
           loc == IF copy THEN req[w].local ELSE st
           r == [req[w] EXCEPT !.pc = "write", !.blind = blind, !.st = rep, !.local = loc,
                               !.down = down]
<1>2. w \in Procs /\ req[w] \in Request /\ req[w].key.job \in Jobs
  BY DEF Procs, UpdateJobBuild, TypeInv, ReqOK, Good, Keyed
<1>3. st \in Status /\ rep \in Status /\ loc \in Status
  BY <1>2 DEF Reports, Reported, Request, Status, Active, Terminal
<1>4. r \in Request /\ r.pc = "write" /\ r.key = req[w].key /\ r.st = rep
  BY <1>2, <1>3 DEF Request, PCs
<1>5. Good(w, r)
  BY <1>2, <1>3, <1>4 DEF Good
<1>6. req' = [req EXCEPT ![w] = r]
  BY <1>1
<1> QED BY <1>2, <1>5, <1>6, ReqStep, TableSame DEF UpdateJobBuild, TypeInv

\* The worker's deletion of its build.
LEMMA deleteBuildType ==
  ASSUME TypeInv, NEW w \in Workers, deleteBuild(w)
  PROVE  TypeInv'
<1>1. TableOK' /\ RowsOK'
  BY DeleteType DEF deleteBuild, TypeInv
<1>2. ReqOK'
  BY IdleGood, ReqStep DEF deleteBuild, TypeInv, Procs
<1> QED BY <1>1, <1>2 DEF TypeInv

\* A worker that ends leaves the table alone.
LEMMA StopWorkType ==
  ASSUME TypeInv, NEW w \in Workers, StopWork(w)
  PROVE  TypeInv'
BY IdleGood, ReqStep, TableSame DEF StopWork, TypeInv, Procs

\* A restart fails the started rows and keeps only the executions of separated
\* workers.
LEMMA RestartType ==
  ASSUME TypeInv, Restart
  PROVE  TypeInv'
<1>1. builds' \in [IDs -> Row]
  BY DEF Restart, TypeInv, TableOK, Row, Status, Terminal
<1>2. irregular' \subseteq IDs
  BY DEF Restart, TypeInv, TableOK
<1>3. TableOK'
  BY <1>1, <1>2 DEF Restart, TypeInv, TableOK
<1>4. \A i \in IDs : builds'[i].job = builds[i].job /\ (Exists(i)' => Exists(i))
  BY DEF Restart, TypeInv, TableOK, Row, Exists
<1>5. RowsOK'
  BY <1>4 DEF Restart, TypeInv, RowsOK
<1>6. \A p \in Procs : Good(p, req'[p]) /\ req'[p] \in Request
  <2> SUFFICES ASSUME NEW p \in Procs PROVE Good(p, req'[p])
    BY DEF Good
  <2>1. CASE p \in Workers \ Embedded /\ req[p].pc \notin {"idle", "claim", "checked"}
    BY <2>1, ReturnGood DEF Restart, TypeInv, Keyed
  <2>2. CASE ~(p \in Workers \ Embedded /\ req[p].pc \notin {"idle", "claim", "checked"})
    BY <2>2, IdleGood DEF Restart
  <2> QED BY <2>1, <2>2
<1>7. ReqOK'
  <2>1. req' \in [Procs -> Request]
    BY <1>6 DEF Restart
  <2> QED BY <1>6, <2>1 DEF ReqOK, Good, Keyed
<1> QED BY <1>3, <1>5, <1>7 DEF TypeInv

\* The empty table is well typed.
LEMMA TypeInit == Init => TypeInv
<1> SUFFICES ASSUME Init PROVE TypeInv
  OBVIOUS
<1>1. NoRow \in Row /\ NoVotes \in [Users -> {"none", "approved", "rejected"}]
  BY DEF NoRow, Row, NoVotes
<1>2. TableOK
  BY <1>1, IDRange DEF Init, TableOK
<1>3. RowsOK
  BY DEF Init, RowsOK, Exists, NoRow
<1>4. \A p \in Procs : req[p] = Idle /\ Good(p, req[p])
  BY IdleGood DEF Init
<1>5. ReqOK
  BY <1>4 DEF Init, ReqOK, Good
<1> QED BY <1>2, <1>3, <1>5 DEF TypeInv

\* Every step keeps TypeInv: one case per action.
LEMMA TypeNext == TypeInv /\ [Next]_vars => TypeInv'
<1> SUFFICES ASSUME TypeInv, [Next]_vars PROVE TypeInv'
  OBVIOUS
<1>1. ASSUME NEW k \in Keys PROVE k \in KeyType /\ k.job \in Jobs
  BY <1>1, RowKey DEF Keys, Rows, TypeInv
<1>2. ASSUME NEW c \in Clients, Handler(c) PROVE TypeInv'
  BY <1>1, <1>2, CreateJobBuildType, RetryJobBuildType, CreateBuildType, FailCreateType,
     cancelMismatchedPendingBuildsType, CancelJobBuildType, MarkBuildAsWarningType,
     DeleteJobBuildType, VoteType, CreateApprovalType, ApproveBuildType DEF Handler
<1>3. ASSUME NEW w \in Workers, Execution(w) PROVE TypeInv'
  <2>1. CASE StartCheckedBuild(w)
    BY <2>1, StartPendingType DEF StartCheckedBuild
  <2> QED BY <1>3, <2>1, NextWorkType, StartPendingBuildType, UpdateJobBuildType,
             deleteBuildType, StopWorkType DEF Execution
<1>4. ASSUME NEW p \in Procs, Common(p) PROVE TypeInv'
  BY <1>4, WriteBackType, EvaluateDownstreamJobsType, evaluateJobDownstreamType,
     ListOlderBuildsType, CancelOlderBuildType, ReturnErrorType DEF Common
<1>5. CASE UNCHANGED vars
  BY <1>5, TableSame DEF vars, Table, TypeInv, ReqOK, Good, Keyed
<1> QED BY <1>2, <1>3, <1>4, <1>5, PauseType, RestartType DEF Next

\* What failing statements leave behind is a set of builds.
SlipsOK == ungated \subseteq IDs /\ spared \subseteq IDs

\* The statements that may fail unnoticed, and Delete, touch it.
LEMMA SlipsNext == SlipsOK /\ [Next]_vars => SlipsOK'
<1> SUFFICES ASSUME SlipsOK, [Next]_vars PROVE SlipsOK'
  OBVIOUS
<1>1. CASE UNCHANGED slips
  BY <1>1 DEF slips, SlipsOK
<1>2. ASSUME NEW k, Delete(k) PROVE SlipsOK'
  BY <1>2 DEF Delete, SlipsOK
<1>3. ASSUME NEW c \in Clients, Handler(c) PROVE SlipsOK'
  <2>1. CASE CreateBuild(c)
    BY <1>1, <2>1 DEF CreateBuild, SlipsOK, FindActiveBuilds
  <2> QED BY <1>1, <1>2, <1>3, <2>1
          DEF Handler, CreateJobBuild, RetryJobBuild, FailCreate, CreateApproval, slips,
              cancelMismatchedPendingBuilds, CancelJobBuild, MarkBuildAsWarning, Vote,
              ApproveBuild, DeleteJobBuild
<1>4. ASSUME NEW w \in Workers, Execution(w) PROVE SlipsOK'
  BY <1>1, <1>2, <1>4
     DEF Execution, NextWork, StartPendingBuild, StartCheckedBuild, StartPending, slips,
         UpdateJobBuild, deleteBuild, StopWork
<1>5. ASSUME NEW p \in Procs, Common(p) PROVE SlipsOK'
  <2>1. CASE ListOlderBuilds(p) \/ CancelOlderBuild(p)
    BY <1>1, <2>1 DEF ListOlderBuilds, CancelOlderBuild, Uncancelled, SlipsOK
  <2> QED BY <1>1, <1>5, <2>1
          DEF Common, WriteBack, ReturnError, EvaluateDownstreamJobs, evaluateJobDownstream
<1>6. ASSUME NEW j \in Jobs, PauseJob(j) \/ UnpauseJob(j) PROVE SlipsOK'
  BY <1>1, <1>6 DEF PauseJob, UnpauseJob, slips
<1>7. CASE Restart
  BY <1>7 DEF Restart, SlipsOK, Uncancelled
<1> QED BY <1>1, <1>3, <1>4, <1>5, <1>6, <1>7 DEF Next, vars

\* Every reachable state is typed: the rows that the handlers, workers and
\* restarts leave have a status of the schema, for any number of builds.
THEOREM TypeCorrect == Spec => []TypeOK
<1>1. TypeInv /\ SlipsOK => TypeOK
  BY DEF TypeInv, TableOK, ReqOK, SlipsOK, TypeOK
<1>2. Init => SlipsOK
  BY DEF Init, SlipsOK
<1> QED BY <1>1, <1>2, TypeInit, TypeNext, SlipsNext, PTL DEF Spec

-----------------------------------------------------------------------------
(***************************************************************************)
(* The limits on running builds, for any number of workers: on a database  *)
(* whose units of work are serialised, the regular builds of a job never   *)
(* outnumber its concurrency, and jobs that share a serial group never run *)
(* regular builds at the same time.                                        *)
(*                                                                         *)
(* The argument: only StartPending makes a regular row "started", in the   *)
(* unit of work that counted.  It counts the builds of the job that the    *)
(* claim names, so the proof needs that a claimed row which is regular     *)
(* still belongs to that job (ClaimFits): a row that took over the id of a *)
(* deleted one is irregular.                                               *)
(***************************************************************************)
Claiming(r) == r.pc \in {"claim", "checked"}

ClaimFits ==
  \A w \in Procs : Claiming(req[w]) =>
    /\ req[w].id <= lastID
    /\ Exists(req[w].id) /\ req[w].id \notin irregular =>
         builds[req[w].id].job = req[w].job
    /\ req[w].pc = "checked" => ~SQLite

LimitInv == TypeInv /\ ClaimFits /\ SlotsRespected /\ SerialGroupsRespected

-----------------------------------------------------------------------------
(* Where claims come from.                                                 *)

\* No handler returns into a claim.
LEMMA PCAfter ==
  ASSUME TypeInv, NEW p \in Procs
  PROVE  /\ ~Claiming(Idle)
         /\ ~Claiming(Return(p))
         /\ ~Claiming(Resume(p))
         /\ \A j, i : ~Claiming(AfterCreate(p, j, i))
<1>1. ~Claiming(Idle) /\ Idle \in Request /\ req[p] \in Request
  BY IdleGood DEF Claiming, Idle, Good, TypeInv, ReqOK
<1>2. ~Claiming(Return(p))
  BY <1>1 DEF Return, Request, Claiming
<1>3. ~Claiming(Resume(p))
  BY <1>1, <1>2 DEF Resume, Request, Claiming
<1>4. \A j, i : ~Claiming(AfterCreate(p, j, i))
  BY <1>1, <1>3 DEF AfterCreate, Request, Claiming
<1> QED BY <1>1, <1>2, <1>3, <1>4

\* A claim is old, or NextWork has just made it for a row that is pending.
OldClaim(q) ==
  /\ Claiming(req[q]) /\ req'[q].id = req[q].id /\ req'[q].job = req[q].job
  /\ req'[q].pc = "checked" => req[q].pc = "checked" \/ ~SQLite

NewClaim(q) ==
  /\ UNCHANGED Table
  /\ req'[q].pc = "claim" /\ req'[q].id \in IDs
  /\ builds[req'[q].id].status = "pending"
  /\ builds[req'[q].id].job = req'[q].job

\* Process p moves, to no claim, and no other does.
Moves(p) == ~Claiming(req'[p]) /\ \A q \in Procs \ {p} : req'[q] = req[q]

\* No step of a request handler makes a claim.
LEMMA HandlerMoves ==
  ASSUME TypeInv, NEW c \in Clients, Handler(c)
  PROVE  Moves(c) \/ UNCHANGED req
<1>1. c \in Procs /\ Idle \in Request /\ req[c] \in Request /\ req \in [Procs -> Request]
  BY IdleGood DEF Procs, Good, TypeInv, ReqOK
<1>2. ASSUME NEW j \in Jobs, CreateJobBuild(c, j) PROVE Moves(c)
  <2>1. PICK read : req' = [req EXCEPT ![c] =
          [Idle EXCEPT !.pc = "create", !.job = read,
                       !.key = [job |-> j, num |-> 0, sub |-> 0]]]
    BY <1>2 DEF CreateJobBuild
  <2> QED BY <1>1, <2>1 DEF Moves, Claiming, Request
<1>3. ASSUME NEW j \in Jobs, cancelMismatchedPendingBuilds(c, j) PROVE Moves(c)
  <2>1. PICK t : req' = [req EXCEPT ![c] = [Idle EXCEPT !.pc = "cancel", !.job = j, !.todo = t]]
    BY <1>3 DEF cancelMismatchedPendingBuilds
  <2> QED BY <1>1, <2>1 DEF Moves, Claiming, Request
<1>4. CASE CreateBuild(c) \/ FailCreate(c)
  BY <1>1, <1>4, PCAfter DEF CreateBuild, FailCreate, Moves
<1>5. ASSUME NEW k, RetryJobBuild(c, k) PROVE Moves(c)
  BY <1>1, <1>5 DEF RetryJobBuild, Moves, Claiming, Request
<1>6. ASSUME NEW k, CancelJobBuild(c, k) \/ MarkBuildAsWarning(c, k) PROVE Moves(c)
  <2>1. PICK i, st, down : WillWrite(c, i, st, down)
    BY <1>6 DEF CancelJobBuild, MarkBuildAsWarning
  <2> QED BY <1>1, <2>1 DEF WillWrite, Moves, Claiming, Request
<1>7. ASSUME NEW k, NEW u, NEW x, Vote(c, k, u, x) PROVE Moves(c)
  <2>1. PICK i : req' = [req EXCEPT ![c] = [Idle EXCEPT !.pc = "vote", !.key = k, !.id = i,
                                                          !.user = u, !.st = x]]
    BY <1>7 DEF Vote
  <2> QED BY <1>1, <2>1 DEF Moves, Claiming, Request
<1>8. ASSUME CreateApproval(c) PROVE Moves(c)
  <2>1. \/ req' = [req EXCEPT ![c] = Idle]
        \/ req' = [req EXCEPT ![c] = [req[c] EXCEPT !.pc = "count"]]
        \/ req' = [req EXCEPT ![c] = [req[c] EXCEPT !.pc = "write", !.st = "failed"]]
    BY <1>8 DEF CreateApproval
  <2>2. /\ [req[c] EXCEPT !.pc = "count"].pc = "count"
        /\ [req[c] EXCEPT !.pc = "write", !.st = "failed"].pc = "write"
    BY <1>1 DEF Request
  <2> QED BY <1>1, <2>1, <2>2, PCAfter DEF Moves, Claiming
<1>9. ASSUME ApproveBuild(c) PROVE Moves(c)
  <2>1. \/ req' = [req EXCEPT ![c] = Idle]
        \/ req' = [req EXCEPT ![c] = [req[c] EXCEPT !.pc = "write", !.st = "pending"]]
    BY <1>9 DEF ApproveBuild
  <2>2. [req[c] EXCEPT !.pc = "write", !.st = "pending"].pc = "write"
    BY <1>1 DEF Request
  <2> QED BY <1>1, <2>1, <2>2, PCAfter DEF Moves, Claiming
<1> QED BY <1>2, <1>3, <1>4, <1>5, <1>6, <1>7, <1>8, <1>9 DEF Handler, DeleteJobBuild

\* Nor does a step that handlers and workers share.
LEMMA CommonMoves ==
  ASSUME TypeInv, NEW p \in Procs, Common(p)
  PROVE  Moves(p)
<1>1. req[p] \in Request /\ req \in [Procs -> Request]
  BY DEF TypeInv, ReqOK
<1>2. CASE WriteBack(p)
  BY <1>1, <1>2, PCAfter DEF WriteBack, Moves, Claiming, Request
<1>3. CASE EvaluateDownstreamJobs(p)
  BY <1>1, <1>3, PCAfter DEF EvaluateDownstreamJobs, Moves, Claiming, Request
<1>4. CASE evaluateJobDownstream(p)
  <2>1. req[p].pc = "eval"
    BY <1>4 DEF evaluateJobDownstream
  <2>2. PICK j, i, left : /\ left = [req[p] EXCEPT !.rest = @ \ {j}]
                          /\ \/ req' = [req EXCEPT ![p] = Return(p)]
                             \/ req' = [req EXCEPT ![p] = left]
                             \/ req' = [req EXCEPT ![p] =
                                  [left EXCEPT !.pc = "older", !.job = j, !.new = i]]
    BY <1>4 DEF evaluateJobDownstream
  <2>3. left.pc = "eval" /\ [left EXCEPT !.pc = "older", !.job = j, !.new = i].pc = "older"
    BY <1>1, <2>1, <2>2 DEF Request
  <2> QED BY <1>1, <2>2, <2>3, PCAfter DEF Moves, Claiming
<1>5. CASE ListOlderBuilds(p)
  <2>1. PICK t : \/ req' = [req EXCEPT ![p] = Resume(p)]
                 \/ req' = [req EXCEPT ![p] = [req[p] EXCEPT !.pc = "cancel", !.todo = t]]
    BY <1>5 DEF ListOlderBuilds
  <2>2. [req[p] EXCEPT !.pc = "cancel", !.todo = t].pc = "cancel"
    BY <1>1 DEF Request
  <2> QED BY <1>1, <2>1, <2>2, PCAfter DEF Moves, Claiming
<1>6. CASE CancelOlderBuild(p)
  BY <1>1, <1>6, PCAfter DEF CancelOlderBuild, Moves, Claiming, Request
<1>7. CASE ReturnError(p)
  BY <1>1, <1>7, PCAfter DEF ReturnError, Moves
<1> QED BY <1>2, <1>3, <1>4, <1>5, <1>6, <1>7 DEF Common

\* A worker's step keeps the other claims, and makes one only for a row that
\* is pending in the job that it names.
LEMMA ExecutionClaims ==
  ASSUME TypeInv, NEW w \in Workers, Execution(w), NEW q \in Procs, Claiming(req'[q])
  PROVE  OldClaim(q) \/ NewClaim(q)
<1>1. w \in Procs /\ Idle \in Request /\ req[w] \in Request /\ req \in [Procs -> Request]
  BY IdleGood DEF Procs, Good, TypeInv, ReqOK
<1>2. CASE Moves(w)
  BY <1>2 DEF Moves, OldClaim
<1>3. ASSUME NEW j \in Jobs, NextWork(w, j) PROVE OldClaim(q) \/ NewClaim(q)
  <2>1. PICK i \in IDs :
          /\ builds[i].status = "pending" /\ builds[i].job = j
          /\ req' = [req EXCEPT ![w] = [Idle EXCEPT !.pc = "claim", !.id = i, !.job = j]]
    BY <1>3 DEF NextWork, FindOldestPending, Pending
  <2>2. CASE q = w
    <3>1. req'[w].pc = "claim" /\ req'[w].id = i /\ req'[w].job = j
      BY <1>1, <2>1 DEF Request
    <3> QED BY <1>3, <2>1, <2>2, <3>1 DEF NewClaim, NextWork
  <2>3. CASE q # w
    BY <1>1, <2>1, <2>3 DEF OldClaim
  <2> QED BY <2>2, <2>3
<1>4. ASSUME req[w].pc \in {"claim", "checked"}, StartPending(w) PROVE Moves(w)
  <2>1. PICK r \in {Idle,
                     [Idle EXCEPT !.pc = "run", !.id = req[w].id, !.local = "started",
                        !.key = [job |-> req[w].job, num |-> builds[req[w].id].num,
                                 sub |-> builds[req[w].id].sub]]} :
          req' = [req EXCEPT ![w] = r]
    BY <1>4 DEF StartPending
  <2>2. ~Claiming(r)
    BY <1>1, <2>1, PCAfter DEF Claiming, Request
  <2> QED BY <1>1, <2>1, <2>2 DEF Moves
<1>5. CASE StartPendingBuild(w)
  <2>1. CASE req' = [req EXCEPT ![w] = Idle]
    BY <1>1, <1>2, <2>1, PCAfter DEF Moves
  <2>2. CASE ~SQLite /\ req' = [req EXCEPT ![w].pc = "checked"]
    <3>1. req[w].pc = "claim"
      BY <1>5 DEF StartPendingBuild
    <3>2. req'[w].id = req[w].id /\ req'[w].job = req[w].job
      BY <1>1, <2>2 DEF Request
    <3> QED BY <1>1, <2>2, <3>1, <3>2 DEF OldClaim, Claiming
  <2> QED BY <1>2, <1>4, <1>5, <2>1, <2>2, Assumptions DEF StartPendingBuild
<1>6. CASE StartCheckedBuild(w)
  BY <1>2, <1>4, <1>6 DEF StartCheckedBuild
<1>7. CASE UpdateJobBuild(w)
  <2>1. PICK reported \in Reports(w), copy \in BOOLEAN, down \in BOOLEAN, blind \in BOOLEAN :
          req' = [req EXCEPT ![w] =
            [req[w] EXCEPT !.pc = "write", !.blind = blind,
                           !.st = IF blind THEN reported ELSE Reported(req[w].key, reported),
                           !.local = IF copy THEN @ ELSE reported, !.down = down]]
    BY <1>7 DEF UpdateJobBuild
  <2> DEFINE st    == IF blind THEN reported ELSE Reported(req[w].key, reported)
             local == IF copy THEN req[w].local ELSE reported
  <2>2. [req[w] EXCEPT !.pc = "write", !.blind = blind, !.st = st,
                       !.local = local, !.down = down].pc = "write"
    BY <1>1 DEF Request
  <2>3. Moves(w)
    BY <1>1, <2>1, <2>2 DEF Moves, Claiming
  <2> QED BY <1>2, <2>3
<1>8. CASE deleteBuild(w) \/ StopWork(w)
  BY <1>1, <1>2, <1>8, PCAfter DEF deleteBuild, StopWork, Moves
<1> QED BY <1>3, <1>5, <1>6, <1>7, <1>8 DEF Execution

\* So every claim after a step is an old one or was just made by NextWork.
LEMMA ClaimOrigin ==
  ASSUME TypeInv, Next, NEW q \in Procs, Claiming(req'[q])
  PROVE  OldClaim(q) \/ NewClaim(q)
<1>1. ASSUME NEW p \in Procs, Moves(p) \/ UNCHANGED req PROVE OldClaim(q)
  BY <1>1 DEF Moves, OldClaim
<1>2. ASSUME NEW c \in Clients, Handler(c) PROVE OldClaim(q)
  BY <1>1, <1>2, HandlerMoves DEF Procs
<1>3. ASSUME NEW p \in Procs, Common(p) PROVE OldClaim(q)
  BY <1>1, <1>3, CommonMoves
<1>4. ASSUME NEW j \in Jobs, PauseJob(j) \/ UnpauseJob(j) PROVE OldClaim(q)
  BY <1>4 DEF PauseJob, UnpauseJob, OldClaim
<1>5. CASE Restart
  <2>1. req'[q] \in {Idle, Return(q)}
    BY <1>5 DEF Restart
  <2> QED BY <2>1, PCAfter
<1> QED BY <1>2, <1>3, <1>4, <1>5, ExecutionClaims DEF Next

-----------------------------------------------------------------------------
(* What a step does to the table.                                          *)

\* The start of the build that worker w claimed, after the checks.
Starts(w) ==
  LET i == req[w].id
  IN  /\ Claiming(req[w]) /\ builds[i].status = "pending"
      /\ builds' = [builds EXCEPT ![i] = [builds[i] EXCEPT !.status = "started"]]
      /\ UNCHANGED <<lastID, irregular>>
      /\ req[w].pc = "claim" => Admissible(req[w].job)

\* Any other step: no regular build is started by it, a row keeps its job, and
\* a row that is new is irregular unless its id is.
Quiet ==
  /\ lastID <= lastID'
  /\ \A i \in IDs : /\ builds'[i].status = "started" /\ i \notin irregular' =>
                         builds[i].status = "started" /\ i \notin irregular
                    /\ Exists(i)' /\ i \notin irregular' /\ i <= lastID =>
                         Exists(i) /\ i \notin irregular
                    /\ Exists(i) /\ Exists(i)' => builds'[i].job = builds[i].job

\* A new row is not started, and is irregular when it takes over an id.
LEMMA InsertQuiet ==
  ASSUME TypeInv, NEW i \in IDs, NEW j \in Jobs, NEW n, NEW s,
         NEW st \in {"waiting", "pending"}, Insert(i, j, n, s, st)
  PROVE  Quiet
<1> DEFINE r == [job |-> j, num |-> n, sub |-> s, status |-> st]
<1>1. /\ builds \in [IDs -> Row] /\ lastID \in Int /\ i \in Int
      /\ \A k \in IDs : Exists(k) => k <= lastID
  BY DEF TypeInv, TableOK, RowsOK, IDs
<1>2. ~Exists(i)
  <2>1. CASE SQLite
    BY <2>1, <1>1 DEF Insert, IsNextID, Rows
  <2>2. CASE ~SQLite
    BY <2>2, <1>1 DEF Insert, IsNextID
  <2> QED BY <2>1, <2>2
<1>3. /\ builds'[i] = r /\ r.status = st /\ r.job = j
      /\ \A k \in IDs \ {i} : builds'[k] = builds[k]
  BY <1>1 DEF Insert
<1>4. /\ irregular \subseteq irregular' /\ lastID <= lastID'
      /\ i <= lastID => i \in irregular'
  BY <1>1 DEF Insert
<1> QED BY <1>2, <1>3, <1>4 DEF Quiet, Exists

\* A write to a row either follows the lifecycle, which never starts a build, or
\* makes the row irregular.
LEMMA UpdateQuiet ==
  ASSUME TypeInv, NEW k, NEW st \in Status, Update(k, st)
  PROVE  Quiet
<1>1. builds \in [IDs -> Row] /\ lastID \in Int
  BY DEF TypeInv, TableOK
<1>2. \A i \in IDs :
        /\ builds'[i].job = builds[i].job
        /\ builds'[i].status = IF i \in Find(k) THEN st ELSE builds[i].status
        /\ i \in Find(k) => Exists(i)
        /\ i \in Find(k) /\ i \notin irregular' => Lifecycle(builds[i].status, st)
  BY <1>1 DEF Update, Row, Find, Rows
<1>3. irregular \subseteq irregular' /\ lastID' = lastID
  BY DEF Update
<1>4. \A old : Lifecycle(old, "started") => old = "started"
  BY DEF Lifecycle
<1> QED BY <1>1, <1>2, <1>3, <1>4 DEF Quiet, Exists

\* A deletion starts nothing.
LEMMA DeleteQuiet ==
  ASSUME TypeInv, NEW k, Delete(k)
  PROVE  Quiet
<1>1. builds \in [IDs -> Row] /\ lastID \in Int
  BY DEF TypeInv, TableOK
<1>2. NoRow.status = "none"
  BY DEF NoRow
<1>3. \A i \in IDs : \/ builds'[i] = NoRow
                     \/ builds'[i] = builds[i] /\ (i \in irregular => i \in irregular')
  BY DEF Delete
<1> QED BY <1>1, <1>2, <1>3 DEF Quiet, Exists, Delete

\* A restart starts nothing.
LEMMA RestartQuiet == ASSUME TypeInv, Restart PROVE Quiet
<1>1. builds \in [IDs -> Row] /\ lastID \in Int
  BY DEF TypeInv, TableOK
<1>2. \A i \in IDs : /\ builds'[i].job = builds[i].job
                     /\ builds'[i].status # "started"
                     /\ Exists(i)' => Exists(i)
  BY <1>1 DEF Restart, Row, Exists
<1> QED BY <1>1, <1>2 DEF Quiet, Restart

\* Nor does a statement that only reads.
LEMMA SameQuiet ==
  ASSUME TypeInv, UNCHANGED <<builds, lastID, irregular>>
  PROVE  Quiet
BY DEF Quiet, TypeInv, TableOK, Exists

\* Hence only the claim of a worker makes a regular row started.
LEMMA TableStep == ASSUME TypeInv, Next PROVE Quiet \/ \E w \in Workers : Starts(w)
<1>1. CASE UNCHANGED Table
  BY <1>1, SameQuiet DEF Table
<1>2. ASSUME NEW c \in Clients, Handler(c) PROVE Quiet
  <2>1. CASE CreateBuild(c)
    <3>1. req[c].key.job \in Jobs
      BY <2>1 DEF CreateBuild, TypeInv, ReqOK, Good, Keyed, Procs
    <3> QED BY <2>1, <3>1, InsertQuiet, InitialStatusType DEF CreateBuild
  <2>2. CASE CreateApproval(c)
    BY <2>2, SameQuiet DEF CreateApproval
  <2>3. ASSUME NEW k, DeleteJobBuild(c, k) PROVE Quiet
    BY <2>3, DeleteQuiet DEF DeleteJobBuild
  <2> QED BY <1>1, <1>2, <2>1, <2>2, <2>3, SameQuiet
          DEF Handler, Table, CreateJobBuild, cancelMismatchedPendingBuilds, FailCreate,
              RetryJobBuild, CancelJobBuild, MarkBuildAsWarning, Vote, ApproveBuild
<1>3. ASSUME NEW w \in Workers, Execution(w) PROVE Quiet \/ Starts(w)
  <2>1. ASSUME StartPending(w), req[w].pc = "claim" => Admissible(req[w].job), Claiming(req[w])
        PROVE  Quiet \/ Starts(w)
    <3>1. CASE CanStart(req[w].id)
      BY <2>1, <3>1 DEF StartPending, Starts, CanStart
    <3>2. CASE ~CanStart(req[w].id)
      BY <2>1, <3>2, SameQuiet DEF StartPending, Table
    <3> QED BY <3>1, <3>2
  <2>2. CASE StartPendingBuild(w)
    BY <2>1, <2>2, SameQuiet DEF StartPendingBuild, Claiming, Table
  <2>3. CASE StartCheckedBuild(w)
    BY <2>1, <2>3 DEF StartCheckedBuild, Claiming
  <2>4. CASE deleteBuild(w)
    BY <2>4, DeleteQuiet DEF deleteBuild
  <2> QED BY <1>3, <2>2, <2>3, <2>4, SameQuiet
          DEF Execution, Table, NextWork, UpdateJobBuild, StopWork
<1>4. ASSUME NEW p \in Procs, Common(p) PROVE Quiet
  <2>1. CASE WriteBack(p)
    <3>1. req[p].st \in Status
      BY <2>1 DEF WriteBack, TypeInv, ReqOK, Good
    <3> QED BY <2>1, <3>1, UpdateQuiet DEF WriteBack
  <2>2. CASE CancelOlderBuild(p)
    BY <2>2, UpdateQuiet, SameQuiet DEF CancelOlderBuild, Table, Status, Terminal
  <2>3. CASE evaluateJobDownstream(p)
    <3>1. req[p].rest \subseteq Jobs
      BY DEF TypeInv, ReqOK, Request
    <3>2. UNCHANGED Table \/ \E i \in IDs, j \in Jobs : \E n : Insert(i, j, n, 0, InitialStatus(j))
      BY <2>3, <3>1 DEF evaluateJobDownstream
    <3> QED BY <3>2, InsertQuiet, InitialStatusType, SameQuiet DEF Table
  <2> QED BY <1>4, <2>1, <2>2, <2>3, SameQuiet
          DEF Common, Table, EvaluateDownstreamJobs, ListOlderBuilds, ReturnError
<1>5. ASSUME NEW j \in Jobs, PauseJob(j) \/ UnpauseJob(j) PROVE Quiet
  BY <1>5, SameQuiet DEF PauseJob, UnpauseJob
<1> QED BY <1>2, <1>3, <1>4, <1>5, RestartQuiet DEF Next

-----------------------------------------------------------------------------
(* The invariant.                                                          *)

\* A claim keeps fitting: the row keeps its job while it exists, and another
\* row under its id is irregular.
LEMMA ClaimFitsNext == ASSUME TypeInv, TypeInv', ClaimFits, Next PROVE ClaimFits'
<1> SUFFICES ASSUME NEW q \in Procs, Claiming(req'[q])
             PROVE  /\ req'[q].id <= lastID'
                    /\ /\ builds'[req'[q].id].status # "none"
                       /\ req'[q].id \notin irregular'
                       => builds'[req'[q].id].job = req'[q].job
                    /\ req'[q].pc = "checked" => ~SQLite
  BY DEF ClaimFits, Claiming, Exists
<1>1. /\ lastID \in Int /\ lastID' \in Int /\ builds \in [IDs -> Row]
      /\ IDs \subseteq Int
  BY DEF TypeInv, TableOK, IDs
<1>2. CASE NewClaim(q)
  <2>1. Exists(req'[q].id)
    BY <1>2 DEF NewClaim, Exists
  <2> QED BY <1>2, <2>1 DEF NewClaim, Table, TypeInv, RowsOK
<1>3. CASE OldClaim(q)
  <2> DEFINE i == req[q].id
  <2>1. /\ i \in IDs /\ i <= lastID /\ (req[q].pc = "checked" => ~SQLite)
        /\ Exists(i) /\ i \notin irregular => builds[i].job = req[q].job
    BY <1>3 DEF OldClaim, ClaimFits, Claiming, TypeInv, ReqOK, Good
  <2>2. CASE Quiet
    <3>1. req'[q].id = i /\ req'[q].job = req[q].job
      BY <1>3 DEF OldClaim
    <3>2. lastID <= lastID'
      BY <2>2 DEF Quiet
    <3>3. builds'[i].status # "none" /\ i \notin irregular' =>
            Exists(i) /\ i \notin irregular /\ builds'[i].job = builds[i].job
      BY <2>1, <2>2 DEF Quiet, Exists
    <3>4. i <= lastID'
      <4>1. i \in Int /\ lastID \in Int /\ lastID' \in Int
        BY <1>1, <2>1
      <4> QED BY <2>1, <3>2, <4>1
    <3>5. req'[q].pc = "checked" => ~SQLite
      BY <1>3, <2>1 DEF OldClaim
    <3> QED BY <2>1, <3>1, <3>3, <3>4, <3>5
  <2>3. ASSUME NEW w \in Workers, Starts(w)
        PROVE  /\ lastID' = lastID /\ irregular' = irregular
               /\ builds'[i].job = builds[i].job
               /\ builds'[i].status # "none" => Exists(i)
    <3>1. req[w].id \in IDs /\ builds[req[w].id].status = "pending"
      BY <2>3 DEF Starts, Claiming, TypeInv, ReqOK, Good, Procs
    <3>2. builds' = [builds EXCEPT ![req[w].id] = [builds[req[w].id] EXCEPT !.status = "started"]]
      BY <2>3 DEF Starts
    <3>3. CASE i = req[w].id
      BY <1>1, <2>3, <3>1, <3>2, <3>3 DEF Starts, Row, Exists
    <3>4. CASE i # req[w].id
      BY <1>1, <2>1, <2>3, <3>2, <3>4 DEF Starts, Exists
    <3> QED BY <3>3, <3>4
  <2> QED BY <1>3, <2>1, <2>2, <2>3, TableStep DEF OldClaim
<1> QED BY <1>2, <1>3, ClaimOrigin

\* The running builds of a job can be counted.
LEMMA RunningFinite == ASSUME NEW j PROVE IsFiniteSet(Running(j))
<1>1. IsFiniteSet(IDs)
  BY FS_Interval, Assumptions DEF IDs
<1> QED BY <1>1, FS_Subset DEF Running

\* The regular running builds after a start: at most one more, of the job that
\* was checked.
LEMMA StartRunning ==
  ASSUME TypeInv, ClaimFits, NEW w \in Workers, Starts(w), NEW j \in Jobs
  PROVE  /\ j # req[w].job => Running(j)' \ irregular' \subseteq Running(j) \ irregular
         /\ Running(j)' \ irregular' \subseteq (Running(j) \ irregular) \cup {req[w].id}
<1> DEFINE i == req[w].id
<1>1. /\ i \in IDs /\ builds \in [IDs -> Row] /\ irregular' = irregular
      /\ i \notin irregular => builds[i].job = req[w].job
  BY DEF Starts, Claiming, ClaimFits, TypeInv, TableOK, ReqOK, Good, Procs, Exists
<1>2. /\ \A k \in IDs \ {i} : builds'[k] = builds[k]
      /\ builds'[i].job = builds[i].job
  BY <1>1 DEF Starts, Row
<1> QED BY <1>1, <1>2 DEF Running

\* A quiet step adds no regular running build to any job.
LEMMA QuietRunning ==
  ASSUME TypeInv, Quiet, NEW j \in Jobs
  PROVE  Running(j)' \ irregular' \subseteq Running(j) \ irregular
BY DEF Quiet, Running, Exists

\* The limit of a job survives every step: quiet ones add nothing, a claim has
\* counted.
LEMMA SlotsNext == ASSUME LimitInv, Next PROVE SlotsRespected'
<1> SUFFICES ASSUME SQLite, NEW j \in Jobs, Concurrency[j] > 0
             PROVE  Cardinality(Running(j)' \ irregular') <= Concurrency[j]
  BY DEF SlotsRespected
<1> DEFINE Now == Running(j) \ irregular
           Then == Running(j)' \ irregular'
<1>1. /\ IsFiniteSet(Now) /\ IsFiniteSet(Running(j)) /\ Concurrency[j] \in Nat
      /\ Cardinality(Now) \in Nat /\ Cardinality(Running(j)) \in Nat
      /\ Cardinality(Now) <= Cardinality(Running(j))
      /\ Cardinality(Now) <= Concurrency[j]
  BY RunningFinite, FS_Subset, FS_CardinalityType, Assumptions DEF LimitInv, SlotsRespected
<1>2. CASE Then \subseteq Now
  BY <1>1, <1>2, FS_Subset, FS_CardinalityType
<1>3. ASSUME NEW w \in Workers, Starts(w), j = req[w].job
      PROVE  Cardinality(Then) <= Concurrency[j]
  <2>1. Admissible(j)
    BY <1>3 DEF Starts, Claiming, LimitInv, ClaimFits, Procs
  <2>2. Cardinality(Running(j)) < Concurrency[j]
    BY <2>1 DEF Admissible, CountRunning
  <2>3. Then \subseteq Now \cup {req[w].id}
    BY <1>3, StartRunning DEF LimitInv
  <2>4. /\ IsFiniteSet(Now \cup {req[w].id})
        /\ Cardinality(Now \cup {req[w].id}) <= Cardinality(Now) + 1
        /\ Cardinality(Now \cup {req[w].id}) \in Nat
    <3> HIDE DEF Now
    <3>1. /\ IsFiniteSet(Now \cup {req[w].id})
          /\ Cardinality(Now \cup {req[w].id}) =
               IF req[w].id \in Now THEN Cardinality(Now) ELSE Cardinality(Now) + 1
      BY <1>1, FS_AddElement
    <3> QED BY <1>1, <3>1
  <2>5. /\ Cardinality(Then) <= Cardinality(Now \cup {req[w].id})
        /\ Cardinality(Then) \in Nat
    BY <2>3, <2>4, FS_Subset, FS_CardinalityType
  <2> QED BY <1>1, <2>2, <2>4, <2>5
<1> QED BY <1>2, <1>3, TableStep, QuietRunning, StartRunning DEF LimitInv

\* So does the exclusion of a serial group.
LEMMA SerialGroupsNext == ASSUME LimitInv, Next PROVE SerialGroupsRespected'
<1> SUFFICES ASSUME SQLite, NEW j \in Jobs, NEW k \in Jobs \ {j},
                    SerialGroups[j] \cap SerialGroups[k] # {}
             PROVE  Running(j)' \subseteq irregular' \/ Running(k)' \subseteq irregular'
  BY DEF SerialGroupsRespected
<1>1. Running(j) \subseteq irregular \/ Running(k) \subseteq irregular
  BY DEF LimitInv, SerialGroupsRespected
<1>2. CASE Quiet
  BY <1>1, <1>2, QuietRunning DEF LimitInv
<1>3. ASSUME NEW w \in Workers, Starts(w)
      PROVE  Running(j)' \subseteq irregular' \/ Running(k)' \subseteq irregular'
  <2>1. Admissible(req[w].job)
    BY <1>3 DEF Starts, Claiming, LimitInv, ClaimFits, Procs
  <2>2. ~SerialGroupBusy(req[w].job)
    BY <2>1 DEF Admissible
  <2>3. /\ j # req[w].job => Running(j)' \ irregular' \subseteq Running(j) \ irregular
        /\ k # req[w].job => Running(k)' \ irregular' \subseteq Running(k) \ irregular
    BY <1>3, StartRunning DEF LimitInv
  <2>4. CASE j = req[w].job
    <3>1. Running(k) = {}
      BY <2>2, <2>4 DEF SerialGroupBusy
    <3> QED BY <2>3, <2>4, <3>1
  <2>5. CASE k = req[w].job
    <3>1. Running(j) = {}
      BY <2>2, <2>5 DEF SerialGroupBusy
    <3> QED BY <2>3, <2>5, <3>1
  <2>6. CASE j # req[w].job /\ k # req[w].job
    BY <1>1, <2>3, <2>6
  <2> QED BY <2>4, <2>5, <2>6
<1> QED BY <1>2, <1>3, TableStep DEF LimitInv

\* Nothing runs at first.
LEMMA LimitInit == Init => LimitInv
<1> SUFFICES ASSUME Init PROVE LimitInv
  OBVIOUS
<1>1. TypeInv
  BY TypeInit
<1>2. ClaimFits
  BY DEF Init, ClaimFits, Claiming, Idle
<1>3. \A j \in Jobs : Running(j) = {} /\ Running(j) \ irregular = {}
  BY DEF Init, Running, NoRow
<1>4. SlotsRespected
  <2>1. \A j \in Jobs : Cardinality(Running(j) \ irregular) = 0 /\ Concurrency[j] \in Nat
    BY <1>3, FS_EmptySet, Assumptions
  <2> QED BY <2>1 DEF SlotsRespected
<1>5. SerialGroupsRespected
  BY <1>3 DEF SerialGroupsRespected
<1> QED BY <1>1, <1>2, <1>4, <1>5 DEF LimitInv

\* Every step keeps LimitInv.
LEMMA LimitNext == LimitInv /\ [Next]_vars => LimitInv'
<1>1. ASSUME LimitInv, Next PROVE LimitInv'
  <2>1. TypeInv'
    BY <1>1, TypeNext DEF LimitInv
  <2> QED BY <1>1, <2>1, ClaimFitsNext, SlotsNext, SerialGroupsNext DEF LimitInv
<1>2. ASSUME LimitInv, UNCHANGED vars PROVE LimitInv'
  <2>1. TypeInv'
    BY <1>2, TypeNext DEF LimitInv
  <2> QED BY <1>2, <2>1 DEF LimitInv, vars, ClaimFits, Claiming, Exists, SlotsRespected,
                         SerialGroupsRespected, Running
<1> QED BY <1>1, <1>2

\* However many workers claim builds at once, and whatever users cancel, retry
\* and delete meanwhile, the regular running builds of a job never outnumber
\* its concurrency on a database with serialised units of work.
THEOREM SlotsCorrect == Spec => []SlotsRespected
<1>1. LimitInv => SlotsRespected
  BY DEF LimitInv
<1> QED BY <1>1, LimitInit, LimitNext, PTL DEF Spec

\* Nor do two jobs of a serial group run regular builds at the same time.
THEOREM SerialGroupsCorrect == Spec => []SerialGroupsRespected
<1>1. LimitInv => SerialGroupsRespected
  BY DEF LimitInv
<1> QED BY <1>1, LimitInit, LimitNext, PTL DEF Spec
=============================================================================
