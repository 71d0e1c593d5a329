--------------------------- MODULE BuildRowProofs ---------------------------
(***************************************************************************)
(* What becomes of a row of the builds table, for any number of requests   *)
(* and workers: a regular build has one runner, is queued only with its    *)
(* approvals, is cancelled when it is overtaken, and stays cancelled.      *)
(*                                                                         *)
(* The argument: a row keeps its key while it exists, two rows have        *)
(* different keys, and the key of a deleted row is taken only by irregular *)
(* ones.  A regular row that a request finds by its key is therefore the   *)
(* row that it has read before, whatever was deleted and created since.    *)
(***************************************************************************)
EXTENDS BuildLifecycleProofs

-----------------------------------------------------------------------------
(* What a step does to the table, by the statement that it executes.       *)

\* Process p inserts row i.  If it has read the job it heeds the gate and, if
\* the job is interruptible, will list the older builds.
NewRow(p, i) ==
  \E j \in Jobs, n \in Nat, s \in Nat, st \in {"waiting", "pending"}, read \in BOOLEAN :
    /\ Insert(i, j, n, s, st)
    /\ IF s = 0 THEN IsNextNumber(j, n) ELSE IsNextRetry(j, n, s)
    /\ read /\ s = 0 => st = InitialStatus(j)
    /\ read /\ j \in Interruptible =>
         req'[p].pc = "older" /\ req'[p].job = j /\ req'[p].new = i
    /\ ~read => i \in ungated' /\ FindActiveBuilds(j, i) \subseteq spared'

\* Process p cancels a build on its list.
CancelsRow(p) == req[p].pc = "cancel" /\ \E k \in req[p].todo : Update(k, "cancelled")

TableMove ==
  \/ \E p \in Procs, i \in IDs : NewRow(p, i)
  \/ \E p \in Procs : WriteBack(p) \/ CancelsRow(p)
  \/ \E k : Delete(k)
  \/ \E w \in Workers : Starts(w) /\ UNCHANGED <<votes, gone>>
  \/ Restart
  \/ \E c \in Clients : CreateApproval(c)
  \/ UNCHANGED <<builds, votes, lastID, gone, irregular>>

\* The unit of work of a client inserts one row, numbered after the others.
LEMMA CreateBuildInserts ==
  ASSUME TypeInv, NEW c \in Clients, CreateBuild(c)
  PROVE  \E i \in IDs : NewRow(c, i)
<1> DEFINE k == req[c].key
           j == req[c].job
           read == j # NoJob
<1>1. /\ c \in Procs /\ k \in KeyType /\ k.job \in Jobs /\ j \in {k.job, NoJob}
      /\ req[c] \in Request /\ req \in [Procs -> Request]
  BY DEF Procs, CreateBuild, TypeInv, ReqOK, Good, Keyed, Request
<1>2. PICK i \in IDs, n \in 1..MaxID :
        /\ IF k.num = 0 THEN /\ IsNextNumber(k.job, n)
                             /\ Insert(i, k.job, n, 0, InitialStatus(j))
                        ELSE /\ IsNextRetry(k.job, k.num, n)
                             /\ Insert(i, k.job, k.num, n, "pending")
        /\ req' = [req EXCEPT ![c] = AfterCreate(c, j, i)]
        /\ j = NoJob => i \in ungated' /\ FindActiveBuilds(k.job, i) \subseteq spared'
  BY DEF CreateBuild
<1>3. read /\ k.job \in Interruptible =>
        req'[c].pc = "older" /\ req'[c].job = k.job /\ req'[c].new = i
  BY <1>1, <1>2 DEF AfterCreate, Request
<1>4. /\ n \in Nat /\ n # 0 /\ 0 \in Nat /\ k.num \in Nat /\ read \in BOOLEAN
      /\ ~read => i \in ungated' /\ FindActiveBuilds(k.job, i) \subseteq spared'
      /\ read => InitialStatus(j) = InitialStatus(k.job)
  BY <1>1, <1>2, Assumptions DEF KeyType
<1>5. CASE k.num = 0
  <2>1. IsNextNumber(k.job, n) /\ Insert(i, k.job, n, 0, InitialStatus(j))
    BY <1>2, <1>5
  <2>2. InitialStatus(j) \in {"waiting", "pending"}
    BY InitialStatusType
  <2> HIDE DEF read
  <2> USE <1>1, <1>4, <2>2 DEF NewRow
  <2> WITNESS i \in IDs
  <2> WITNESS k.job \in Jobs, n \in Nat, 0 \in Nat,
              InitialStatus(j) \in {"waiting", "pending"}, read \in BOOLEAN
  <2> QED BY <1>3, <2>1
<1>6. CASE k.num # 0
  <2>1. IsNextRetry(k.job, k.num, n) /\ Insert(i, k.job, k.num, n, "pending")
    BY <1>2, <1>6
  <2> HIDE DEF read
  <2> USE <1>1, <1>4 DEF NewRow
  <2> WITNESS i \in IDs
  <2> WITNESS k.job \in Jobs, k.num \in Nat, n \in Nat,
              "pending" \in {"waiting", "pending"}, read \in BOOLEAN
  <2> QED BY <1>3, <1>6, <2>1
<1> QED BY <1>5, <1>6

\* So does the evaluation of a downstream job that gets a build.
LEMMA evaluateJobDownstreamInserts ==
  ASSUME TypeInv, NEW p \in Procs, evaluateJobDownstream(p)
  PROVE  UNCHANGED Table \/ \E i \in IDs : NewRow(p, i)
<1>1. PICK j \in req[p].rest :
        LET left == [req[p] EXCEPT !.rest = @ \ {j}]
        IN  \/ UNCHANGED Table
            \/ \E i \in IDs, n \in 1..MaxID :
                 /\ IsNextNumber(j, n)
                 /\ Insert(i, j, n, 0, InitialStatus(j))
                 /\ req' = [req EXCEPT ![p] =
                      IF j \in Interruptible
                        THEN [left EXCEPT !.pc = "older", !.job = j, !.new = i]
                        ELSE IF left.rest = {} THEN Return(p) ELSE left]
  BY DEF evaluateJobDownstream
<1> DEFINE left == [req[p] EXCEPT !.rest = @ \ {j}]
<1>2. req[p] \in Request /\ req \in [Procs -> Request] /\ j \in Jobs
  BY DEF TypeInv, ReqOK, Request
<1>3. CASE UNCHANGED Table
  BY <1>3
<1>4. ASSUME NEW i \in IDs, NEW n \in 1..MaxID, IsNextNumber(j, n),
             Insert(i, j, n, 0, InitialStatus(j)),
             req' = [req EXCEPT ![p] =
                      IF j \in Interruptible
                        THEN [left EXCEPT !.pc = "older", !.job = j, !.new = i]
                        ELSE IF left.rest = {} THEN Return(p) ELSE left]
      PROVE  NewRow(p, i)
  <2>1. j \in Interruptible => req'[p] = [left EXCEPT !.pc = "older", !.job = j, !.new = i]
    BY <1>2, <1>4
  <2>2. j \in Interruptible => req'[p].pc = "older" /\ req'[p].job = j /\ req'[p].new = i
    BY <1>2, <2>1 DEF Request
  <2>3. n \in Nat /\ 0 \in Nat /\ InitialStatus(j) \in {"waiting", "pending"}
    BY InitialStatusType
  <2>4. TRUE \in BOOLEAN
    OBVIOUS
  <2>5. IsNextNumber(j, n) /\ Insert(i, j, n, 0, InitialStatus(j))
    BY <1>4
  <2> HIDE DEF left
  <2> USE <1>2, <2>3, <2>4 DEF NewRow
  <2> WITNESS j \in Jobs, n \in Nat, 0 \in Nat, InitialStatus(j) \in {"waiting", "pending"},
              TRUE \in BOOLEAN
  <2> QED BY <2>2, <2>5
<1> QED BY <1>1, <1>3, <1>4

\* Every step executes one of these statements, or none.
LEMMA TableMoves == ASSUME TypeInv, Next PROVE TableMove
<1>1. CASE UNCHANGED Table
  BY <1>1 DEF Table, TableMove
<1>2. ASSUME NEW c \in Clients, Handler(c) PROVE TableMove
  <2>1. CASE CreateBuild(c)
    BY <2>1, CreateBuildInserts DEF TableMove, Procs
  <2>2. CASE CreateApproval(c)
    BY <2>2 DEF TableMove
  <2>3. ASSUME NEW k, DeleteJobBuild(c, k) PROVE TableMove
    BY <2>3 DEF DeleteJobBuild, TableMove
  <2> QED BY <1>1, <1>2, <2>1, <2>2, <2>3
          DEF Handler, CreateJobBuild, cancelMismatchedPendingBuilds, FailCreate,
              RetryJobBuild, CancelJobBuild, MarkBuildAsWarning, Vote, ApproveBuild
<1>3. ASSUME NEW w \in Workers, Execution(w) PROVE TableMove
  <2>1. ASSUME StartPending(w), req[w].pc = "claim" => Admissible(req[w].job), Claiming(req[w])
        PROVE  TableMove
    <3>1. CASE CanStart(req[w].id)
      <4>1. Starts(w) /\ UNCHANGED <<votes, gone>>
        BY <2>1, <3>1 DEF StartPending, Starts, CanStart
      <4> QED BY <4>1 DEF TableMove
    <3>2. CASE ~CanStart(req[w].id)
      BY <1>1, <2>1, <3>2 DEF StartPending
    <3> QED BY <3>1, <3>2
  <2>2. CASE StartPendingBuild(w)
    BY <1>1, <2>1, <2>2 DEF StartPendingBuild, Claiming
  <2>3. CASE StartCheckedBuild(w)
    BY <2>1, <2>3 DEF StartCheckedBuild, Claiming
  <2>4. CASE deleteBuild(w)
    BY <2>4 DEF deleteBuild, TableMove
  <2> QED BY <1>1, <1>3, <2>2, <2>3, <2>4 DEF Execution, NextWork, UpdateJobBuild, StopWork
<1>4. ASSUME NEW p \in Procs, Common(p) PROVE TableMove
  <2>1. CASE WriteBack(p) \/ CancelOlderBuild(p)
    BY <1>1, <2>1 DEF TableMove, CancelOlderBuild, CancelsRow
  <2>2. CASE evaluateJobDownstream(p)
    BY <1>1, <2>2, evaluateJobDownstreamInserts DEF TableMove
  <2> QED BY <1>1, <1>4, <2>1, <2>2 DEF Common, EvaluateDownstreamJobs, ListOlderBuilds,
                                            ReturnError
<1>5. ASSUME NEW j \in Jobs, PauseJob(j) \/ UnpauseJob(j) PROVE TableMove
  BY <1>5 DEF PauseJob, UnpauseJob, TableMove
<1> QED BY <1>2, <1>3, <1>4, <1>5 DEF Next, TableMove

-----------------------------------------------------------------------------
(* What a step does to a row.                                              *)

\* How the status of a regular row may change: the lifecycle, or its claim.
Follows(old, new) == Lifecycle(old, new) \/ (old = "pending" /\ new = "started")

\* The row is new, and neither its id nor its key was used before.
Born(i) ==
  /\ ~Exists(i) /\ lastID < i
  /\ Key(builds'[i]) \notin gone /\ gone' = gone
  /\ builds'[i].status \in {"waiting", "pending"}
  /\ builds'[i].sub = 0 /\ i \notin ungated' =>
       builds'[i].status = InitialStatus(builds'[i].job)

Lived(i) ==
  /\ Exists(i) /\ i \notin irregular
  /\ Key(builds'[i]) = Key(builds[i])
  /\ Follows(builds[i].status, builds'[i].status)

\* A step that inserts row i finds no row there and no greater id, and leaves
\* the others as they are.
LEMMA NewRowStep ==
  ASSUME TypeInv, NEW p, NEW i \in IDs, NewRow(p, i)
  PROVE  /\ ~Exists(i) /\ Exists(i)'
         /\ \A k \in IDs \ {i} : builds'[k] = builds[k]
         /\ \A k \in Rows : k < i
         /\ votes' = votes /\ gone' = gone /\ lastID <= lastID'
         /\ i \notin irregular' => Born(i)
         /\ irregular \subseteq irregular'
         /\ irregular' \subseteq irregular \cup {i}
<1>1. PICK j \in Jobs, n \in Nat, s \in Nat, st \in {"waiting", "pending"} :
        /\ Insert(i, j, n, s, st)
        /\ s = 0 /\ i \notin ungated' => st = InitialStatus(j)
  BY DEF NewRow
<1> DEFINE r == [job |-> j, num |-> n, sub |-> s, status |-> st]
<1>2. /\ builds \in [IDs -> Row] /\ lastID \in Int /\ i \in Int /\ IDs \subseteq Int
      /\ \A k \in IDs : Exists(k) => k <= lastID
  BY DEF TypeInv, TableOK, RowsOK, IDs
<1>3. \A k \in Rows : k < i
  <2>1. CASE SQLite
    BY <2>1, <1>1 DEF Insert, IsNextID
  <2>2. CASE ~SQLite
    BY <2>2, <1>1, <1>2 DEF Insert, IsNextID, Rows
  <2> QED BY <2>1, <2>2
<1>4. ~Exists(i)
  BY <1>2, <1>3 DEF Rows
<1>5. /\ builds'[i] = r /\ r.status = st /\ r.job = j /\ r.sub = s
      /\ \A k \in IDs \ {i} : builds'[k] = builds[k]
  BY <1>1, <1>2 DEF Insert
<1>6. Exists(i)'
  BY <1>5 DEF Exists
<1>7. /\ votes' = votes /\ gone' = gone /\ irregular \subseteq irregular'
      /\ irregular' \subseteq irregular \cup {i} /\ lastID <= lastID'
      /\ i \notin irregular' => ~(i <= lastID) /\ Key(r) \notin gone
  BY <1>1, <1>2 DEF Insert
<1>8. i \notin irregular' => Born(i)
  BY <1>1, <1>2, <1>4, <1>5, <1>7 DEF Born
<1> QED BY <1>3, <1>4, <1>5, <1>6, <1>7, <1>8

\* An Update changes the status of the rows with that key, to one.
LEMMA UpdateStep ==
  ASSUME TypeInv, NEW k, NEW st \in Status, Update(k, st), NEW i \in IDs
  PROVE  /\ Key(builds'[i]) = Key(builds[i]) /\ (Exists(i)' <=> Exists(i))
         /\ i \in Find(k) => builds'[i].status = st
         /\ i \notin Find(k) => builds'[i] = builds[i]
         /\ Exists(i)' /\ i \notin irregular' => Lived(i)
<1>1. builds[i] \in Row /\ "none" \notin Status
  BY DEF TypeInv, TableOK, Status, Active, Terminal
<1>2. builds'[i] = IF i \in Find(k) THEN [builds[i] EXCEPT !.status = st] ELSE builds[i]
  BY DEF Update
<1>3. i \in Find(k) => Exists(i) /\ builds'[i].status = st
  BY <1>1, <1>2 DEF Find, Rows, Row
<1>4. Key(builds'[i]) = Key(builds[i]) /\ (Exists(i)' <=> Exists(i))
  BY <1>1, <1>2, <1>3 DEF Key, Row, Exists
<1>5. i \notin irregular' =>
        i \notin irregular /\ (i \in Find(k) => Lifecycle(builds[i].status, st))
  BY DEF Update
<1>6. Exists(i)' /\ i \notin irregular' => Lived(i)
  BY <1>2, <1>3, <1>4, <1>5 DEF Lived, Follows, Lifecycle
<1> QED BY <1>2, <1>3, <1>4, <1>6

\* A deletion takes the rows with that key, and remembers it.
LEMMA DeleteStep ==
  ASSUME TypeInv, NEW k, Delete(k), NEW i \in IDs
  PROVE  /\ i \in Find(k) => builds'[i] = NoRow /\ Key(builds[i]) \in gone'
         /\ i \notin Find(k) => builds'[i] = builds[i] /\ votes'[i] = votes[i]
         /\ Exists(i)' => i \notin Find(k) /\ Exists(i)
         /\ Exists(i)' /\ i \notin irregular' => Lived(i)
         /\ gone \subseteq gone' /\ gone' \subseteq gone \cup {k}
<1>1. /\ i \in Find(k) => builds'[i] = NoRow
      /\ i \notin Find(k) => builds'[i] = builds[i] /\ votes'[i] = votes[i]
      /\ irregular' = irregular \ Find(k)
      /\ gone' = gone \cup {Key(builds[x]) : x \in Find(k)}
  BY DEF Delete
<1>2. NoRow.status = "none"
  BY DEF NoRow
<1>3. Exists(i)' => i \notin Find(k) /\ Exists(i)
  BY <1>1, <1>2 DEF Exists
<1>4. gone' \subseteq gone \cup {k}
  BY <1>1 DEF Find
<1>5. Exists(i)' /\ i \notin irregular' => Lived(i)
  BY <1>1, <1>3 DEF Lived, Follows, Lifecycle
<1> QED BY <1>1, <1>3, <1>4, <1>5

\* A claim starts its row and leaves the others as they are.
LEMMA StartsStep ==
  ASSUME TypeInv, NEW w \in Workers, Starts(w), NEW i \in IDs
  PROVE  /\ req[w].id \in IDs /\ builds[req[w].id].status = "pending"
         /\ Key(builds'[i]) = Key(builds[i]) /\ (Exists(i)' <=> Exists(i))
         /\ i = req[w].id => builds'[i].status = "started"
         /\ i # req[w].id => builds'[i] = builds[i]
         /\ Exists(i)' /\ i \notin irregular' => Lived(i)
<1> DEFINE x == req[w].id
<1>1. x \in IDs /\ builds[x].status = "pending" /\ builds[i] \in Row /\ builds \in [IDs -> Row]
  BY DEF Starts, Claiming, TypeInv, TableOK, ReqOK, Good, Procs
<1>2. builds' = [builds EXCEPT ![x] = [builds[x] EXCEPT !.status = "started"]]
  BY DEF Starts
<1>3. /\ i = x => builds'[i] = [builds[i] EXCEPT !.status = "started"]
      /\ i # x => builds'[i] = builds[i]
  BY <1>1, <1>2
<1>4. /\ Key(builds'[i]) = Key(builds[i]) /\ (Exists(i)' <=> Exists(i))
      /\ i = x => builds'[i].status = "started"
  BY <1>1, <1>3 DEF Key, Row, Exists
<1>5. Exists(i)' /\ i \notin irregular' => Lived(i)
  BY <1>1, <1>3, <1>4 DEF Lived, Follows, Lifecycle, Starts
<1> QED BY <1>1, <1>3, <1>4, <1>5

\* A restart fails the rows that are started.
LEMMA RestartStep ==
  ASSUME TypeInv, Restart, NEW i \in IDs
  PROVE  /\ Key(builds'[i]) = Key(builds[i]) /\ (Exists(i)' <=> Exists(i))
         /\ builds[i].status # "started" => builds'[i] = builds[i]
         /\ builds[i].status = "started" => builds'[i].status = "failed"
         /\ Exists(i)' /\ i \notin irregular' => Lived(i)
<1>1. builds[i] \in Row /\ irregular \subseteq irregular'
  BY DEF Restart, TypeInv, TableOK
<1>2. builds'[i] = IF builds[i].status = "started"
                     THEN [builds[i] EXCEPT !.status = "failed"] ELSE builds[i]
  BY DEF Restart
<1>3. /\ Key(builds'[i]) = Key(builds[i]) /\ (Exists(i)' <=> Exists(i))
      /\ builds[i].status = "started" => builds'[i].status = "failed"
  BY <1>1, <1>2 DEF Key, Row, Exists
<1> QED BY <1>1, <1>2, <1>3 DEF Lived, Follows, Lifecycle

\* The statements of handlers and workers write a status.
LEMMA WritesStatus ==
  ASSUME TypeInv, NEW p \in Procs, WriteBack(p) \/ CancelsRow(p)
  PROVE  \E st \in Status : \E k :
           /\ Update(k, st)
           /\ \/ WriteBack(p) /\ k = req[p].key /\ st = req[p].st
              \/ CancelsRow(p) /\ k \in req[p].todo /\ st = "cancelled"
<1>1. CASE WriteBack(p)
  BY <1>1 DEF WriteBack, TypeInv, ReqOK, Good
<1>2. CASE CancelsRow(p)
  BY <1>2 DEF CancelsRow, Status, Terminal
<1> QED BY <1>1, <1>2

\* A regular row after a step is new, or was regular and has moved as its
\* lifecycle allows.
LEMMA RegularStep ==
  ASSUME TypeInv, TableMove, NEW i \in IDs, Exists(i)', i \notin irregular'
  PROVE  Born(i) \/ Lived(i)
<1>1. ASSUME NEW p \in Procs, NEW k \in IDs, NewRow(p, k) PROVE Born(i) \/ Lived(i)
  <2>1. CASE k = i
    BY <1>1, <2>1, NewRowStep
  <2>2. CASE k # i
    <3>1. builds'[i] = builds[i] /\ i \notin irregular
      BY <1>1, <2>2, NewRowStep
    <3> QED BY <3>1 DEF Lived, Follows, Lifecycle, Exists
  <2> QED BY <2>1, <2>2
<1>2. ASSUME NEW p \in Procs, WriteBack(p) \/ CancelsRow(p) PROVE Lived(i)
  BY <1>2, WritesStatus, UpdateStep
<1>3. CASE UNCHANGED <<builds, irregular>>
  BY <1>3 DEF Lived, Follows, Lifecycle, Exists
<1> QED BY <1>1, <1>2, <1>3, DeleteStep, StartsStep, RestartStep DEF TableMove, CreateApproval

\* A row keeps its key until it is deleted.
LEMMA RowKept ==
  ASSUME TypeInv, TableMove, NEW i \in IDs, Exists(i)
  PROVE  \/ builds'[i] = NoRow /\ Key(builds[i]) \in gone'
         \/ Exists(i)' /\ Key(builds'[i]) = Key(builds[i])
<1>1. ASSUME NEW p \in Procs, NEW k \in IDs, NewRow(p, k)
      PROVE  Exists(i)' /\ Key(builds'[i]) = Key(builds[i])
  BY <1>1, NewRowStep DEF Exists
<1>2. ASSUME NEW p \in Procs, WriteBack(p) \/ CancelsRow(p)
      PROVE  Exists(i)' /\ Key(builds'[i]) = Key(builds[i])
  BY <1>2, WritesStatus, UpdateStep
<1>3. ASSUME NEW k, Delete(k)
      PROVE  \/ builds'[i] = NoRow /\ Key(builds[i]) \in gone'
             \/ Exists(i)' /\ Key(builds'[i]) = Key(builds[i])
  BY <1>3, DeleteStep DEF Exists
<1>4. CASE UNCHANGED builds
  BY <1>4 DEF Exists
<1> QED BY <1>1, <1>2, <1>3, <1>4, StartsStep, RestartStep DEF TableMove, CreateApproval

\* A row that was not there is the one that the step inserts.
LEMMA RowNew ==
  ASSUME TypeInv, TableMove, NEW i \in IDs, ~Exists(i), Exists(i)'
  PROVE  \E p \in Procs : NewRow(p, i)
<1>1. ASSUME NEW p \in Procs, NEW k \in IDs, NewRow(p, k) PROVE NewRow(p, i)
  BY <1>1, NewRowStep DEF Exists
<1>2. ASSUME NEW p \in Procs, WriteBack(p) \/ CancelsRow(p) PROVE FALSE
  BY <1>2, WritesStatus, UpdateStep
<1>3. ASSUME NEW k, Delete(k) PROVE FALSE
  BY <1>3, DeleteStep
<1>4. CASE UNCHANGED builds
  BY <1>4 DEF Exists
<1> QED BY <1>1, <1>2, <1>3, <1>4, StartsStep, RestartStep DEF TableMove, CreateApproval

\* The keys that are gone stay so, and the ids only grow.
LEMMA HistoryGrows ==
  ASSUME TypeInv, TableMove
  PROVE  gone \subseteq gone' /\ lastID <= lastID'
<1>1. lastID \in Int
  BY DEF TypeInv, TableOK
<1>2. ASSUME NEW p \in Procs, WriteBack(p) \/ CancelsRow(p)
      PROVE  gone' = gone /\ lastID' = lastID
  BY <1>2, WritesStatus DEF Update
<1>3. ASSUME NEW k, Delete(k) PROVE gone \subseteq gone' /\ lastID' = lastID
  BY <1>3 DEF Delete
<1>4. ASSUME NEW p \in Procs, NEW i \in IDs, NewRow(p, i)
      PROVE  gone' = gone /\ lastID <= lastID'
  BY <1>4, NewRowStep
<1>5. CASE UNCHANGED <<gone, lastID>>
  BY <1>1, <1>5
<1>6. ASSUME NEW w \in Workers, Starts(w) /\ UNCHANGED <<votes, gone>>
      PROVE  UNCHANGED <<gone, lastID>>
  BY <1>6 DEF Starts
<1>7. ASSUME NEW c \in Clients, CreateApproval(c) PROVE UNCHANGED <<gone, lastID>>
  BY <1>7 DEF CreateApproval
<1>8. CASE Restart
  BY <1>5, <1>8 DEF Restart
<1> QED BY <1>1, <1>2, <1>3, <1>4, <1>5, <1>6, <1>7, <1>8 DEF TableMove

-----------------------------------------------------------------------------
(* The keys of rows.                                                       *)

UniqueKeys == \A i, k \in Rows : Key(builds[i]) = Key(builds[k]) => i = k
GoneKeys   == \A i \in Rows \ irregular : Key(builds[i]) \notin gone

\* A new row has a key that no other row has: its number, or the number of the
\* retry, is greater than those in use.
LEMMA NewRowKey ==
  ASSUME TypeInv, NEW p, NEW i \in IDs, NewRow(p, i), NEW k \in Rows
  PROVE  Key(builds'[i]) # Key(builds[k])
<1>1. PICK j \in Jobs, n \in Nat, s \in Nat, st \in {"waiting", "pending"} :
        /\ Insert(i, j, n, s, st)
        /\ IF s = 0 THEN IsNextNumber(j, n) ELSE IsNextRetry(j, n, s)
  BY DEF NewRow
<1>2. builds[k] \in Row /\ builds \in [IDs -> Row]
  BY DEF TypeInv, TableOK, Rows
<1>3. Key(builds'[i]) = [job |-> j, num |-> n, sub |-> s]
  BY <1>1, <1>2 DEF Insert, Key
<1> SUFFICES ASSUME builds[k].job = j, builds[k].num = n, builds[k].sub = s PROVE FALSE
  BY <1>3 DEF Key
<1>4. CASE s = 0
  <2>1. n < n
    BY <1>1, <1>4 DEF IsNextNumber
  <2> QED BY <2>1
<1>5. CASE s # 0
  <2>1. s > 0
    BY <1>5
  <2>2. s < s
    BY <1>1, <1>5, <2>1 DEF IsNextRetry
  <2> QED BY <2>2
<1> QED BY <1>4, <1>5

\* So keys stay unique ...
LEMMA UniqueKeysNext == ASSUME TypeInv, UniqueKeys, TableMove PROVE UniqueKeys'
<1> SUFFICES ASSUME NEW i \in IDs, NEW k \in IDs, Exists(i)', Exists(k)',
                    Key(builds'[i]) = Key(builds'[k])
             PROVE  i = k
  BY DEF UniqueKeys, Rows
<1>0. NoRow.status = "none"
  BY DEF NoRow
<1>1. CASE Exists(i) /\ Exists(k)
  <2>1. Key(builds'[i]) = Key(builds[i]) /\ Key(builds'[k]) = Key(builds[k])
    BY <1>0, <1>1, RowKept DEF Exists
  <2> QED BY <1>1, <2>1 DEF UniqueKeys, Rows
<1>2. ASSUME NEW x \in IDs, NEW y \in IDs, ~Exists(x), Exists(x)', Exists(y)',
             Key(builds'[x]) = Key(builds'[y])
      PROVE  x = y
  <2>1. PICK p \in Procs : NewRow(p, x)
    BY <1>2, RowNew
  <2> SUFFICES ASSUME x # y PROVE FALSE
    OBVIOUS
  <2>2. builds'[y] = builds[y]
    BY <2>1, NewRowStep
  <2>3. y \in Rows
    BY <1>2, <2>2 DEF Rows, Exists
  <2> QED BY <1>2, <2>1, <2>2, <2>3, NewRowKey
<1> QED BY <1>1, <1>2

\* ... and no regular row has the key of a deleted one.
LEMMA GoneKeysNext == ASSUME TypeInv, GoneKeys, TableMove PROVE GoneKeys'
<1> SUFFICES ASSUME NEW i \in IDs, Exists(i)', i \notin irregular'
             PROVE  Key(builds'[i]) \notin gone'
  BY DEF GoneKeys, Rows
<1>1. CASE Born(i)
  BY <1>1 DEF Born
<1>2. CASE Lived(i)
  <2>1. Key(builds'[i]) = Key(builds[i]) /\ Key(builds[i]) \notin gone /\ i \in Rows
    BY <1>2 DEF Lived, GoneKeys, Rows
  <2>2. ASSUME NEW k, Delete(k) PROVE Key(builds[i]) \notin gone'
    BY <2>1, <2>2, DeleteStep DEF Find
  <2>3. CASE gone' = gone
    BY <2>1, <2>3
  <2>4. ASSUME NEW p \in Procs, WriteBack(p) \/ CancelsRow(p) PROVE gone' = gone
    BY <2>4, WritesStatus DEF Update
  <2> QED BY <2>1, <2>2, <2>3, <2>4, NewRowStep DEF TableMove, Restart, CreateApproval
<1> QED BY <1>1, <1>2, RegularStep

-----------------------------------------------------------------------------
(* What a step does to a request.                                          *)

Acts(p) ==
  \/ p \in Clients /\ Handler(p)
  \/ p \in Workers /\ Execution(p)
  \/ Common(p)

\* A step that is not a restart is one of a process, or moves none.
LEMMA Actor ==
  ASSUME TypeInv, Next, ~Restart
  PROVE  \/ UNCHANGED req
         \/ \E p \in Procs : Acts(p) /\ \A q \in Procs \ {p} : req'[q] = req[q]
<1>1. req \in [Procs -> Request] /\ Clients \subseteq Procs /\ Workers \subseteq Procs
  BY DEF TypeInv, ReqOK, Procs
<1>2. ASSUME NEW c \in Clients, Handler(c)
      PROVE  Acts(c) /\ \A q \in Procs \ {c} : req'[q] = req[q]
  BY <1>1, <1>2, HandlerMoves DEF Moves, Acts
<1>3. ASSUME NEW p \in Procs, Common(p)
      PROVE  Acts(p) /\ \A q \in Procs \ {p} : req'[q] = req[q]
  BY <1>1, <1>3, CommonMoves DEF Moves, Acts
<1>4. ASSUME NEW w \in Workers, Execution(w)
      PROVE  Acts(w) /\ \A q \in Procs \ {w} : req'[q] = req[q]
  <2>1. \E r : req' = [req EXCEPT ![w] = r]
    BY <1>4 DEF Execution, NextWork, StartPendingBuild, StartCheckedBuild, StartPending,
                UpdateJobBuild, deleteBuild, StopWork
  <2> QED BY <1>1, <1>4, <2>1 DEF Acts
<1>5. ASSUME NEW j \in Jobs, PauseJob(j) \/ UnpauseJob(j) PROVE UNCHANGED req
  BY <1>5 DEF PauseJob, UnpauseJob
<1> QED BY <1>1, <1>2, <1>3, <1>4, <1>5 DEF Next

\* A process moves by its own steps only, or because the server restarts.
LEMMA Mover ==
  ASSUME TypeInv, Next, ~Restart, NEW q \in Procs, req'[q] # req[q]
  PROVE  Acts(q) /\ \A p \in Procs \ {q} : req'[p] = req[p]
BY Actor

\* What a process keeps when a handler returns.
LEMMA ReturnFields ==
  ASSUME TypeInv, NEW p \in Procs
  PROVE  /\ Return(p).pc \in {"idle", "run"}
         /\ Return(p).local \in {"started", req[p].local}
         /\ p \in Workers => Return(p).id = req[p].id /\ Return(p).key = req[p].key
         /\ p \notin Workers => Return(p) = Idle
<1>1. Idle \in Request /\ req[p] \in Request /\ Idle.pc = "idle" /\ Idle.local = "started"
  BY IdleGood DEF Good, Idle, TypeInv, ReqOK
<1> QED BY <1>1 DEF Return, Request

\* The same when the evaluation of downstream jobs goes on.
LEMMA ResumeFields ==
  ASSUME TypeInv, NEW p \in Procs
  PROVE  /\ Resume(p).pc \in {"idle", "run", "eval"}
         /\ Resume(p).local \in {"started", req[p].local}
         /\ p \in Workers => Resume(p).id = req[p].id
<1>1. req[p] \in Request
  BY DEF TypeInv, ReqOK
<1> QED BY <1>1, ReturnFields DEF Resume, Request

Busy(r) == r.pc \notin {"idle", "claim", "checked"}

\* The worker that executes a build after a step did so before, or has just
\* started it.
LEMMA RunOrigin ==
  ASSUME TypeInv, Next, NEW w \in Workers, Busy(req'[w])
  PROVE  req'[w].id = req[w].id /\ (Busy(req[w]) \/ Starts(w))
<1>1. /\ w \in Procs /\ w \notin Clients /\ Idle \in Request /\ req[w] \in Request
      /\ req \in [Procs -> Request] /\ ~Busy(Idle)
  BY IdleGood, Assumptions DEF Procs, Good, TypeInv, ReqOK, Busy, Idle
<1>2. CASE req'[w] = req[w]
  BY <1>2
<1>3. CASE Restart
  <2>1. Busy(req[w]) /\ req'[w] = Return(w)
    BY <1>1, <1>3 DEF Restart, Busy
  <2> QED BY <1>1, <2>1, ReturnFields
<1>4. ASSUME StartPending(w), req[w].pc = "claim" => Admissible(req[w].job), Claiming(req[w])
      PROVE  req'[w].id = req[w].id /\ Starts(w)
  <2>1. CASE CanStart(req[w].id)
    <3>1. Starts(w)
      BY <1>4, <2>1 DEF StartPending, Starts, CanStart
    <3>2. req'[w].id = req[w].id
      BY ZenonT(60), <1>1, <1>4, <2>1 DEF StartPending, Request
    <3> QED BY <3>1, <3>2
  <2>2. CASE ~CanStart(req[w].id)
    BY <1>1, <1>4, <2>2 DEF StartPending
  <2> QED BY <2>1, <2>2
<1>5. CASE Execution(w)
  <2>1. CASE \E j \in Jobs : NextWork(w, j)
    <3>1. PICK i, j : req' = [req EXCEPT ![w] = [Idle EXCEPT !.pc = "claim", !.id = i, !.job = j]]
      BY <2>1 DEF NextWork
    <3> QED BY <1>1, <3>1 DEF Busy, Request
  <2>2. CASE StartPendingBuild(w)
    <3>1. CASE req' = [req EXCEPT ![w].pc = "checked"]
      BY <1>1, <3>1 DEF Busy, Request
    <3>2. CASE req' = [req EXCEPT ![w] = Idle]
      BY <1>1, <3>2
    <3> QED BY <1>4, <2>2, <3>1, <3>2 DEF StartPendingBuild, Claiming
  <2>3. CASE StartCheckedBuild(w)
    BY <1>4, <2>3 DEF StartCheckedBuild, Claiming
  <2>4. CASE UpdateJobBuild(w)
    <3>1. PICK st \in Reports(w), copy \in BOOLEAN, down \in BOOLEAN, blind \in BOOLEAN :
            req' = [req EXCEPT ![w] =
              [req[w] EXCEPT !.pc = "write", !.blind = blind,
                             !.st = IF blind THEN st ELSE Reported(req[w].key, st),
                             !.local = IF copy THEN @ ELSE st, !.down = down]]
      BY <2>4 DEF UpdateJobBuild
    <3>2. req[w].pc = "run"
      BY <2>4 DEF UpdateJobBuild
    <3> QED BY <1>1, <3>1, <3>2 DEF Busy, Request
  <2>5. CASE deleteBuild(w) \/ StopWork(w)
    BY <1>1, <2>5 DEF deleteBuild, StopWork
  <2> QED BY <1>5, <2>1, <2>2, <2>3, <2>4, <2>5 DEF Execution
<1>6. CASE Common(w)
  <2>1. CASE WriteBack(w)
    BY <1>1, <2>1, ReturnFields DEF WriteBack, Busy, Request
  <2>2. CASE EvaluateDownstreamJobs(w)
    BY <1>1, <2>2, ReturnFields DEF EvaluateDownstreamJobs, Busy, Request
  <2>3. CASE evaluateJobDownstream(w)
    <3>1. req[w].pc = "eval"
      BY <2>3 DEF evaluateJobDownstream
    <3>2. PICK j, i, left : /\ left = [req[w] EXCEPT !.rest = @ \ {j}]
                            /\ \/ req' = [req EXCEPT ![w] = Return(w)]
                               \/ req' = [req EXCEPT ![w] = left]
                               \/ req' = [req EXCEPT ![w] =
                                    [left EXCEPT !.pc = "older", !.job = j, !.new = i]]
      BY <2>3 DEF evaluateJobDownstream
    <3>3. left.id = req[w].id /\ [left EXCEPT !.pc = "older", !.job = j, !.new = i].id = req[w].id
      BY <1>1, <3>2 DEF Request
    <3> QED BY <1>1, <3>1, <3>2, <3>3, ReturnFields DEF Busy
  <2>4. CASE ListOlderBuilds(w)
    <3>1. PICK t : \/ req' = [req EXCEPT ![w] = Resume(w)]
                   \/ req' = [req EXCEPT ![w] = [req[w] EXCEPT !.pc = "cancel", !.todo = t]]
      BY <2>4 DEF ListOlderBuilds
    <3>2. req[w].pc = "older" /\ [req[w] EXCEPT !.pc = "cancel", !.todo = t].id = req[w].id
      BY <1>1, <2>4 DEF ListOlderBuilds, Request
    <3> QED BY <1>1, <3>1, <3>2, ResumeFields DEF Busy
  <2>5. CASE CancelOlderBuild(w)
    BY <1>1, <2>5, ResumeFields DEF CancelOlderBuild, Busy, Request
  <2>6. CASE ReturnError(w)
    BY <1>1, <2>6, ReturnFields DEF ReturnError, Busy
  <2> QED BY <1>6, <2>1, <2>2, <2>3, <2>4, <2>5, <2>6 DEF Common
<1> QED BY <1>1, <1>2, <1>3, <1>5, <1>6, Mover DEF Acts

-----------------------------------------------------------------------------
(* One runner.                                                             *)

\* A build that a worker executes, and that is regular, is no longer queued.
RunsOnce ==
  \A w \in Workers : Busy(req[w]) =>
    /\ req[w].id \in IDs /\ req[w].id <= lastID
    /\ Exists(req[w].id) /\ req[w].id \notin irregular =>
         builds[req[w].id].status \notin {"waiting", "pending"}

RunnerInv == TypeInv /\ RunsOnce /\ OneRunner

\* A claim starts a row that is there.
LEMMA StartsRow ==
  ASSUME TypeInv, NEW w \in Workers, Starts(w)
  PROVE  req[w].id \in IDs /\ req[w].id <= lastID /\ Exists(req[w].id)
<1>1. req[w].id \in IDs /\ builds[req[w].id].status = "pending"
  BY DEF Starts, Claiming, TypeInv, ReqOK, Good, Procs
<1> QED BY <1>1 DEF Exists, TypeInv, RowsOK

\* A regular row is queued only if it was queued before, or is new.
LEMMA QueuedBefore ==
  ASSUME TypeInv, TableMove, NEW i \in IDs, i <= lastID, Exists(i)', i \notin irregular',
         builds'[i].status \in {"waiting", "pending"}
  PROVE  Exists(i) /\ i \notin irregular /\ builds[i].status \in {"waiting", "pending"}
<1>1. ~Born(i)
  BY DEF Born, IDs, TypeInv, TableOK
<1> QED BY <1>1, RegularStep DEF Lived, Follows, Lifecycle

\* RunsOnce survives every step.
LEMMA RunsOnceNext == ASSUME TypeInv, TypeInv', RunsOnce, Next PROVE RunsOnce'
<1> SUFFICES ASSUME NEW w \in Workers, Busy(req'[w])
             PROVE  /\ req'[w].id \in IDs /\ req'[w].id <= lastID'
                    /\ builds'[req'[w].id].status # "none" /\ req'[w].id \notin irregular' =>
                         builds'[req'[w].id].status \notin {"waiting", "pending"}
  BY DEF RunsOnce, Busy, Exists
<1> DEFINE i == req[w].id
<1>1. req'[w].id = i /\ TableMove /\ (Busy(req[w]) \/ Starts(w))
  BY RunOrigin, TableMoves
<1>2. i \in IDs /\ i <= lastID
  BY <1>1, StartsRow DEF RunsOnce
<1>3. i <= lastID'
  <2>1. i \in Int /\ lastID \in Int /\ lastID' \in Int /\ lastID <= lastID'
    BY <1>1, <1>2, HistoryGrows DEF IDs, TypeInv, TableOK
  <2> QED BY <1>2, <2>1
<1>4. CASE Starts(w)
  <2>1. builds'[i].status = "started"
    BY <1>2, <1>4, StartsStep
  <2> QED BY <1>1, <1>2, <1>3, <2>1
<1>5. CASE Busy(req[w])
  BY <1>1, <1>2, <1>3, <1>5, QueuedBefore DEF RunsOnce, Exists
<1> QED BY <1>1, <1>4, <1>5

\* So does OneRunner: a build that is claimed was queued, and had no runner.
LEMMA OneRunnerNext == ASSUME TypeInv, TypeInv', RunsOnce, OneRunner, Next PROVE OneRunner'
<1> SUFFICES ASSUME NEW i \in IDs, Exists(i)', i \notin irregular',
                    NEW w \in Workers, NEW x \in Workers, Busy(req'[w]), Busy(req'[x]),
                    req'[w].id = i, req'[x].id = i
             PROVE  w = x
  BY DEF OneRunner, Executing, Busy, Rows
<1>1. /\ req[w].id = i /\ (Busy(req[w]) \/ Starts(w))
      /\ req[x].id = i /\ (Busy(req[x]) \/ Starts(x))
  BY RunOrigin
<1>2. Exists(i) /\ i \notin irregular
  <2>1. i <= lastID
    BY <1>1, StartsRow DEF RunsOnce
  <2>2. ~Born(i)
    BY <2>1 DEF Born, IDs, TypeInv, TableOK
  <2> QED BY <2>2, TableMoves, RegularStep DEF Lived
<1>3. ASSUME NEW y \in Workers, NEW z \in Workers, req[y].id = i, req[z].id = i,
             Starts(y), Busy(req[z])
      PROVE  FALSE
  BY <1>2, <1>3 DEF Starts, RunsOnce
<1>4. CASE Busy(req[w]) /\ Busy(req[x])
  BY <1>1, <1>2, <1>4 DEF OneRunner, Executing, Busy, Rows
<1>5. CASE Starts(w) /\ Starts(x)
  <2>1. Claiming(req[w]) /\ Claiming(req[x])
    BY <1>5 DEF Starts
  <2>2. ~Claiming(req'[w]) /\ ~Claiming(req'[x])
    BY DEF Busy, Claiming
  <2>3. req'[w] # req[w] /\ req'[x] # req[x]
    BY <2>1, <2>2
  <2>4. ~Restart
    BY <1>5, StartsStep, RestartStep, StartsRow
  <2> QED BY <2>3, <2>4, Mover DEF Procs
<1> QED BY <1>1, <1>3, <1>4, <1>5

\* Nobody runs anything at first, and every step keeps RunnerInv.
LEMMA RunnerInductive == (Init => RunnerInv) /\ (RunnerInv /\ [Next]_vars => RunnerInv')
<1>1. ASSUME Init PROVE RunnerInv
  <2>1. TypeInv
    BY <1>1, TypeInit
  <2>2. RunsOnce
    BY <1>1 DEF Init, RunsOnce, Busy, Idle, Procs
  <2>3. OneRunner
    BY <1>1 DEF Init, OneRunner, Rows, Exists, NoRow
  <2> QED BY <2>1, <2>2, <2>3 DEF RunnerInv
<1>2. ASSUME RunnerInv, Next PROVE RunnerInv'
  <2>1. TypeInv'
    BY <1>2, TypeNext DEF RunnerInv
  <2> QED BY <1>2, <2>1, RunsOnceNext, OneRunnerNext DEF RunnerInv
<1>3. ASSUME RunnerInv, UNCHANGED vars PROVE RunnerInv'
  <2>1. TypeInv'
    BY <1>3, TypeNext DEF RunnerInv
  <2> QED BY <1>3, <2>1 DEF RunnerInv, vars, RunsOnce, Busy, Exists, OneRunner, Executing, Rows
<1> QED BY <1>1, <1>2, <1>3

\* However many workers choose the same pending build, a regular build is
\* executed by one of them, also on a database where the choice, the checks
\* and the start are three statements, and across restarts and deletions.
THEOREM OneRunnerCorrect == Spec => []OneRunner
<1>1. RunnerInv => OneRunner
  BY DEF RunnerInv
<1> QED BY <1>1, RunnerInductive, PTL DEF Spec

-----------------------------------------------------------------------------
(* What failing statements leave behind.                                   *)

\* A build whose creation or cancellation has met a failure is remembered so
\* while its row is there.
LEMMA SlipsGrow ==
  ASSUME Next, NEW i \in IDs, Exists(i)'
  PROVE  (i \in ungated => i \in ungated') /\ (i \in spared => i \in spared')
<1> DEFINE Grown == (i \in ungated => i \in ungated') /\ (i \in spared => i \in spared')
<1>1. CASE UNCHANGED slips
  BY <1>1 DEF slips
<1>2. ASSUME NEW k, Delete(k) PROVE Grown
  <2>1. i \notin Find(k)
    BY <1>2 DEF Delete, Exists, NoRow
  <2> QED BY <1>2, <2>1 DEF Delete
<1>3. ASSUME NEW c \in Clients, Handler(c) PROVE Grown
  <2>1. CASE CreateBuild(c)
    BY <1>1, <2>1 DEF CreateBuild
  <2> QED BY <1>1, <1>2, <1>3, <2>1
          DEF Handler, CreateJobBuild, RetryJobBuild, FailCreate, CreateApproval, slips,
              cancelMismatchedPendingBuilds, CancelJobBuild, MarkBuildAsWarning, Vote,
              ApproveBuild, DeleteJobBuild
<1>4. ASSUME NEW w \in Workers, Execution(w) PROVE Grown
  BY <1>1, <1>2, <1>4
     DEF Execution, NextWork, StartPendingBuild, StartCheckedBuild, StartPending, slips,
         UpdateJobBuild, deleteBuild, StopWork
<1>5. ASSUME NEW p \in Procs, Common(p) PROVE Grown
  <2>1. CASE ListOlderBuilds(p) \/ CancelOlderBuild(p)
    BY <1>1, <2>1 DEF ListOlderBuilds, CancelOlderBuild
  <2> QED BY <1>1, <1>5, <2>1
          DEF Common, WriteBack, ReturnError, EvaluateDownstreamJobs, evaluateJobDownstream
<1>6. ASSUME NEW j \in Jobs, PauseJob(j) \/ UnpauseJob(j) PROVE Grown
  BY <1>1, <1>6 DEF PauseJob, UnpauseJob, slips
<1>7. CASE Restart
  BY <1>7 DEF Restart
<1> QED BY <1>3, <1>4, <1>5, <1>6, <1>7 DEF Next

-----------------------------------------------------------------------------
(* The approval gate.                                                      *)

\* A request that votes on a build, or will queue it, and what it knows of it:
\* the row that it has read has still its key, or the key is gone.
Deciding(r) == r.pc \in {"vote", "count"} \/ (r.pc = "write" /\ r.st = "pending")
Known(r)    == r.key \in gone \/ (Exists(r.id) /\ Key(builds[r.id]) = r.key)

Enough(r) == Cardinality(Approvals(r.id)) >= ApproveCount[r.key.job]

\* What the request has counted still holds of the row that it has read.
Fits(r) ==
  /\ Deciding(r) => r.id \in IDs /\ Known(r)
  /\ r.pc = "write" /\ r.st = "pending" => r.key \in gone \/ Enough(r)

\* A worker never reports a build as queued.
Results == {"started", "succeeded", "failed", "warning", "cancelled"}

GateInv ==
  /\ TypeInv /\ UniqueKeys /\ GoneKeys /\ GateRespected
  /\ \A p \in Procs : Fits(req[p]) /\ req[p].local \in Results

\* The approvals of a row are not taken back while the row is there.
LEMMA ApprovalsGrow ==
  ASSUME TypeInv, TableMove, NEW i \in IDs, Exists(i), Exists(i)'
  PROVE  Approvals(i) \subseteq Approvals(i)'
<1>1. CASE votes' = votes
  BY <1>1 DEF Approvals
<1>2. ASSUME NEW k, Delete(k) PROVE votes'[i] = votes[i]
  BY <1>2, DeleteStep
<1>3. ASSUME NEW c \in Clients, CreateApproval(c) PROVE Approvals(i) \subseteq Approvals(i)'
  <2>1. votes \in [IDs -> [Users -> {"none", "approved", "rejected"}]]
    BY DEF TypeInv, TableOK
  <2>2. \/ votes' = votes
        \/ /\ votes[req[c].id][req[c].user] = "none"
           /\ votes' = [votes EXCEPT ![req[c].id][req[c].user] = req[c].st]
    BY <1>3 DEF CreateApproval
  <2>3. \A u \in Users : votes[i][u] = "approved" => votes'[i][u] = "approved"
    BY <2>1, <2>2
  <2> QED BY <2>3 DEF Approvals
<1>4. ASSUME NEW p \in Procs, WriteBack(p) \/ CancelsRow(p) PROVE votes' = votes
  BY <1>4, WritesStatus DEF Update
<1>5. ASSUME NEW p \in Procs, NEW k \in IDs, NewRow(p, k) PROVE votes' = votes
  BY <1>5, NewRowStep
<1>6. CASE Restart
  BY <1>1, <1>6 DEF Restart
<1> QED BY <1>1, <1>2, <1>3, <1>4, <1>5, <1>6 DEF TableMove, Approvals

\* So their number does not shrink.
LEMMA CountGrows ==
  ASSUME TypeInv, TableMove, NEW i \in IDs, Exists(i), Exists(i)'
  PROVE  /\ Cardinality(Approvals(i)) \in Nat /\ Cardinality(Approvals(i)') \in Nat
         /\ Cardinality(Approvals(i)) <= Cardinality(Approvals(i)')
<1>1. Approvals(i) \subseteq Users /\ Approvals(i)' \subseteq Users /\ IsFiniteSet(Users)
  BY Assumptions DEF Approvals
<1>2. IsFiniteSet(Approvals(i)')
  BY <1>1, FS_Subset
<1> QED BY <1>2, ApprovalsGrow, FS_Subset, FS_CardinalityType

\* What fits a request before a step of another process fits it afterwards.
LEMMA FitsKept ==
  ASSUME TypeInv, TableMove, NEW r, Fits(r), Deciding(r) => r.key.job \in Jobs
  PROVE  Fits(r)'
<1> SUFFICES ASSUME Deciding(r) PROVE Fits(r)'
  BY DEF Fits, Deciding
<1>1. r.id \in IDs /\ Known(r) /\ gone \subseteq gone'
  BY HistoryGrows DEF Fits
<1>2. Known(r)'
  BY <1>1, RowKept DEF Known
<1>3. ASSUME r.pc = "write", r.st = "pending", r.key \notin gone' PROVE Enough(r)'
  <2>1. Exists(r.id) /\ Exists(r.id)' /\ Enough(r)
    BY <1>1, <1>2, <1>3 DEF Known, Fits
  <2>2. ApproveCount[r.key.job] \in Nat
    BY Assumptions
  <2> QED BY <1>1, <2>1, <2>2, CountGrows DEF Enough
<1> QED BY <1>1, <1>2, <1>3 DEF Fits, Deciding

\* The request holds a row that it has read.
Holding(r) == r.pc \in {"vote", "count", "write"}

\* The request that process p is left with is about no vote.
Undecided(p) == ~Deciding(req'[p]) /\ req'[p].local \in Results

\* A process that only reads and writes rows, or returns, is such a one.
LEMMA CommonUndecided ==
  ASSUME TypeInv, NEW p \in Procs, req[p].local \in Results, Common(p)
  PROVE  Undecided(p) /\ ~Holding(req'[p])
<1>1. req[p] \in Request /\ req \in [Procs -> Request] /\ "started" \in Results
  BY DEF TypeInv, ReqOK, Results
<1>2. CASE WriteBack(p)
  BY <1>1, <1>2, ReturnFields DEF WriteBack, Undecided, Holding, Deciding, Request
<1>3. CASE EvaluateDownstreamJobs(p)
  BY <1>1, <1>3, ReturnFields DEF EvaluateDownstreamJobs, Undecided, Holding, Deciding, Request
<1>4. CASE evaluateJobDownstream(p)
  <2>1. req[p].pc = "eval"
    BY <1>4 DEF evaluateJobDownstream
  <2>2. PICK j, i, left : /\ left = [req[p] EXCEPT !.rest = @ \ {j}]
                          /\ \/ req' = [req EXCEPT ![p] = Return(p)]
                             \/ req' = [req EXCEPT ![p] = left]
                             \/ req' = [req EXCEPT ![p] =
                                  [left EXCEPT !.pc = "older", !.job = j, !.new = i]]
    BY <1>4 DEF evaluateJobDownstream
  <2> DEFINE next == [left EXCEPT !.pc = "older", !.job = j, !.new = i]
  <2>3. /\ left.pc = "eval" /\ left.local = req[p].local
        /\ next.pc = "older" /\ next.local = req[p].local
    BY <1>1, <2>1, <2>2 DEF Request
  <2> QED BY <1>1, <2>2, <2>3, ReturnFields DEF Undecided, Holding, Deciding
<1>5. CASE ListOlderBuilds(p)
  <2>1. PICK t : \/ req' = [req EXCEPT ![p] = Resume(p)]
                 \/ req' = [req EXCEPT ![p] = [req[p] EXCEPT !.pc = "cancel", !.todo = t]]
    BY <1>5 DEF ListOlderBuilds
  <2> DEFINE next == [req[p] EXCEPT !.pc = "cancel", !.todo = t]
  <2>2. next.pc = "cancel" /\ next.local = req[p].local
    BY <1>1 DEF Request
  <2> QED BY <1>1, <2>1, <2>2, ResumeFields DEF Undecided, Holding, Deciding
<1>6. CASE CancelOlderBuild(p)
  BY <1>1, <1>6, ResumeFields DEF CancelOlderBuild, Undecided, Holding, Deciding, Request
<1>7. CASE ReturnError(p)
  <2>1. req'[p] = Idle \/ req'[p] = Return(p)
    BY <1>1, <1>7 DEF ReturnError
  <2>2. Idle.pc = "idle" /\ Idle.local = "started"
    BY DEF Idle
  <2> QED BY <1>1, <2>1, <2>2, ReturnFields DEF Undecided, Holding, Deciding
<1> QED BY <1>2, <1>3, <1>4, <1>5, <1>6, <1>7 DEF Common

\* So is a worker: its reports queue no build.
LEMMA ExecutionUndecided ==
  ASSUME TypeInv, NEW w \in Workers, req[w].local \in Results, Execution(w)
  PROVE  Undecided(w)
<1>1. /\ w \in Procs /\ Idle \in Request /\ req[w] \in Request /\ req \in [Procs -> Request]
      /\ "started" \in Results /\ Idle.local = "started" /\ Idle.pc = "idle"
  BY IdleGood DEF Procs, Good, TypeInv, ReqOK, Results, Idle
<1>2. CASE req' = [req EXCEPT ![w] = Idle]
  BY <1>1, <1>2 DEF Undecided, Deciding
<1>3. CASE \E j \in Jobs : NextWork(w, j)
  <2>1. PICK i, j : req' = [req EXCEPT ![w] = [Idle EXCEPT !.pc = "claim", !.id = i, !.job = j]]
    BY <1>3 DEF NextWork
  <2> QED BY <1>1, <2>1 DEF Undecided, Deciding, Request
<1>4. CASE StartPending(w)
  <2>1. PICK r \in {Idle,
                     [Idle EXCEPT !.pc = "run", !.id = req[w].id, !.local = "started",
                        !.key = [job |-> req[w].job, num |-> builds[req[w].id].num,
                                 sub |-> builds[req[w].id].sub]]} :
          req' = [req EXCEPT ![w] = r]
    BY <1>4 DEF StartPending
  <2>2. r.pc \in {"idle", "run"} /\ r.local = "started"
    BY <1>1, <2>1 DEF Request
  <2> QED BY <1>1, <2>1, <2>2 DEF Undecided, Deciding
<1>5. CASE req' = [req EXCEPT ![w].pc = "checked"]
  BY <1>1, <1>5 DEF Undecided, Deciding, Request
<1>6. CASE UpdateJobBuild(w)
  <2>1. PICK st \in Reports(w), copy \in BOOLEAN, down \in BOOLEAN, blind \in BOOLEAN :
          req' = [req EXCEPT ![w] =
            [req[w] EXCEPT !.pc = "write", !.blind = blind,
                           !.st = IF blind THEN st ELSE Reported(req[w].key, st),
                           !.local = IF copy THEN @ ELSE st, !.down = down]]
    BY <1>6 DEF UpdateJobBuild
  <2>2. st \in Results
    BY DEF Reports, Results
  <2>3. Reported(req[w].key, st) \in Results
    BY <2>2 DEF Reported, Results
  <2>4. req'[w].st \in {st, Reported(req[w].key, st)} /\ req'[w].local \in {st, req[w].local}
        /\ req'[w].pc = "write"
    BY <1>1, <2>1 DEF Request
  <2> QED BY <2>2, <2>3, <2>4 DEF Undecided, Deciding, Results
<1> QED BY <1>2, <1>3, <1>4, <1>5, <1>6
        DEF Execution, StartPendingBuild, StartCheckedBuild, deleteBuild, StopWork

\* And a handler, until it votes.
LEMMA HandlerUndecided ==
  ASSUME TypeInv, NEW c \in Clients, req[c].local \in Results, Handler(c)
  PROVE  \/ Undecided(c)
         \/ CreateApproval(c) \/ ApproveBuild(c)
         \/ \E k, u, x : Vote(c, k, u, x)
         \/ UNCHANGED req
<1>1. /\ c \in Procs /\ Idle \in Request /\ req[c] \in Request /\ req \in [Procs -> Request]
      /\ "started" \in Results /\ Idle.local = "started" /\ Idle.pc = "idle"
  BY IdleGood DEF Procs, Good, TypeInv, ReqOK, Results, Idle
<1>2. ASSUME NEW j \in Jobs, CreateJobBuild(c, j) PROVE Undecided(c)
  <2>1. PICK read : req' = [req EXCEPT ![c] =
          [Idle EXCEPT !.pc = "create", !.job = read,
                       !.key = [job |-> j, num |-> 0, sub |-> 0]]]
    BY <1>2 DEF CreateJobBuild
  <2> QED BY <1>1, <2>1 DEF Undecided, Deciding, Request
<1>3. ASSUME NEW j \in Jobs, cancelMismatchedPendingBuilds(c, j) PROVE Undecided(c)
  <2>1. PICK t : req' = [req EXCEPT ![c] = [Idle EXCEPT !.pc = "cancel", !.job = j, !.todo = t]]
    BY <1>3 DEF cancelMismatchedPendingBuilds
  <2> QED BY <1>1, <2>1 DEF Undecided, Deciding, Request
<1>4. CASE CreateBuild(c)
  <2>1. PICK i, j : req' = [req EXCEPT ![c] = AfterCreate(c, j, i)]
    BY <1>4 DEF CreateBuild
  <2>2. AfterCreate(c, j, i).pc \in {"older", "idle", "run", "eval"}
        /\ AfterCreate(c, j, i).local \in {"started", req[c].local}
    BY <1>1, ResumeFields DEF AfterCreate, Request
  <2> QED BY <1>1, <2>1, <2>2 DEF Undecided, Deciding
<1>5. CASE FailCreate(c)
  BY <1>1, <1>5 DEF FailCreate, Undecided, Deciding
<1>6. ASSUME NEW k, RetryJobBuild(c, k) PROVE Undecided(c)
  BY <1>1, <1>6 DEF RetryJobBuild, Undecided, Deciding, Request
<1>7. ASSUME NEW k, CancelJobBuild(c, k) \/ MarkBuildAsWarning(c, k) PROVE Undecided(c)
  <2>1. PICK i, st, down : WillWrite(c, i, st, down) /\ st \in {"cancelled", "warning"}
    BY <1>7 DEF CancelJobBuild, MarkBuildAsWarning
  <2> QED BY <1>1, <2>1 DEF WillWrite, Undecided, Deciding, Request
<1> QED BY <1>2, <1>3, <1>4, <1>5, <1>6, <1>7 DEF Handler, DeleteJobBuild

\* What a request has read and counted still fits it after every step.
LEMMA FitsNext ==
  ASSUME GateInv, Next, NEW p \in Procs
  PROVE  Fits(req[p])' /\ req'[p].local \in Results
<1>1. /\ TypeInv /\ TableMove /\ Fits(req[p]) /\ req[p].local \in Results
      /\ req[p] \in Request /\ Idle \in Request /\ req \in [Procs -> Request]
      /\ Idle.local = "started" /\ Idle.pc = "idle" /\ "started" \in Results
  BY TableMoves, IdleGood DEF GateInv, TypeInv, ReqOK, Good, Results, Idle
<1>2. ASSUME NEW r, Fits(r)', r = req'[p] PROVE Fits(req[p])'
  BY <1>2 DEF Fits, Deciding, Known, Enough, Approvals, Exists
<1>3. CASE Undecided(p)
  BY <1>3 DEF Undecided, Fits, Deciding
<1>4. CASE req'[p] = req[p]
  <2>1. Deciding(req[p]) => req[p].key.job \in Jobs
    BY <1>1 DEF Deciding, TypeInv, ReqOK, Good, Keyed
  <2>2. \A r : r = req[p] => Fits(r)'
    BY <1>1, <2>1, FitsKept
  <2> QED BY <1>1, <1>2, <1>4, <2>2
<1>5. ASSUME NEW k, NEW u, NEW x, p \in Clients, Vote(p, k, u, x)
      PROVE  Fits(req[p])' /\ req'[p].local \in Results
  <2>1. PICK i \in Find(k) :
          req' = [req EXCEPT ![p] = [Idle EXCEPT !.pc = "vote", !.key = k, !.id = i,
                                                 !.user = u, !.st = x]]
    BY <1>5 DEF Vote
  <2>2. /\ req'[p].pc = "vote" /\ req'[p].key = k /\ req'[p].id = i
        /\ req'[p].local = "started"
    BY <1>1, <2>1 DEF Request
  <2>3. i \in IDs /\ Exists(i) /\ Key(builds[i]) = k /\ builds' = builds
    BY <1>5, <2>1 DEF Find, Rows, Vote, Table
  <2> QED BY <1>1, <2>2, <2>3 DEF Fits, Deciding, Known, Exists
<1>6. ASSUME p \in Clients, CreateApproval(p)
      PROVE  Fits(req[p])' /\ req'[p].local \in Results
  <2>1. CASE req' = [req EXCEPT ![p] = [req[p] EXCEPT !.pc = "count"]]
    <3>1. /\ req'[p].pc = "count" /\ req'[p].key = req[p].key /\ req'[p].id = req[p].id
          /\ req'[p].local = req[p].local
      BY <1>1, <2>1 DEF Request
    <3>2. Deciding(req[p]) /\ req[p].id \in IDs /\ Known(req[p])
      BY <1>1, <1>6 DEF CreateApproval, Deciding, Fits
    <3>3. builds' = builds /\ gone' = gone
      BY <1>6 DEF CreateApproval
    <3> QED BY <1>1, <3>1, <3>2, <3>3 DEF Fits, Deciding, Known, Exists
  <2>2. CASE req' = [req EXCEPT ![p] = [req[p] EXCEPT !.pc = "write", !.st = "failed"]]
    <3>1. req'[p].pc = "write" /\ req'[p].st = "failed" /\ req'[p].local = req[p].local
      BY <1>1, <2>2 DEF Request
    <3> QED BY <1>1, <1>3, <3>1 DEF Undecided, Deciding
  <2>3. CASE req' = [req EXCEPT ![p] = Idle]
    BY <1>1, <1>3, <2>3 DEF Undecided, Deciding
  <2> QED BY <1>6, <2>1, <2>2, <2>3 DEF CreateApproval
<1>7. ASSUME p \in Clients, ApproveBuild(p)
      PROVE  Fits(req[p])' /\ req'[p].local \in Results
  <2>1. CASE req' = [req EXCEPT ![p] = Idle]
    BY <1>1, <1>3, <2>1 DEF Undecided, Deciding
  <2>2. CASE /\ Enough(req[p])
             /\ req' = [req EXCEPT ![p] = [req[p] EXCEPT !.pc = "write", !.st = "pending"]]
    <3>1. /\ req'[p].key = req[p].key /\ req'[p].id = req[p].id
          /\ req'[p].local = req[p].local
      BY <1>1, <2>2 DEF Request
    <3>2. Deciding(req[p]) /\ req[p].id \in IDs /\ Known(req[p])
      BY <1>1, <1>7 DEF ApproveBuild, Deciding, Fits
    <3>3. builds' = builds /\ gone' = gone /\ votes' = votes
      BY <1>7 DEF ApproveBuild, Table
    <3> QED BY <1>1, <2>2, <3>1, <3>2, <3>3 DEF Fits, Known, Exists, Enough, Approvals
  <2> QED BY <1>7, <2>1, <2>2 DEF ApproveBuild, Enough
<1>8. CASE Restart
  <2>1. req'[p] = Idle \/ req'[p] = Return(p)
    BY <1>8 DEF Restart
  <2> QED BY <1>1, <1>3, <2>1, ReturnFields DEF Undecided, Deciding
<1>9. CASE Acts(p)
  BY <1>1, <1>3, <1>4, <1>5, <1>6, <1>7, <1>9, CommonUndecided, ExecutionUndecided,
     HandlerUndecided DEF Acts, Undecided
<1> QED BY <1>1, <1>4, <1>8, <1>9, Mover

\* A build that is queued by its last approval is the one the votes are about.
LEMMA QueuedApproved ==
  ASSUME GateInv, NEW p \in Procs, req[p].pc = "write", req[p].st = "pending",
         NEW i \in Find(req[p].key), i \notin irregular
  PROVE  Cardinality(Approvals(i)) >= ApproveCount[builds[i].job]
<1>1. i \in Rows /\ Key(builds[i]) = req[p].key
  BY DEF Find
<1>2. Fits(req[p]) /\ req[p].key \notin gone
  BY <1>1 DEF GateInv, GoneKeys
<1>3. req[p].id \in IDs /\ Exists(req[p].id) /\ Key(builds[req[p].id]) = req[p].key /\ Enough(req[p])
  BY <1>2 DEF Fits, Deciding, Known
<1>4. req[p].id = i
  BY <1>1, <1>3 DEF GateInv, UniqueKeys, Rows
<1>5. req[p].key.job = builds[i].job
  BY <1>1 DEF Key
<1> QED BY <1>3, <1>4, <1>5 DEF Enough

\* Only an approval moves a regular row from waiting to pending.
LEMMA QueuedBy ==
  ASSUME TypeInv, TableMove, NEW i \in IDs, builds[i].status = "waiting",
         builds'[i].status = "pending"
  PROVE  \E p \in Procs : req[p].pc = "write" /\ req[p].st = "pending" /\ i \in Find(req[p].key)
<1>1. ASSUME NEW p \in Procs, WriteBack(p) \/ CancelsRow(p)
      PROVE  req[p].pc = "write" /\ req[p].st = "pending" /\ i \in Find(req[p].key)
  <2>1. PICK st \in Status : \E k :
           /\ Update(k, st)
           /\ \/ WriteBack(p) /\ k = req[p].key /\ st = req[p].st
              \/ CancelsRow(p) /\ k \in req[p].todo /\ st = "cancelled"
    BY <1>1, WritesStatus
  <2> QED BY <2>1, UpdateStep DEF WriteBack
<1>2. ASSUME NEW k, Delete(k) PROVE FALSE
  BY <1>2, DeleteStep DEF NoRow
<1>3. ASSUME NEW p \in Procs, NEW k \in IDs, NewRow(p, k) PROVE FALSE
  <2>1. ~Exists(k) /\ (k # i => builds'[i] = builds[i])
    BY <1>3, NewRowStep
  <2> QED BY <2>1 DEF Exists
<1>4. ASSUME NEW w \in Workers, Starts(w) PROVE FALSE
  BY <1>4, StartsStep
<1>5. CASE Restart
  BY <1>5, RestartStep
<1> QED BY <1>1, <1>2, <1>3, <1>4, <1>5 DEF TableMove, CreateApproval

\* The gate survives every step.
LEMMA GateNext == ASSUME GateInv, Next PROVE GateRespected'
<1> SUFFICES ASSUME NEW i \in IDs, Exists(i)', i \notin irregular', i \notin ungated',
                    builds'[i].sub = 0,
                    builds'[i].status \in {"pending", "started", "succeeded"}
             PROVE  Cardinality(Approvals(i)') >= ApproveCount[builds'[i].job]
  BY DEF GateRespected, Rows, Approvals
<1>1. TypeInv /\ TableMove
  BY TableMoves DEF GateInv
<1>2. CASE Born(i)
  <2>1. builds'[i].status = "pending" /\ builds'[i].status = InitialStatus(builds'[i].job)
    BY <1>2 DEF Born
  <2>2. builds'[i].job \in Jobs
    BY TypeNext DEF GateInv, TypeInv, RowsOK
  <2>3. ApproveCount[builds'[i].job] = 0
    BY <2>1, <2>2, Assumptions DEF InitialStatus
  <2>4. Cardinality(Approvals(i)') \in Nat
    <3>1. Approvals(i)' \subseteq Users
      BY DEF Approvals
    <3> QED BY <3>1, Assumptions, FS_Subset, FS_CardinalityType
  <2> QED BY <2>3, <2>4
<1>3. CASE Lived(i)
  <2>1. /\ Exists(i) /\ i \notin irregular /\ i \in Rows
        /\ builds'[i].job = builds[i].job /\ builds'[i].sub = builds[i].sub
        /\ i \notin ungated
    BY <1>3, SlipsGrow DEF Lived, Rows, Key
  <2>2. Cardinality(Approvals(i)) >= ApproveCount[builds[i].job]
    <3>1. CASE builds[i].status \in {"pending", "started", "succeeded"}
      BY <2>1, <3>1 DEF GateInv, GateRespected, Approvals
    <3>2. CASE builds[i].status \notin {"pending", "started", "succeeded"}
      <4>1. builds[i].status = "waiting" /\ builds'[i].status = "pending"
        BY <1>3, <3>2 DEF Lived, Follows, Lifecycle
      <4> QED BY <1>1, <2>1, <4>1, QueuedBy, QueuedApproved
    <3> QED BY <3>1, <3>2
  <2>3. ApproveCount[builds[i].job] \in Nat
    BY <2>1, Assumptions DEF GateInv, TypeInv, RowsOK
  <2> QED BY <1>1, <2>1, <2>2, <2>3, CountGrows
<1> QED BY <1>1, <1>2, <1>3, RegularStep

\* The invariant holds of the empty table, and every step keeps it.
LEMMA GateInductive == (Init => GateInv) /\ (GateInv /\ [Next]_vars => GateInv')
<1>1. ASSUME Init PROVE GateInv
  <2>1. TypeInv
    BY <1>1, TypeInit
  <2>2. UniqueKeys /\ GoneKeys /\ GateRespected
    BY <1>1 DEF Init, UniqueKeys, GoneKeys, GateRespected, Rows, Exists, NoRow
  <2>3. \A p \in Procs : Fits(req[p]) /\ req[p].local \in Results
    BY <1>1 DEF Init, Fits, Deciding, Idle, Results
  <2> QED BY <2>1, <2>2, <2>3 DEF GateInv
<1>2. ASSUME GateInv, Next PROVE GateInv'
  <2>1. TypeInv' /\ UniqueKeys' /\ GoneKeys' /\ GateRespected'
    BY <1>2, TypeNext, TableMoves, UniqueKeysNext, GoneKeysNext, GateNext DEF GateInv
  <2> QED BY <1>2, <2>1, FitsNext DEF GateInv
<1>3. ASSUME GateInv, UNCHANGED vars PROVE GateInv'
  <2>1. TypeInv'
    BY <1>3, TypeNext DEF GateInv
  <2>2. UniqueKeys' /\ GoneKeys' /\ GateRespected'
    BY <1>3 DEF GateInv, vars, slips, UniqueKeys, GoneKeys, GateRespected, Rows, Exists
  <2>3. (\A p \in Procs : Fits(req[p]) /\ req[p].local \in Results)'
    BY <1>3 DEF GateInv, vars, Fits, Deciding, Known, Enough, Approvals, Exists
  <2> QED BY <2>1, <2>2, <2>3 DEF GateInv
<1> QED BY <1>1, <1>2, <1>3

\* A regular build of a gated job, unless its creator could not read the job,
\* is queued, runs and succeeds only with the approvals that its gate asks for,
\* for any number of voters and of requests that vote, cancel, delete and create
\* builds meanwhile, whichever of their statements fail.
THEOREM GateCorrect == Spec => []GateRespected
<1>1. GateInv => GateRespected
  BY DEF GateInv
<1> QED BY <1>1, GateInductive, PTL DEF Spec

-----------------------------------------------------------------------------
(* Cancellations.                                                          *)

\* A build that is over, or cancelled, is not written as anything else by a
\* statement that does not write back what a request holds.
LEMMA CancelledRow ==
  ASSUME TypeInv, UniqueKeys, Next, NEW i \in IDs, Settled(i)
  PROVE  builds'[i] = NoRow \/ (builds'[i].status = "cancelled" /\ Key(builds'[i]) = Key(builds[i]))
<1>1. builds[i].status = "cancelled" /\ Exists(i) /\ TableMove
  BY TableMoves DEF Settled, Exists
<1>2. ASSUME NEW p \in Procs, WriteBack(p) \/ CancelsRow(p)
      PROVE  builds'[i].status = "cancelled" /\ Key(builds'[i]) = Key(builds[i])
  <2>1. PICK st \in Status, k \in {req[p].key} \cup req[p].todo :
           /\ Update(k, st)
           /\ \/ WriteBack(p) /\ k = req[p].key /\ st = req[p].st
              \/ CancelsRow(p) /\ k \in req[p].todo /\ st = "cancelled"
    BY <1>2, WritesStatus
  <2>2. CASE i \notin Find(k)
    BY <1>1, <2>1, <2>2, UpdateStep
  <2>3. CASE i \in Find(k)
    <3>1. Key(builds[i]) = k
      BY <2>3 DEF Find
    <3>2. st = "cancelled"
      BY <2>1, <3>1 DEF Settled, WriteBack
    <3> QED BY <2>1, <2>3, <3>2, UpdateStep
  <2> QED BY <2>2, <2>3
<1>3. ASSUME NEW k, Delete(k)
      PROVE  builds'[i] = NoRow \/ builds'[i] = builds[i]
  BY <1>3, DeleteStep
<1>4. ASSUME NEW p \in Procs, NEW k \in IDs, NewRow(p, k) PROVE builds'[i] = builds[i]
  BY <1>1, <1>4, NewRowStep
<1>5. ASSUME NEW w \in Workers, Starts(w) PROVE builds'[i] = builds[i]
  BY <1>1, <1>5, StartsStep
<1>6. CASE Restart
  BY <1>1, <1>6, RestartStep
<1> QED BY <1>1, <1>2, <1>3, <1>4, <1>5, <1>6 DEF TableMove, CreateApproval

\* No request begins to hold a settled build, unless its Find fails: what a
\* worker reports about it is turned into "cancelled", and the handlers that
\* read rows refuse it.
LEMMA SettledRequest ==
  ASSUME GateInv, Next, NEW i \in IDs, Settled(i), NEW p \in Procs,
         Holding(req'[p]), req'[p].key = Key(builds[i]), ~req'[p].blind
  PROVE  req'[p].pc = "write" /\ req'[p].st = "cancelled"
<1>1. /\ TypeInv /\ i \in Rows /\ builds[i].status = "cancelled"
      /\ req[p] \in Request /\ Idle \in Request /\ req \in [Procs -> Request]
      /\ Idle.pc = "idle" /\ req[p].local \in Results
  BY IdleGood DEF GateInv, TypeInv, ReqOK, Good, Idle, Settled, Rows, Exists
<1>2. CASE req'[p] = req[p]
  BY <1>2 DEF Settled, Holding
<1>3. CASE Restart
  <2>1. req'[p] = Idle \/ req'[p] = Return(p)
    BY <1>3 DEF Restart
  <2> QED BY <1>1, <2>1, ReturnFields DEF Holding
<1>4. CASE Common(p)
  BY <1>1, <1>4, CommonUndecided
<1>5. ASSUME NEW x \in Rows, Key(builds[x]) = Key(builds[i]) PROVE x = i
  BY <1>1, <1>5 DEF GateInv, UniqueKeys
<1>6. ASSUME p \in Workers, Execution(p)
      PROVE  req'[p].pc = "write" /\ req'[p].st = "cancelled"
  <2>1. CASE UpdateJobBuild(p)
    <3>1. PICK st \in Reports(p), copy \in BOOLEAN, down \in BOOLEAN, blind \in BOOLEAN :
            req' = [req EXCEPT ![p] =
              [req[p] EXCEPT !.pc = "write", !.blind = blind,
                             !.st = IF blind THEN st ELSE Reported(req[p].key, st),
                             !.local = IF copy THEN @ ELSE st, !.down = down]]
      BY <2>1 DEF UpdateJobBuild
    <3>2. /\ req'[p].pc = "write" /\ req'[p].key = req[p].key /\ req'[p].blind = blind
          /\ req'[p].st = IF blind THEN st ELSE Reported(req[p].key, st)
      BY <1>1, <3>1 DEF Request
    <3>3. i \in Find(req[p].key)
      BY <1>1, <3>2 DEF Find
    <3> QED BY <1>1, <3>2, <3>3 DEF Reported
  <2>2. CASE ~UpdateJobBuild(p)
    <3>1. CASE req' = [req EXCEPT ![p] = Idle]
      BY <1>1, <3>1 DEF Holding
    <3>2. CASE \E j \in Jobs : NextWork(p, j)
      <4>1. PICK x, j : req' = [req EXCEPT ![p] = [Idle EXCEPT !.pc = "claim", !.id = x, !.job = j]]
        BY <3>2 DEF NextWork
      <4> QED BY <1>1, <4>1 DEF Holding, Request
    <3>3. CASE StartPending(p)
      <4>1. PICK r \in {Idle,
                         [Idle EXCEPT !.pc = "run", !.id = req[p].id, !.local = "started",
                            !.key = [job |-> req[p].job, num |-> builds[req[p].id].num,
                                     sub |-> builds[req[p].id].sub]]} :
              req' = [req EXCEPT ![p] = r]
        BY <3>3 DEF StartPending
      <4>2. r.pc \in {"idle", "run"}
        BY <1>1, <4>1 DEF Request
      <4> QED BY <1>1, <4>1, <4>2 DEF Holding
    <3>4. CASE req' = [req EXCEPT ![p].pc = "checked"]
      BY <1>1, <3>4 DEF Holding, Request
    <3> QED BY <1>6, <2>2, <3>1, <3>2, <3>3, <3>4
            DEF Execution, StartPendingBuild, StartCheckedBuild, deleteBuild, StopWork
  <2> QED BY <2>1, <2>2
<1>7. ASSUME p \in Clients, Handler(p), req'[p] # req[p] PROVE FALSE
  <2>1. ASSUME NEW k, CancelJobBuild(p, k) \/ MarkBuildAsWarning(p, k) PROVE FALSE
    <3>1. PICK x \in Find(k) :
            builds[x].status # "cancelled" /\ \E st, down : WillWrite(p, x, st, down)
      BY <2>1 DEF CancelJobBuild, MarkBuildAsWarning, Active
    <3>2. req'[p].key = Key(builds[x])
      BY <1>1, <3>1 DEF WillWrite, Request
    <3> QED BY <1>1, <1>5, <3>1, <3>2 DEF Find
  <2>2. ASSUME NEW k, NEW u, NEW a, Vote(p, k, u, a) PROVE FALSE
    <3>1. PICK x \in Find(k) :
            /\ builds[x].status = "waiting"
            /\ req' = [req EXCEPT ![p] = [Idle EXCEPT !.pc = "vote", !.key = k, !.id = x,
                                                      !.user = u, !.st = a]]
      BY <2>2 DEF Vote
    <3>2. req'[p].key = k
      BY <1>1, <3>1 DEF Request
    <3> QED BY <1>1, <1>5, <3>1, <3>2 DEF Find
  <2>3. CASE CreateApproval(p) \/ ApproveBuild(p)
    <3>1. req[p].pc \in {"vote", "count"}
      BY <2>3 DEF CreateApproval, ApproveBuild
    <3>2. \/ req' = [req EXCEPT ![p] = Idle]
          \/ req' = [req EXCEPT ![p] = [req[p] EXCEPT !.pc = "count"]]
          \/ req' = [req EXCEPT ![p] = [req[p] EXCEPT !.pc = "write", !.st = "failed"]]
          \/ req' = [req EXCEPT ![p] = [req[p] EXCEPT !.pc = "write", !.st = "pending"]]
      BY <2>3 DEF CreateApproval, ApproveBuild
    <3>3. /\ [req[p] EXCEPT !.pc = "count"].key = req[p].key
          /\ [req[p] EXCEPT !.pc = "write", !.st = "failed"].key = req[p].key
          /\ [req[p] EXCEPT !.pc = "write", !.st = "pending"].key = req[p].key
      BY <1>1 DEF Request
    <3>4. req'[p] = Idle \/ req'[p].key = req[p].key
      <4>1. \A r : req' = [req EXCEPT ![p] = r] => req'[p] = r
        BY <1>1
      <4> QED BY ONLY <3>2, <3>3, <4>1
    <3> QED BY <1>1, <3>1, <3>4 DEF Settled, Holding
  <2>4. ASSUME NEW j \in Jobs, CreateJobBuild(p, j) PROVE FALSE
    <3>1. PICK read : req' = [req EXCEPT ![p] =
            [Idle EXCEPT !.pc = "create", !.job = read,
                         !.key = [job |-> j, num |-> 0, sub |-> 0]]]
      BY <2>4 DEF CreateJobBuild
    <3> QED BY <1>1, <3>1 DEF Holding, Request
  <2>5. ASSUME NEW j \in Jobs, cancelMismatchedPendingBuilds(p, j) PROVE FALSE
    <3>1. PICK t : req' = [req EXCEPT ![p] = [Idle EXCEPT !.pc = "cancel", !.job = j, !.todo = t]]
      BY <2>5 DEF cancelMismatchedPendingBuilds
    <3> QED BY <1>1, <3>1 DEF Holding, Request
  <2>6. CASE CreateBuild(p)
    <3>1. PICK x, j : req' = [req EXCEPT ![p] = AfterCreate(p, j, x)]
      BY <2>6 DEF CreateBuild
    <3>2. AfterCreate(p, j, x).pc \in {"older", "idle", "run", "eval"}
      BY <1>1, ResumeFields DEF AfterCreate, Request
    <3> QED BY <1>1, <3>1, <3>2 DEF Holding
  <2>7. CASE FailCreate(p)
    BY <1>1, <2>7 DEF FailCreate, Holding
  <2>8. ASSUME NEW k, RetryJobBuild(p, k) PROVE FALSE
    BY <1>1, <2>8 DEF RetryJobBuild, Holding, Request
  <2> QED BY <1>7, <2>1, <2>2, <2>3, <2>4, <2>5, <2>6, <2>7, <2>8 DEF Handler, DeleteJobBuild
<1> QED BY <1>1, <1>2, <1>3, <1>4, <1>6, <1>7, Mover DEF Acts

\* A cancellation that no request in flight contradicts is final: whatever
\* workers report and users ask for afterwards, the build stays cancelled until
\* it is deleted, or until a report comes whose read of the row fails.
THEOREM CancellationFinal == Spec => CancellationSettles
<1>1. ASSUME GateInv, Next, NEW i \in IDs, Settled(i)
      PROVE  Settled(i)' \/ builds'[i] = NoRow \/ Blind(i)'
  <2> SUFFICES ASSUME builds'[i] # NoRow, ~Blind(i)' PROVE Settled(i)'
    OBVIOUS
  <2>1. builds'[i].status = "cancelled" /\ Key(builds'[i]) = Key(builds[i])
    BY <1>1, CancelledRow DEF GateInv
  <2>2. \A p \in Procs : Holding(req'[p]) /\ req'[p].key = Key(builds'[i]) =>
          req'[p].pc = "write" /\ req'[p].st = "cancelled"
    BY <1>1, <2>1, SettledRequest DEF Blind
  <2> QED BY <2>1, <2>2 DEF Settled, Holding
<1>2. ASSUME UNCHANGED vars, NEW i \in IDs, Settled(i) PROVE Settled(i)'
  BY <1>2 DEF Settled, vars
<1>3. GateInv /\ [Next]_vars =>
        [\A i \in IDs : Settled(i) => Settled(i)' \/ builds'[i] = NoRow \/ Blind(i)']_vars
  BY <1>1, <1>2
<1> QED BY <1>3, GateInductive, PTL DEF Spec, CancellationSettles

-----------------------------------------------------------------------------
(* The newest build of an interruptible job.                               *)

\* Request r will cancel build i.
WillCancel(r, i) ==
  /\ i < r.new
  /\ builds[i].job = r.job
  /\ \/ r.pc = "older" /\ builds[i].status \in Active
     \/ r.pc = "cancel" /\ Key(builds[i]) \in r.todo

\* Two builds of an interruptible job, the older of which is active.
Overtaken(i, k) ==
  /\ Exists(k) /\ Exists(i) /\ i \notin irregular /\ i \notin spared
  /\ i < k /\ builds[i].job = builds[k].job
  /\ builds[i].job \in Interruptible /\ builds[i].status \in Active

\* NewestWins says that on SQLite an overtaken build will be cancelled.
LEMMA NewestWinsMeans ==
  NewestWins <=>
    (SQLite => \A i, k \in IDs : Overtaken(i, k) => \E p \in Procs : WillCancel(req[p], i))
BY DEF NewestWins, Overtaken, WillCancel, Uncancelled, Rows

\* A request that will cancel a build does, and goes on until then, unless the
\* server restarts.
LEMMA CancelsOn ==
  ASSUME TypeInv, Next, ~Restart, NEW p \in Procs, NEW i \in IDs, NEW k \in IDs,
         Overtaken(i, k)', Exists(i), builds[i].status \in Active, WillCancel(req[p], i)
  PROVE  WillCancel(req[p], i)'
<1>1. req[p] \in Request /\ req \in [Procs -> Request] /\ builds \in [IDs -> Row]
  BY DEF TypeInv, ReqOK, TableOK
<1>2. TableMove /\ Key(builds'[i]) = Key(builds[i]) /\ builds'[i].job = builds[i].job
  BY TableMoves, RowKept DEF Overtaken, Exists, NoRow, Key
<1>3. CASE req'[p] = req[p]
  BY <1>2, <1>3 DEF WillCancel, Overtaken
<1>0. i \notin spared' /\ i \in Uncancelled(p)
  BY DEF Overtaken, WillCancel, Uncancelled
<1>4. CASE req[p].pc = "older" /\ ListOlderBuilds(p)
  <2> DEFINE older == FindActiveBuilds(req[p].job, req[p].new)
             r == [req[p] EXCEPT !.pc = "cancel", !.todo = {Key(builds[x]) : x \in older}]
  <2>1. i \in older
    BY <1>4 DEF WillCancel, FindActiveBuilds
  <2>2. req'[p] = r
    BY <1>0, <1>1, <1>4, <2>1 DEF ListOlderBuilds
  <2>3. /\ r.pc = "cancel" /\ r.todo = {Key(builds[x]) : x \in older}
        /\ r.job = req[p].job /\ r.new = req[p].new
    BY <1>1 DEF Request
  <2> QED BY <1>2, <2>1, <2>2, <2>3 DEF WillCancel
<1>5. CASE req[p].pc = "cancel" /\ CancelOlderBuild(p)
  <2>1. PICK x \in req[p].todo :
          /\ Update(x, "cancelled") \/ spared' = spared \cup (Uncancelled(p) \cap Find(x))
          /\ req' = [req EXCEPT ![p] =
               IF req[p].todo = {x} THEN Resume(p) ELSE [req[p] EXCEPT !.todo = @ \ {x}]]
    BY <1>5 DEF CancelOlderBuild
  <2>2. Key(builds[i]) \in req[p].todo /\ "cancelled" \in Status /\ "cancelled" \notin Active
    BY <1>5 DEF WillCancel, Status, Terminal, Active
  <2>3. Key(builds[i]) # x
    <3>1. i \in Find(x) => builds'[i].status = "cancelled" \/ i \in spared'
      BY <1>0, <2>1, <2>2, UpdateStep
    <3>2. builds'[i].status \in Active
      BY DEF Overtaken
    <3> QED BY <1>0, <2>2, <3>1, <3>2 DEF Find, Rows
  <2>4. req'[p] = [req[p] EXCEPT !.todo = @ \ {x}]
    BY <1>1, <2>1, <2>2, <2>3
  <2>5. /\ req'[p].pc = "cancel" /\ req'[p].todo = req[p].todo \ {x}
        /\ req'[p].job = req[p].job /\ req'[p].new = req[p].new
    BY <1>1, <1>5, <2>4 DEF Request
  <2> QED BY <1>2, <2>2, <2>3, <2>5 DEF WillCancel
<1>6. CASE Acts(p)
  BY <1>3, <1>4, <1>5, <1>6
     DEF WillCancel, Acts, Handler, CreateJobBuild, cancelMismatchedPendingBuilds, CreateBuild,
         FailCreate, RetryJobBuild, CancelJobBuild, MarkBuildAsWarning, DeleteJobBuild, Vote,
         CreateApproval, ApproveBuild, Execution, NextWork, StartPendingBuild,
         StartCheckedBuild, UpdateJobBuild, deleteBuild, StopWork, Common, WriteBack,
         EvaluateDownstreamJobs, evaluateJobDownstream, ListOlderBuilds, CancelOlderBuild,
         ReturnError
<1> QED BY <1>3, <1>6, Mover

\* NewestWins survives every step: who creates a build and has read its job
\* will cancel the older ones, and what a failure or a restart leaves
\* uncancelled is remembered as spared.
LEMMA NewestWinsNext == ASSUME TypeInv, NewestWins, Next PROVE NewestWins'
<1> SUFFICES ASSUME SQLite, NEW i \in IDs, NEW k \in IDs, Overtaken(i, k)'
             PROVE  \E p \in Procs : WillCancel(req[p], i)'
  BY DEF NewestWins, Overtaken, WillCancel, Uncancelled, Rows, Exists
<1>1. TableMove /\ i < k /\ i \in Int /\ k \in Int /\ i # k
  BY TableMoves DEF Overtaken, IDs
<1>2. CASE ~Exists(i)
  <2>1. PICK p \in Procs : NewRow(p, i)
    BY <1>1, <1>2, RowNew DEF Overtaken
  <2>2. k \in Rows
    BY <1>1, <2>1, NewRowStep DEF Overtaken, Exists, Rows
  <2> QED BY <1>1, <2>1, <2>2, NewRowStep
<1>3. CASE Exists(i) /\ ~Exists(k)
  <2>1. PICK p \in Procs : NewRow(p, k)
    BY <1>1, <1>3, RowNew DEF Overtaken
  <2>2. PICK j \in Jobs, n \in Nat, s \in Nat, st \in {"waiting", "pending"}, read \in BOOLEAN :
          /\ Insert(k, j, n, s, st)
          /\ read /\ j \in Interruptible =>
               req'[p].pc = "older" /\ req'[p].job = j /\ req'[p].new = k
          /\ ~read => FindActiveBuilds(j, k) \subseteq spared'
    BY <2>1 DEF NewRow
  <2>3. builds'[k].job = j /\ builds'[i] = builds[i]
    BY <1>1, <2>2 DEF Insert, TypeInv, TableOK
  <2>4. /\ builds'[i].job = j /\ j \in Interruptible /\ builds'[i].status \in Active
        /\ i \notin spared'
    BY <2>3 DEF Overtaken
  <2>5. CASE read
    BY <1>1, <2>2, <2>4, <2>5 DEF WillCancel
  <2>6. CASE ~read
    <3>1. i \in FindActiveBuilds(j, k)
      BY <1>1, <2>3, <2>4 DEF FindActiveBuilds
    <3> QED BY <2>2, <2>4, <2>6, <3>1
  <2> QED BY <2>5, <2>6
<1>4. CASE Exists(i) /\ Exists(k)
  <2>1. Lived(i) /\ builds[i].status \in Active
    <3>1. Lived(i)
      BY <1>1, <1>4, RegularStep DEF Overtaken, Born
    <3> QED BY <3>1 DEF Lived, Follows, Lifecycle, Overtaken, Active
  <2>2. Overtaken(i, k)
    <3>1. ASSUME NEW x \in {i, k} PROVE builds'[x].job = builds[x].job
      <4>1. builds'[x] # NoRow /\ x \in IDs /\ Exists(x)
        BY <1>4, <3>1 DEF Overtaken, Exists, NoRow
      <4>2. Key(builds'[x]) = Key(builds[x])
        BY <1>1, <4>1, RowKept
      <4> QED BY <4>2 DEF Key
    <3>2. i \notin irregular /\ i \notin spared
      BY <2>1, SlipsGrow DEF Lived, Overtaken
    <3> QED BY <1>1, <1>4, <2>1, <3>1, <3>2 DEF Overtaken
  <2>3. PICK p \in Procs : WillCancel(req[p], i)
    BY <2>2, NewestWinsMeans
  <2>4. CASE Restart
    <3>1. i \in Uncancelled(p)
      BY <2>1, <2>3 DEF WillCancel, Uncancelled
    <3>2. i \in spared'
      BY <2>4, <3>1 DEF Restart
    <3> QED BY <3>2 DEF Overtaken
  <2>5. CASE ~Restart
    BY <1>4, <2>1, <2>3, <2>5, CancelsOn
  <2> QED BY <2>4, <2>5
<1> QED BY <1>2, <1>3, <1>4

\* NewestWins is inductive together with what the gate's proof keeps.
LEMMA NewestInductive ==
  /\ Init => GateInv /\ NewestWins
  /\ GateInv /\ NewestWins /\ [Next]_vars => GateInv' /\ NewestWins'
<1>1. Init => NewestWins
  BY DEF Init, NewestWins, Rows, Exists, NoRow
<1>2. ASSUME NewestWins, UNCHANGED vars PROVE NewestWins'
  <2>1. builds' = builds /\ req' = req /\ irregular' = irregular /\ spared' = spared
    BY <1>2 DEF vars, slips
  <2> QED BY <1>2, <2>1 DEF NewestWins, Uncancelled, Rows, Exists
<1>3. ASSUME GateInv, NewestWins, Next PROVE NewestWins'
  BY <1>3, NewestWinsNext DEF GateInv
<1> QED BY <1>1, <1>2, <1>3, GateInductive

\* On SQLite only the newest build of an interruptible job goes on: whoever
\* creates a build, having read the job, cancels the active builds of that job
\* that are older, and until it has done so, or failed to, it holds them on its
\* list.
THEOREM NewestWinsCorrect == Spec => []NewestWins
BY NewestInductive, PTL DEF Spec
=============================================================================
