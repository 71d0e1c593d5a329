---------------------------- MODULE JobExecution ----------------------------
(***************************************************************************)
(* One build on a worker: processJob of worker/service.go with the plan,   *)
(* the branches of in_parallel, conditional branches, services, hooks,     *)
(* retries, the job's timeout, cancellation and drain, and the reports     *)
(* that the worker writes to the build's row.                              *)
(*                                                                         *)
(* What commands print, the versions they use and the variables they       *)
(* export are left out.  A report is one step here; how its read and its   *)
(* write interleave with other requests is the subject of BuildLifecycle.  *)
(***************************************************************************)
EXTENDS Integers, Sequences, FiniteSets

CONSTANTS
  Steps,         \* the get, task, put and notify steps of the job
  Services,      \* its service steps
  Parallels,     \* its in_parallel blocks
  Ifs,           \* its if blocks
  None,          \* no step
  Plan,          \* the steps and blocks at the top level, in order
  Kind,          \* step -> "get", "task", "put", "notify"; "trigger" for the
                 \*         put of a resource of type trigger; "unknown" if its
                 \*         resource, type or runner is not in the pipeline
  Idle,          \* the steps whose command is empty
  Members,       \* in_parallel block -> its steps
  Limit,         \* in_parallel block -> how many may run at once, 0 for all
  FailFast,      \* the in_parallel blocks that a failure cancels
  Branches,      \* if block -> the steps and in_parallel blocks of its branches
  Attempts,      \* step -> how often it is tried
  Hooks,         \* step, block or "job" -> when -> its hooks
  Notifications, \* how many automatic notifications match the job
  Timeout,       \* the job has a timeout
  Modes,         \* the workers and the settings of the job to consider
  Events,        \* bound on what happens around the job
  MaxLost        \* bound on the calls to the server that fail

Names == Steps \cup Services \cup Parallels \cup Ifs
Whens == {"on_success", "on_failure", "on_cancel", "ensure"}

\* streamed: the worker gets its work from a gRPC stream, or else it polls;
\* allowFailure: the job's failure is a warning; hooked: the job has hooks and
\* notifications.
ModeType == [streamed: BOOLEAN, allowFailure: BOOLEAN, hooked: BOOLEAN]

\* A hook is a command of a runner, or a put or notify step.
HookKinds  == {"runner", "step"}
EventKinds == {"cancel", "drain", "restart"}

\* Blocks are not empty: one without steps does nothing but succeed.
ASSUME JobAssumptions ==
  /\ None \notin Names
  /\ Plan \in Seq(Names)
  /\ Kind \in [Steps -> {"get", "task", "put", "notify", "trigger", "unknown"}]
  /\ Idle \subseteq Steps
  /\ Members \in [Parallels -> (SUBSET Steps) \ {{}}]
  /\ Limit \in [Parallels -> Nat]
  /\ FailFast \subseteq Parallels
  /\ Branches \in [Ifs -> (SUBSET Seq(Steps \cup Services \cup Parallels)) \ {{}}]
  /\ Attempts \in [Steps -> Nat]
  /\ Hooks \in [Steps \cup Parallels \cup Ifs \cup {"job"} -> [Whens -> Seq(HookKinds)]]
  /\ Notifications \in Nat
  /\ Timeout \in BOOLEAN
  /\ Modes \subseteq ModeType
  /\ Events \subseteq EventKinds
  /\ MaxLost \in Nat

\* The plan, and the branches of its if blocks.
Lists == {Plan} \cup UNION {Branches[q] : q \in Ifs}

\* A name stands for one step or block of the job: it is of one sort, and has one
\* place in one list or in one in_parallel block.
ASSUME NamesAssumption ==
  /\ Steps \cap Services = {} /\ Steps \cap Parallels = {} /\ Steps \cap Ifs = {}
  /\ Services \cap Parallels = {} /\ Services \cap Ifs = {} /\ Parallels \cap Ifs = {}
  /\ \A s, t \in Lists : \A i \in 1..Len(s) : \A k \in 1..Len(t) : s[i] = t[k] => s = t /\ i = k
  /\ \A q, r \in Ifs : q # r => Branches[q] \cap Branches[r] \subseteq {<<>>}
  /\ \A p, r \in Parallels : \A n \in Members[p] :
       /\ n \in Members[r] => p = r
       /\ \A s \in Lists : \A i \in 1..Len(s) : s[i] # n

VARIABLES
  mode,     \* one of Modes, which never changes
  pc,       \* where processJob is
  agenda,   \* what is left of the plan, or of the branch that was chosen
  rest,     \* while a branch runs: what is left of the plan after its block
  branch,   \* the if block whose branch runs
  cur,      \* the step or block that runs
  fr,       \* step or block -> how far its function is
  cut,      \* the in_parallel blocks whose context is cancelled
  failed,   \* what runPlan returns
  tail,     \* the job's hooks and notifications that are still to run
  status,   \* the status of the worker's build
  rec,      \* the steps of the worker's build
  ctx,      \* the job's context: live, past its deadline, cancelled
  working,  \* the context that the worker gave to processJob is live
  up,       \* the services whose start command has succeeded and that were not stopped
  known,    \* those that runPlan will stop
  row,      \* the status in the build's row
  saved,    \* the steps in the build's row
  \* History, read by no action:
  ran,      \* the hook commands that were executed
  lost,     \* how many calls have failed
  copied,   \* a failure was reported for a copy of the worker's build
  verdict,  \* the hooks that the end of the plan has called for
  down      \* the downstream jobs were evaluated

vars == <<mode, pc, agenda, rest, branch, cur, fr, cut, failed, tail, status, rec, ctx, working,
          up, known, row, saved, ran, lost, copied, verdict, down>>

Main    == <<mode, agenda, rest, branch, cur>>
Service == <<up, known>>
History == <<ran, copied, verdict, down>>

\* A step: not begun, a branch that waits for its place, in its function, its
\* command runs, its ready check runs, its hooks run, returned.
Frame == [at: {"off", "ready", "in", "run", "probe", "hooks", "done"}, try: Nat,
          failed: BOOLEAN, hooks: Seq([when: Whens, kind: HookKinds])]
Off   == [at |-> "off", try |-> 1, failed |-> FALSE, hooks |-> <<>>]

StepStatus == {"none", "pending", "started", "succeeded", "failed"}

Init ==
  /\ mode \in Modes
  /\ pc = "claimed"
  /\ agenda = <<>> /\ rest = <<>> /\ branch = None /\ cur = None
  /\ fr = [n \in Names |-> Off]
  /\ cut = {}
  /\ failed = FALSE
  /\ tail = <<>>
  /\ status = "started"
  /\ rec = [n \in Names |-> "none"]
  /\ ctx = "live"
  /\ working = TRUE
  /\ up = {} /\ known = {}
  /\ row = "started"
  /\ saved = [n \in Names |-> "none"]
  /\ ran = {} /\ lost = 0 /\ copied = FALSE
  /\ verdict = "none" /\ down = FALSE

-----------------------------------------------------------------------------
(* Reports.                                                                *)

\* updateBuildWithRetry: the row takes the status, unless it is cancelled already,
\* and the steps.  When every attempt fails (~ok) one may still have been applied.
Save(st, steps, ok) ==
  /\ ok \/ lost < MaxLost
  /\ \E applied \in {TRUE, ok} :
       /\ row' = IF applied /\ row # "cancelled" THEN st ELSE row
       /\ saved' = IF applied THEN steps ELSE saved
  /\ lost' = IF ok THEN lost ELSE lost + 1

NoSave == UNCHANGED <<row, saved, lost>>

\* Steps of a block work on a build of their own.  Its updates are those of
\* the worker's build, its failures are not reported and its status is lost.
Own(n) == \E i \in 1..Len(Plan) : Plan[i] = n

\* The step fails: b.Status = Failed and failBuild.
Fail(n, steps, ok) ==
  /\ status' = IF Own(n) THEN "failed" ELSE status
  /\ IF Own(n) THEN Save("failed", steps, ok) ELSE ok /\ NoSave

\* failBuild alone, which works on a copy: the worker's build stays as it is.
FailCopy(n, steps, ok) ==
  /\ IF Own(n) THEN Save("failed", steps, ok) ELSE ok /\ NoSave
  /\ UNCHANGED status

-----------------------------------------------------------------------------
(* From the claim to the plan.                                             *)

\* The build cannot be read: processJob returns, and nobody reports it.
ReadFails ==
  /\ pc = "claimed"
  /\ lost < MaxLost
  /\ lost' = lost + 1
  /\ pc' = "end"
  /\ UNCHANGED <<Main, fr, cut, failed, tail, status, rec, ctx, working, Service, row, saved,
                 History>>

\* The job cannot be read, or the versions of the retried build, of an upstream
\* job or of a resource cannot.
FailEarly ==
  /\ pc = "claimed"
  /\ pc' = "end"
  /\ \E ok \in BOOLEAN : Save("failed", rec, ok)
  /\ UNCHANGED <<Main, fr, cut, failed, tail, status, rec, ctx, working, Service, History>>

\* checkPassedConstraints or checkVersionAvailability finds no version: the
\* build is deleted.
DeleteEarly ==
  /\ pc = "claimed"
  /\ pc' = "end"
  /\ row' = "deleted"
  /\ UNCHANGED <<Main, fr, cut, failed, tail, status, rec, ctx, working, Service, saved, lost,
                 History>>

StartPlan ==
  /\ pc = "claimed"
  /\ pc' = "plan"
  /\ agenda' = Plan
  /\ NoSave
  /\ UNCHANGED <<mode, rest, branch, cur, fr, cut, failed, tail, status, rec, ctx, working, Service,
                 History>>

\* resolveSecretVars fails before the first step.
FailSecrets ==
  /\ pc = "claimed"
  /\ pc' = "decide"
  /\ failed' = TRUE
  /\ \E ok \in BOOLEAN : Save("failed", rec, ok)
  /\ copied' = TRUE
  /\ UNCHANGED <<Main, fr, cut, tail, status, rec, ctx, working, Service, ran, verdict, down>>

-----------------------------------------------------------------------------
(* The loop over the plan.                                                 *)

\* The context of a step is that of its block, which is derived from the job's.
Live(n) == ctx = "live" /\ \A p \in Parallels : n \in Members[p] => p \notin cut

HookList(n, when) ==
  [i \in 1..Len(Hooks[n][when]) |-> [when |-> when, kind |-> Hooks[n][when][i]]]

\* The hooks that follow a step.
After(n, ok) ==
  IF n \in Services THEN <<>>
  ELSE HookList(n, IF ok THEN "on_success" ELSE "on_failure") \o HookList(n, "ensure")

Returned(n, fail) == [fr[n] EXCEPT !.at = "hooks", !.failed = fail, !.hooks = <<>>]
Finished(n, ok)   == [fr[n] EXCEPT !.at = "hooks", !.failed = ~ok, !.hooks = After(n, ok)]

NextStep ==
  /\ pc = "plan" /\ cur = None
  /\ agenda # <<>>
  /\ Head(agenda) \in Steps \cup Services
  /\ cur' = Head(agenda)
  /\ agenda' = Tail(agenda)
  /\ fr' = [fr EXCEPT ![cur'].at = "in"]
  /\ NoSave
  /\ UNCHANGED <<mode, pc, rest, branch, cut, failed, tail, status, rec, ctx, working, Service,
                 History>>

\* runInParallelStep, up to its goroutines.
NextParallel ==
  /\ pc = "plan" /\ cur = None
  /\ agenda # <<>>
  /\ Head(agenda) \in Parallels
  /\ LET p == Head(agenda)
     IN  /\ cur' = p
         /\ fr' = [n \in Names |-> IF n = p THEN [fr[n] EXCEPT !.at = "run"]
                                   ELSE IF n \in Members[p] THEN [fr[n] EXCEPT !.at = "ready"]
                                   ELSE fr[n]]
         /\ rec' = [n \in Names |-> IF n = p THEN "started"
                                    ELSE IF n \in Members[p] THEN "pending" ELSE rec[n]]
  /\ agenda' = Tail(agenda)
  /\ \E ok \in BOOLEAN : Save(status, rec', ok)
  /\ UNCHANGED <<mode, pc, rest, branch, cut, failed, tail, status, ctx, working, Service, History>>

\* runIfStep: the first branch whose condition holds, or none of them ...
NextIf ==
  /\ pc = "plan" /\ cur = None
  /\ agenda # <<>>
  /\ Head(agenda) \in Ifs
  /\ LET q == Head(agenda)
     IN  /\ \E steps \in Branches[q] \cup {<<>>} : agenda' = steps
         /\ branch' = q
         /\ fr' = [fr EXCEPT ![q].at = "run"]
         /\ rec' = [rec EXCEPT ![q] = "started"]
  /\ rest' = Tail(agenda)
  /\ \E ok \in BOOLEAN : Save(status, rec', ok)
  /\ UNCHANGED <<mode, pc, cur, cut, failed, tail, status, ctx, working, Service, History>>

\* ... unless a condition cannot be evaluated.
NextIfFails ==
  /\ pc = "plan" /\ cur = None
  /\ agenda # <<>>
  /\ Head(agenda) \in Ifs
  /\ cur' = Head(agenda)
  /\ agenda' = Tail(agenda)
  /\ fr' = [fr EXCEPT ![cur'] = Returned(cur', TRUE)]
  /\ rec' = [rec EXCEPT ![cur'] = "failed"]
  /\ \E ok \in BOOLEAN : FailCopy(cur', rec', ok)
  /\ copied' = TRUE
  /\ UNCHANGED <<mode, pc, rest, branch, cut, failed, tail, ctx, working, Service, ran, verdict, down>>

\* A block that fails sets b.Status, unless it is in a branch.  (X_Y is a mutant of
\* definition X: what Y names is wrong in it.)
StatusAfter_Kept(n, ok) == status

StatusAfter(n, ok) == IF ok \/ ~Own(n) THEN status ELSE "failed"

\* The end of a branch: its failure is that of the block.
EndIf ==
  /\ pc = "plan" /\ cur = None
  /\ branch # None
  /\ agenda = <<>>
  /\ cur' = branch
  /\ branch' = None
  /\ agenda' = rest
  /\ rest' = <<>>
  /\ LET ok == ~fr[branch].failed
     IN  /\ status' = StatusAfter(branch, ok)
         /\ rec' = [rec EXCEPT ![branch] = IF ok THEN "succeeded" ELSE "failed"]
         /\ fr' = [fr EXCEPT ![branch] = Finished(branch, ok)]
  /\ \E ok \in BOOLEAN : Save(status', rec', ok)
  /\ UNCHANGED <<mode, pc, cut, failed, tail, ctx, working, Service, History>>

AllSucceeded_Any(p) == \E n \in Members[p] : ~fr[n].failed

AllSucceeded(p) == \A n \in Members[p] : ~fr[n].failed

\* The last branch of an in_parallel block has returned.
JoinParallel ==
  /\ pc = "plan"
  /\ cur \in Parallels
  /\ fr[cur].at = "run"
  /\ \A n \in Members[cur] : fr[n].at = "done"
  /\ LET ok == AllSucceeded(cur)
     IN  /\ status' = StatusAfter(cur, ok)
         /\ rec' = [rec EXCEPT ![cur] = IF ok THEN "succeeded" ELSE "failed"]
         /\ fr' = [fr EXCEPT ![cur] = Finished(cur, ok)]
  /\ \E ok \in BOOLEAN : Save(status', rec', ok)
  /\ UNCHANGED <<pc, Main, cut, failed, tail, ctx, working, Service, History>>

EndPlan ==
  /\ pc = "plan" /\ cur = None
  /\ branch = None
  /\ agenda = <<>>
  /\ pc' = "stop"
  /\ NoSave
  /\ UNCHANGED <<Main, fr, cut, failed, tail, status, rec, ctx, working, Service, History>>

-----------------------------------------------------------------------------
(* runGetStep, runTaskStep, runPutStep, runNotifyStep and startServices.   *)

\* The branches of block p that hold a place in its semaphore.
Holding_NeverLeft(p) == {n \in Members[p] : fr[n].at \notin {"off", "ready"}}

Holding(p) == {n \in Members[p] : fr[n].at \in {"in", "run", "hooks"}}

Free(p) == Limit[p] > 0 => Cardinality(Holding(p)) < Limit[p]

\* The goroutine of a branch gets a place and its context is live ...
Enter(p, n) ==
  /\ n \in Members[p]
  /\ fr[n].at = "ready"
  /\ Free(p)
  /\ Live(n)
  /\ fr' = [fr EXCEPT ![n].at = "in"]
  /\ NoSave
  /\ UNCHANGED <<pc, Main, cut, failed, tail, status, rec, ctx, working, Service, History>>

\* ... or it is not: the branch has failed, and its step stays pending.
Abandon(p, n) ==
  /\ n \in Members[p]
  /\ fr[n].at = "ready"
  /\ ~Live(n)
  /\ fr' = [fr EXCEPT ![n].at = "done", ![n].failed = TRUE]
  /\ NoSave
  /\ UNCHANGED <<pc, Main, cut, failed, tail, status, rec, ctx, working, Service, History>>

\* The resource, its type or the runner is unknown: nothing is done, silently.
Skip(n) ==
  /\ n \in Steps
  /\ Kind[n] = "unknown"
  /\ fr[n].at = "in"
  /\ fr' = [fr EXCEPT ![n] = Returned(n, FALSE)]
  /\ rec' = [rec EXCEPT ![n] = "none"]
  /\ NoSave
  /\ UNCHANGED <<pc, Main, cut, failed, tail, status, ctx, working, Service, History>>

\* buildPullParams finds no version, or cannot ask for it in a context that is
\* done: no step is recorded and no hook runs.
NoVersion(n) ==
  /\ n \in Steps
  /\ Kind[n] = "get"
  /\ fr[n].at = "in"
  /\ fr' = [fr EXCEPT ![n] = Returned(n, TRUE)]
  /\ \E ok \in BOOLEAN : FailCopy(n, rec, ok)
  /\ copied' = (copied \/ Own(n))
  /\ UNCHANGED <<pc, Main, cut, failed, tail, rec, ctx, working, Service, ran, verdict,
                 down>>

\* A task's input is missing, or a service or its runner is unknown.
NoInput(n) ==
  /\ n \in Services \/ (n \in Steps /\ Kind[n] = "task")
  /\ fr[n].at = "in"
  /\ fr' = [fr EXCEPT ![n] = Finished(n, FALSE)]
  /\ rec' = [rec EXCEPT ![n] = IF n \in Services THEN @ ELSE "failed"]
  /\ \E ok \in BOOLEAN : Fail(n, rec', ok)
  /\ UNCHANGED <<pc, Main, cut, failed, tail, ctx, working, Service, History>>

\* runPutStepTrigger, which runs no hooks.
PutTrigger(n, created) ==
  /\ n \in Steps
  /\ Kind[n] = "trigger"
  /\ fr[n].at = "in"
  /\ created => Live(n)
  /\ fr' = [fr EXCEPT ![n] = Returned(n, ~created)]
  /\ rec' = [rec EXCEPT ![n] = IF created THEN "succeeded" ELSE "failed"]
  /\ \E ok \in BOOLEAN : IF created THEN Save(status, rec', ok) /\ UNCHANGED status
                                    ELSE Fail(n, rec', ok)
  /\ UNCHANGED <<pc, Main, cut, failed, tail, ctx, working, Service, History>>

\* The command is about to run, for a get step with the version it was given: the
\* step is recorded and reported.
Begin(n) ==
  /\ n \in Services \/ (n \in Steps /\ Kind[n] \notin {"trigger", "unknown"})
  /\ fr[n].at = "in"
  /\ n \in Steps /\ Kind[n] = "get" => Live(n)
  /\ fr' = [fr EXCEPT ![n].at = "run"]
  /\ rec' = [rec EXCEPT ![n] = "started"]
  /\ \E ok \in BOOLEAN : Save(status, rec', ok)
  /\ UNCHANGED <<pc, Main, cut, failed, tail, status, ctx, working, Service, History>>

Commands == Steps \cup Services

\* Every two seconds what the command has printed is reported.
Progress(n) ==
  /\ n \in Commands
  /\ fr[n].at = "run"
  /\ Live(n)
  /\ \E ok \in BOOLEAN : Save(status, rec, ok)
  /\ UNCHANGED <<pc, Main, fr, cut, failed, tail, status, rec, ctx, working, Service, History>>

\* The command can end without an error: a context that is done kills it, unless
\* there is nothing to run.
Completes(n) == Live(n) \/ n \in Idle

LastTry(n) == n \in Steps => fr[n].try >= Attempts[n]

NextTry(n) == [fr EXCEPT ![n].try = @ + 1]

\* The command ends in an error, or is killed because its context is done.
Retry(n) ==
  /\ n \in Commands
  /\ fr[n].at = "run"
  /\ n \notin Idle
  /\ ~LastTry(n)
  /\ fr' = NextTry(n)
  /\ NoSave
  /\ UNCHANGED <<pc, Main, cut, failed, tail, status, rec, ctx, working, Service, History>>

RecordFailure_Forgotten(n) == rec

RecordFailure(n) == [rec EXCEPT ![n] = "failed"]

\* ... for the last time, or a task has not produced its output.
CommandFails(n) ==
  /\ n \in Commands
  /\ fr[n].at = "run"
  /\ \/ LastTry(n) /\ n \notin Idle
     \/ n \in Steps /\ Kind[n] = "task" /\ Completes(n)
  /\ fr' = [fr EXCEPT ![n] = Finished(n, FALSE)]
  /\ rec' = RecordFailure(n)
  /\ \E ok \in BOOLEAN : Fail(n, rec', ok)
  /\ UNCHANGED <<pc, Main, cut, failed, tail, ctx, working, Service, History>>

\* The services that runPlan will stop: runIfStep hands back those of its branch.
Remember_BranchDropped(n, told) == IF told /\ Own(n) THEN known \cup ({n} \cap Services) ELSE known

Remember(n, told) == IF told THEN known \cup ({n} \cap Services) ELSE known

\* The command succeeds.  If that cannot be reported the step returns a failure,
\* without its hooks; a service is then running that runPlan does not know of.
CommandSucceeds(n) ==
  /\ n \in Commands
  /\ fr[n].at = "run"
  /\ Completes(n)
  /\ rec' = [rec EXCEPT ![n] = "succeeded"]
  /\ \E ok \in BOOLEAN :
       /\ Save(status, rec', ok)
       /\ LET told == ok \/ ~Own(n)
          IN  /\ fr' = [fr EXCEPT ![n] = IF ~told THEN Returned(n, TRUE)
                                         ELSE IF n \in Services THEN [fr[n] EXCEPT !.at = "probe"]
                                         ELSE Finished(n, TRUE)]
              /\ up' = up \cup ({n} \cap Services)
              /\ known' = Remember(n, told)
  /\ UNCHANGED <<pc, Main, cut, failed, tail, status, ctx, working, History>>

\* waitForServices: the ready check succeeds, or there is none ...
Ready(n) ==
  /\ fr[n].at = "probe"
  /\ fr' = [fr EXCEPT ![n] = Returned(n, FALSE)]
  /\ \E ok \in BOOLEAN : Save(status, rec, ok)
  /\ UNCHANGED <<pc, Main, cut, failed, tail, status, rec, ctx, working, Service, History>>

\* ... or times out or is cancelled.
NotReady(n) ==
  /\ fr[n].at = "probe"
  /\ fr' = [fr EXCEPT ![n] = Returned(n, TRUE)]
  /\ \E ok \in BOOLEAN : Fail(n, rec, ok)
  /\ UNCHANGED <<pc, Main, cut, failed, tail, rec, ctx, working, Service, History>>

\* The other hooks of the list are dropped when a report fails: those with the
\* same "when", which come first.
DropList(hooks) ==
  LET list == {i \in 1..Len(hooks) : hooks[i].when = Head(hooks).when}
  IN  SubSeq(hooks, Cardinality(list) + 1, Len(hooks))

\* runHooks of a step or block, one hook: its command runs in the context of the
\* step, and a command is not started in a context that is done.  A put or notify
\* step that fails as a hook fails the build.
RunHook(n) ==
  /\ fr[n].at = "hooks"
  /\ fr[n].hooks # <<>>
  /\ LET h == Head(fr[n].hooks)
     IN  \E ok, good \in BOOLEAN :
           /\ good => Live(n)
           /\ ran' = IF Live(n) THEN ran \cup {<<n, h.when>>} ELSE ran
           /\ IF h.kind = "step" /\ ~good
                THEN Fail(n, rec, ok)
                ELSE Save(status, rec, ok) /\ UNCHANGED status
           /\ fr' = [fr EXCEPT ![n].hooks =
                IF ~ok /\ h.kind = "runner" /\ Own(n) THEN DropList(@) ELSE Tail(@)]
  /\ UNCHANGED <<pc, Main, cut, failed, tail, rec, ctx, working, Service, copied, verdict, down>>

\* What is left after a step: the loops return at the first failure.
Remaining_GoesOn(fails) == agenda

Remaining(fails) == IF fails THEN <<>> ELSE agenda

\* The function of a step or block of the plan, or of a branch, returns.
Return(n) ==
  /\ n = cur
  /\ fr[n].at = "hooks"
  /\ fr[n].hooks = <<>>
  /\ cur' = None
  /\ LET fails == fr[n].failed
     IN  /\ agenda' = Remaining(fails)
         /\ failed' = (failed \/ (fails /\ branch = None))
         /\ fr' = [m \in Names |-> IF m = n THEN [fr[m] EXCEPT !.at = "done"]
                                   ELSE IF fails /\ m = branch THEN [fr[m] EXCEPT !.failed = TRUE]
                                   ELSE fr[m]]
  /\ NoSave
  /\ UNCHANGED <<mode, pc, rest, branch, cut, tail, status, rec, ctx, working, Service, History>>

Cut_Never(p, n) == cut

Cut(p, n) == IF fr[n].failed /\ p \in FailFast THEN cut \cup {p} ELSE cut

\* The goroutine of an in_parallel branch ends: with fail_fast, its failure
\* cancels the others.
ReturnBranch(p, n) ==
  /\ n \in Members[p]
  /\ fr[n].at = "hooks"
  /\ fr[n].hooks = <<>>
  /\ fr' = [fr EXCEPT ![n].at = "done"]
  /\ cut' = Cut(p, n)
  /\ \E ok \in BOOLEAN : Save(status, rec, ok)
  /\ UNCHANGED <<pc, Main, failed, tail, status, rec, ctx, working, Service, History>>

-----------------------------------------------------------------------------
(* The end of processJob.                                                  *)

Forget_Never(n) == known

Forget(n) == known \ {n}

\* stopServices runs in a context of its own.
StopService(n) ==
  /\ pc = "stop"
  /\ n \in known
  /\ known' = Forget(n)
  /\ up' = up \ {n}
  /\ \E ok \in BOOLEAN : Save(status, rec, ok)
  /\ UNCHANGED <<pc, Main, fr, cut, failed, tail, status, rec, ctx, working, History>>

ServicesDone ==
  /\ pc = "stop"
  /\ known = {}
  /\ pc' = "decide"
  /\ NoSave
  /\ UNCHANGED <<Main, fr, cut, failed, tail, status, rec, ctx, working, Service, History>>

\* The job's hooks for an outcome, "ensure" among them.
Ending_NoEnsure(when) == IF mode.hooked THEN HookList("job", when) ELSE <<>>

Ending(when) ==
  IF mode.hooked THEN HookList("job", when) \o HookList("job", "ensure") ELSE <<>>

Concludes(when) ==
  /\ pc' = "tail"
  /\ tail' = Ending(when)
  /\ verdict' = when

\* The deadline has passed: failBuild reports a failure of a copy.
TimedOut ==
  /\ pc = "decide"
  /\ ctx = "deadline"
  /\ \E ok \in BOOLEAN : Save("failed", rec, ok)
  /\ copied' = TRUE
  /\ Concludes("on_cancel")
  /\ UNCHANGED <<Main, fr, cut, failed, status, rec, ctx, working, Service, ran, down>>

\* A user has cancelled the build: the worker reads that from the row.
UserCancelled == ctx = "cancelled" /\ row = "cancelled" /\ working

Cancelled ==
  /\ pc = "decide"
  /\ UserCancelled
  /\ status' = "cancelled"
  /\ \E ok \in BOOLEAN : Save("cancelled", rec, ok)
  /\ Concludes("on_cancel")
  /\ UNCHANGED <<Main, fr, cut, failed, rec, ctx, working, Service, ran, copied, down>>

NotCancelled ==
  /\ ctx # "deadline"
  /\ UserCancelled => lost < MaxLost

\* A job that succeeds, or whose failure is allowed, is reported and its
\* downstream jobs are evaluated; if the report fails nothing more is done.
Succeeded ==
  /\ pc = "decide"
  /\ NotCancelled
  /\ failed => mode.allowFailure
  /\ status' = IF failed THEN "warning" ELSE "succeeded"
  /\ \E ok \in BOOLEAN :
       /\ Save(status', rec, ok)
       /\ IF ok THEN Concludes(IF failed THEN "on_failure" ELSE "on_success")
                ELSE pc' = "end" /\ UNCHANGED <<tail, verdict>>
       /\ down' = (ok /\ working)
  /\ UNCHANGED <<Main, fr, cut, failed, rec, ctx, working, Service, ran, copied>>

\* A failure has been reported when it happened, and is not reported again.
Failed ==
  /\ pc = "decide"
  /\ NotCancelled
  /\ failed /\ ~mode.allowFailure
  /\ status' = "failed"
  /\ Concludes("on_failure")
  /\ NoSave
  /\ UNCHANGED <<Main, fr, cut, failed, rec, ctx, working, Service, ran, copied, down>>

\* A hook of the job runs in the worker's context, not in the job's.
RunJobHook ==
  /\ pc = "tail"
  /\ tail # <<>>
  /\ \E ok, good \in BOOLEAN :
       LET h == Head(tail)
       IN  /\ good => working
           /\ ran' = IF working THEN ran \cup {<<"job", h.when>>} ELSE ran
           /\ status' = IF h.kind = "step" /\ ~good THEN "failed" ELSE status
           /\ Save(status', rec, ok)
           /\ tail' = IF ~ok /\ h.kind = "runner" THEN DropList(tail) ELSE Tail(tail)
  /\ UNCHANGED <<pc, Main, fr, cut, failed, rec, ctx, working, Service, copied, verdict, down>>

\* runAutoNotifications: the status decides which ones there are; each is a
\* notify step, and fails the build when it fails.
RunAutoNotifications ==
  /\ pc = "tail"
  /\ tail = <<>>
  /\ pc' = "end"
  /\ \E ok, good \in BOOLEAN :
       IF mode.hooked /\ Notifications > 0 /\ status \in {"succeeded", "failed", "cancelled"}
         THEN /\ good => working
              /\ status' = IF good THEN status ELSE "failed"
              /\ Save(status', rec, ok)
         ELSE ok /\ good /\ NoSave /\ UNCHANGED status
  /\ UNCHANGED <<Main, fr, cut, failed, tail, rec, ctx, working, Service, History>>

\* processJob has returned.
Ended ==
  /\ pc = "end"
  /\ UNCHANGED vars

-----------------------------------------------------------------------------
(* Around the job.                                                         *)

Job == <<pc, Main, fr, cut, failed, tail, status, rec, Service, saved, lost, History>>

\* The job's timeout, which starts before the plan.
DeadlineExpires ==
  /\ Timeout
  /\ pc \in {"claimed", "plan", "stop", "decide"}
  /\ ctx = "live"
  /\ ctx' = "deadline"
  /\ UNCHANGED <<Job, row, working>>

\* A user cancels the build ...
CancelJobBuild ==
  /\ "cancel" \in Events
  /\ row = "started"
  /\ row' = "cancelled"
  /\ UNCHANGED <<Job, ctx, working>>

\* ... which an embedded worker polls for: it cancels the job's context.
pollForCancellation ==
  /\ ~mode.streamed
  /\ row = "cancelled"
  /\ pc # "end"
  /\ working /\ ctx = "live"
  /\ ctx' = "cancelled"
  /\ UNCHANGED <<Job, row, working>>

StopWorking ==
  /\ pc # "end"
  /\ working
  /\ working' = FALSE
  /\ ctx' = IF ctx = "live" THEN "cancelled" ELSE ctx
  /\ UNCHANGED <<Job, row>>

\* A worker on a stream is told: it cancels the context it gave to processJob.
handleGRPCCancel ==
  /\ mode.streamed
  /\ row = "cancelled"
  /\ StopWorking

\* So does Drain.
Drain ==
  /\ "drain" \in Events
  /\ StopWorking

\* A restarted server fails the builds that are started.
RecoverOrphanedBuilds ==
  /\ "restart" \in Events
  /\ row = "started"
  /\ row' = "failed"
  /\ UNCHANGED <<Job, ctx, working>>

-----------------------------------------------------------------------------
\* The steps of the plan that do not wait for a command.
Step(n) ==
  \/ Skip(n)
  \/ NoVersion(n)
  \/ NoInput(n)
  \/ \E created \in BOOLEAN : PutTrigger(n, created)
  \/ Begin(n)
  \/ Return(n)
  \/ \E p \in Parallels : Enter(p, n) \/ Abandon(p, n) \/ ReturnBranch(p, n)

Command(n) ==
  \/ Progress(n)
  \/ Retry(n)
  \/ CommandFails(n)
  \/ CommandSucceeds(n)
  \/ Ready(n)
  \/ NotReady(n)
  \/ RunHook(n)

PlanLoop ==
  \/ FailEarly \/ ReadFails \/ DeleteEarly \/ StartPlan \/ FailSecrets
  \/ NextStep \/ NextParallel \/ NextIf \/ NextIfFails
  \/ EndIf \/ JoinParallel \/ EndPlan
  \/ ServicesDone
  \/ TimedOut \/ Cancelled \/ Succeeded \/ Failed

Next ==
  \/ PlanLoop
  \/ \E n \in Names : Step(n) \/ Command(n)
  \/ \E n \in Services : StopService(n)
  \/ RunJobHook
  \/ RunAutoNotifications
  \/ Ended
  \/ DeadlineExpires
  \/ CancelJobBuild
  \/ pollForCancellation
  \/ handleGRPCCancel
  \/ Drain
  \/ RecoverOrphanedBuilds

Spec == Init /\ [][Next]_vars

\* Once the job's secrets are resolved the worker goes on by itself, and the server
\* answers it.  Of a command nothing is assumed: also one that is killed may leave
\* a process behind that keeps the pipes open, and the worker waits for it.
FairSpec ==
  /\ Spec
  /\ WF_vars(pc # "claimed" /\ PlanLoop)
  /\ WF_vars(\E n \in Names : Step(n))
  /\ WF_vars(\E n \in Idle : CommandSucceeds(n) \/ CommandFails(n))

-----------------------------------------------------------------------------
(* Properties.                                                             *)

Rows == {"started", "succeeded", "warning", "failed", "cancelled", "deleted"}

TypeOK ==
  /\ mode \in Modes
  /\ pc \in {"claimed", "plan", "stop", "decide", "tail", "end"}
  /\ agenda \in Seq(Names) /\ rest \in Seq(Names)
  /\ branch \in Ifs \cup {None} /\ cur \in Names \cup {None}
  /\ fr \in [Names -> Frame]
  /\ cut \subseteq FailFast
  /\ failed \in BOOLEAN
  /\ tail \in Seq([when: Whens, kind: HookKinds])
  /\ status \in Rows \ {"deleted"}
  /\ rec \in [Names -> StepStatus]
  /\ ctx \in {"live", "deadline", "cancelled"}
  /\ working \in BOOLEAN
  /\ up \subseteq Services /\ known \subseteq up
  /\ row \in Rows
  /\ saved \in [Names -> StepStatus]
  /\ ran \subseteq (Names \cup {"job"}) \X Whens
  /\ lost \in 0..MaxLost /\ copied \in BOOLEAN /\ down \in BOOLEAN
  /\ verdict \in Whens \cup {"none"}

\* What a finished job is is what its row says, though results are reported by
\* many calls of many functions, services are stopped and hooks run in between, a
\* user may cancel the build and the server may restart.  (Reports must get
\* through, and no failure have been reported for a copy, which may leave the row
\* at "started".)
ResultStored ==
  pc = "end" /\ lost = 0 /\ ~copied =>
    /\ row # "started"
    /\ verdict # "none" => row \in {status, "cancelled"}

\* A build succeeds, and its downstream jobs are evaluated for it, only if no step
\* of its plan has failed, in whatever block; with allow_failure it is a warning.
SuccessHonest ==
  /\ row = "succeeded" => \A n \in Names : ~fr[n].failed
  /\ down => mode.allowFailure \/ \A n \in Names : ~fr[n].failed

\* While the worker works and its reports get through, the job's hooks for the
\* outcome and its "ensure" hooks have run when processJob returns, whatever has
\* ended the plan.
HooksRun ==
  pc = "end" /\ verdict # "none" /\ working /\ lost = 0 =>
    \A when \in {verdict, "ensure"} :
      mode.hooked /\ Hooks["job"][when] # <<>> => <<"job", when>> \in ran

\* A service that was started is stopped before the job's outcome is decided,
\* wherever in the plan it was started and however the plan ended.
ServicesStopped == pc \in {"decide", "tail", "end"} /\ lost = 0 => up = {}

\* After a step that fails no later step of the plan, or of its branch, begins.
FailureStops ==
  LET Stops(steps) ==
        \A i, k \in 1..Len(steps) :
          i < k /\ fr[steps[i]].at = "done" /\ fr[steps[i]].failed => fr[steps[k]].at = "off"
  IN  Stops(Plan) /\ \A q \in Ifs : \A steps \in Branches[q] : Stops(steps)

\* Once a branch of a fail_fast block has failed, no other begins.
FailFastHolds ==
  [][\A p \in FailFast : \A m, n \in Members[p] :
       fr[m].at = "done" /\ fr[m].failed /\ fr[n].at = "ready" => fr'[n].at # "in"]_vars

\* No step of a finished build is left as running in its row.
StepsSettled == pc = "end" /\ lost = 0 => \A n \in Names : saved[n] # "started"

\* A command of n, its ready check, one of its hooks or its stop command runs.
Busy(n) ==
  \/ n \in Commands \ Idle /\ fr[n].at \in {"run", "probe"}
  \/ fr[n].at = "hooks" /\ fr[n].hooks # <<>>
  \/ pc = "stop" /\ n \in known

\* The plan of a job comes to its end unless one of its commands never returns:
\* the branches of a block do not wait for each other or for a place for ever,
\* whichever fail, whenever the context ends and whatever reports are lost.
PlanEnds ==
  <>[](pc = "claimed") \/ <>(pc \in {"tail", "end"}) \/ \E n \in Names : <>[]Busy(n)
=============================================================================
