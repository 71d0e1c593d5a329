--------------------------- MODULE MCJobExecution ---------------------------
(***************************************************************************)
(* A small job for JobExecution.                                           *)
(***************************************************************************)
EXTENDS JobExecution

CONSTANTS db, web, get, test, tick, gone, fire, par, cond

\* A service and a get step; side by side a task, a put that has nothing to run
\* and a step whose resource is unknown; in a branch a second service and the put
\* of a trigger.
JobSteps     == {get, test, tick, gone, fire}
JobPlan      == <<db, get, par, cond>>
JobKind      == [n \in Steps |-> CASE n = get -> "get" [] n = gone -> "unknown"
                                   [] n = fire -> "trigger" [] n = tick -> "put" [] OTHER -> "task"]
JobMembers   == [p \in Parallels |-> {test, tick, gone}]
JobLimit     == [p \in Parallels |-> 2]
JobBranches  == [q \in Ifs |-> {<<web, fire>>}]
JobAttempts  == [n \in Steps |-> IF n = test THEN 2 ELSE 0]

\* An embedded worker and a job with hooks; a worker on a stream; a job whose
\* failure is allowed.
JobModes ==
  {[streamed |-> FALSE, allowFailure |-> FALSE, hooked |-> TRUE],
   [streamed |-> TRUE,  allowFailure |-> FALSE, hooked |-> FALSE],
   [streamed |-> FALSE, allowFailure |-> TRUE,  hooked |-> FALSE]}

\* A worker on a stream and a job with hooks.
StreamModes == {[streamed |-> TRUE, allowFailure |-> FALSE, hooked |-> TRUE]}

JobHooks == [n \in Steps \cup Parallels \cup Ifs \cup {"job"} |-> [w \in Whens |->
  CASE n = "job" /\ w = "ensure"     -> <<"runner", "runner">>
    [] n = "job" /\ w = "on_cancel"  -> <<"runner">>
    [] n = get   /\ w = "ensure"     -> <<"runner">>
    [] n = par   /\ w = "on_failure" -> <<"step">>
    [] OTHER -> <<>>]]
=============================================================================
