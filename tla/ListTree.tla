------------------------------ MODULE ListTree ------------------------------
(***************************************************************************)
(* The list view of a pipeline (PipelineListView.js): which resource it is *)
(* about, over every pipeline of a bounded shape.  A job is its place in   *)
(* pipeline.jobs; a plan is its get steps.  ListRows computes the rows.    *)
(***************************************************************************)
EXTENDS Router, Integers, Sequences, FiniteSets

CONSTANTS
    Names,      \* number of jobs
    Gets,       \* the resources a get step may name
    Pipelines   \* the pipelines: a plan for each job

Get == [r : Gets, trigger : BOOLEAN, passed : SUBSET (1..Names)]

ASSUME ListAssumption == Names \in Nat /\ Pipelines \subseteq [1..Names -> Seq(Get)]

VARIABLES
    jobs,       \* pipeline.jobs: the plan of each job
    resource    \* selectedResource

listTreeVars == <<jobs, resource>>

JobNames == 1..Names
NoResource == "none"

-----------------------------------------------------------------------------
\* The get steps by their place: a job and a step of its plan, in the order in
\* which the loops of findTriggerResources meet them.
GetAt(x) == jobs[x[1]][x[2]]
Precedes(x, y) == x[1] < y[1] \/ (x[1] = y[1] /\ x[2] < y[2])

Triggers ==
    LET places == UNION {{<<j, k>> : k \in DOMAIN jobs[j]} : j \in JobNames}
    IN  {x \in places : GetAt(x).trigger /\ GetAt(x).passed = {}}

\* the first trigger of each resource
Found == {x \in Triggers : \A y \in Triggers : Precedes(y, x) => GetAt(y).r # GetAt(x).r}

\* findTriggerResources: triggers without passed, in order and without repetition
findTriggerResources ==
    [n \in 1..Cardinality(Found) |->
        GetAt(CHOOSE x \in Found : Cardinality({y \in Found : Precedes(y, x)}) = n - 1).r]

-----------------------------------------------------------------------------
(* The page. *)

ListIdle == jobs = [j \in JobNames |-> <<>>] /\ resource = NoResource

OpenList ==
    /\ Enter("list")
    /\ \E p \in Pipelines : jobs' = p
    /\ LET found == findTriggerResources'
       IN  resource' = IF found = <<>> THEN NoResource ELSE found[1]

ChooseResource(r) ==
    /\ On("list") /\ r # resource
    /\ \E k \in DOMAIN findTriggerResources : findTriggerResources[k] = r
    /\ resource' = r
    /\ UNCHANGED jobs

LeaveList ==
    /\ Leave("list")
    /\ jobs' = [j \in JobNames |-> <<>>] /\ resource' = NoResource

ListNext == OpenList \/ LeaveList \/ \E r \in Gets : ChooseResource(r)

ListSpec == page = Elsewhere /\ ListIdle /\ [][ListNext]_<<page, listTreeVars>>

-----------------------------------------------------------------------------
ListTypeOK == DOMAIN jobs = JobNames /\ resource \in Gets \union {NoResource}
=============================================================================
