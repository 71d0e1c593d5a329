---------------------------- MODULE PipelineView ----------------------------
(***************************************************************************)
(* The page of one pipeline: PipelineShow.js with its graph, and the list  *)
(* view of PipelineListView.js, as far as a version is tracked on it.      *)
(*                                                                         *)
(* The version is kept in the URL, in the state of the page, in the        *)
(* banner, in the graph that was fetched last and in the list's scope.     *)
(* Polls, the resolution of a shared link and what the user does change    *)
(* them through requests whose answers come back in any order.  The page   *)
(* is taken as visible: a hidden one does not poll.                        *)
(***************************************************************************)
EXTENDS Integers, FiniteSets

CONSTANTS
    Versions,   \* the version ids (numbers, none of them 0)
    Resources,  \* number of resources of the pipeline
    Owner,      \* the index of the resource each version belongs to
    Copies,     \* bound: equal requests in flight
    MaxReqs     \* bound: requests in flight

None == 0
Scopes == Versions \union {None}

ASSUME PipelineAssumption ==
    /\ Versions \subseteq Nat \ {0} /\ Resources \in Nat
    /\ Owner \in [Versions -> 1..Resources]
    /\ Copies \in Nat \ {0} /\ MaxReqs \in Nat

VARIABLES
    url,        \* ?version= of the address
    initialVID, \* the version of the address when the page was last rendered
    tracked,    \* trackedVersion
    banner,     \* versionBanner
    dot,        \* the version (or None) whose graph dotSource holds; -1 at first
    loaded,     \* pipeline: nothing is rendered before it
    resolved,   \* resolvedRef
    view,       \* currentView
    scope,      \* versionChainJobs of the list view
    selected,   \* a job is selected in the list view
    firstTracked, \* trackedVersion in the list view's first render
    reqs        \* requests in flight

vars == <<url, initialVID, tracked, banner, dot, loaded, resolved, view, scope, selected,
          firstTracked, reqs>>
listVars == <<view, scope, selected, firstTracked>>

\* image: fetchImage; path: pollVersionPath; resolve: a step of
\* resolveVersionResource, which asks resource number i
Request == [kind : {"image", "path", "resolve"}, v : Scopes, i : 0..Resources,
            n : 1..Copies]

\* q with one more request: equal ones are told apart by n, and taken as one when
\* the bound is reached
With(q, k, x, j) ==
    LET free == {n \in 1..Copies : [kind |-> k, v |-> x, i |-> j, n |-> n] \notin q}
        m == CHOOSE n \in free : \A o \in free : n <= o
    IN  IF free = {} THEN q ELSE q \union {[kind |-> k, v |-> x, i |-> j, n |-> m]}

fetchImage(q, x) == With(q, "image", x, 0)
pollVersionPath(q, x) == IF x = None THEN q ELSE With(q, "path", x, 0)

-----------------------------------------------------------------------------
(* The list view. *)

\* PipelineShow is rendered again, which reads the address.  The list view has
\* its own state: an address it writes is not read before that.
Rendered == initialVID' = url'

\* selectJob: the address of the job, with the version that the closure knows
selectJob(known) == selected' = TRUE /\ url' = known

\* applyVersionScope.  The page calls it through a ref that is set once, when the
\* list view is mounted, which it is not before the pipeline has loaded: selectJob
\* runs with the trackedVersion of that render.
applyVersionScope(x) ==
    IF view # "list" \/ ~loaded THEN UNCHANGED <<scope, selected, url>>
    ELSE /\ scope' = x
         /\ IF scope = None THEN selectJob(firstTracked)
            ELSE UNCHANGED <<selected, url>>

\* jobs were polled and none is selected: the first one that did not succeed
AutoSelect ==
    /\ loaded /\ view = "list" /\ ~selected
    /\ selectJob(tracked)
    /\ UNCHANGED <<initialVID, tracked, banner, dot, loaded, resolved, view, scope, firstTracked, reqs>>

\* a row of the list is clicked
ClickJob ==
    /\ loaded /\ view = "list" /\ selected
    /\ selectJob(tracked)
    /\ UNCHANGED <<initialVID, tracked, banner, dot, loaded, resolved, view, scope, firstTracked, reqs>>

\* The list view goes away with its state, or is mounted anew.
switchView ==
    /\ loaded
    /\ view' = IF view = "graph" THEN "list" ELSE "graph"
    /\ scope' = None /\ selected' = FALSE
    /\ firstTracked' = IF view' = "list" THEN tracked ELSE None
    /\ UNCHANGED <<url, tracked, banner, dot, loaded, resolved, reqs>>
    /\ Rendered

-----------------------------------------------------------------------------
(* The page. *)

\* ?version= and the saved view are read when the page is opened
Init ==
    /\ url \in Scopes /\ initialVID = url
    /\ view \in {"graph", "list"}
    /\ tracked = None /\ banner = None /\ dot = -1
    /\ loaded = FALSE /\ resolved = FALSE
    /\ scope = None /\ selected = FALSE /\ firstTracked = None
    /\ reqs = {}

\* fetchPipeline has answered: the template is rendered.  It is asked once, and
\* when it fails the page stays empty.
PipelineLoaded ==
    /\ ~loaded
    /\ loaded' = TRUE
    /\ firstTracked' = IF view = "list" THEN tracked ELSE None
    /\ UNCHANGED <<url, tracked, banner, dot, resolved, view, scope, selected, reqs>>
    /\ Rendered

\* Mutant: the version is taken from the address alone; or nothing is asked while
\* no version is tracked.
pollCallback_Address ==
    /\ Cardinality(reqs) + 2 <= MaxReqs
    /\ reqs' = pollVersionPath(fetchImage(reqs, initialVID), tracked)
    /\ UNCHANGED <<url, initialVID, tracked, banner, dot, loaded, resolved, listVars>>
pollCallback_TrackedOnly ==
    /\ Cardinality(reqs) + 2 <= MaxReqs /\ tracked # None
    /\ reqs' = pollVersionPath(fetchImage(reqs, tracked), tracked)
    /\ UNCHANGED <<url, initialVID, tracked, banner, dot, loaded, resolved, listVars>>

\* pollCallback: the graph of the tracked version, or of the one in the address
pollCallback ==
    /\ Cardinality(reqs) + 2 <= MaxReqs
    /\ reqs' = pollVersionPath(fetchImage(reqs, IF tracked # None THEN tracked ELSE initialVID),
                               tracked)
    /\ UNCHANGED <<url, initialVID, tracked, banner, dot, loaded, resolved, listVars>>

\* fetchResources has answered, at the start or for the poll of the list view: the
\* first time that there are resources and the address has a version, its resource
\* is looked for
ResourcesAnswered ==
    /\ IF ~resolved /\ url # None /\ Resources > 0
       THEN /\ Cardinality(reqs) < MaxReqs
            /\ resolved' = TRUE
            /\ reqs' = With(reqs, "resolve", url, 1)
       ELSE UNCHANGED <<resolved, reqs>>
    /\ UNCHANGED <<url, tracked, banner, dot, loaded, listVars>>
    /\ Rendered

\* trackVersion, from the panel or the list's menu
trackVersion(x) ==
    /\ loaded /\ x # tracked /\ Cardinality(reqs) + 2 <= MaxReqs
    /\ tracked' = x
    /\ url' = x
    /\ reqs' = pollVersionPath(fetchImage(reqs, x), x)
    /\ UNCHANGED <<banner, dot, loaded, resolved, listVars>>
    /\ Rendered

\* clearVersionScope, from the banner or the list's menu, which always offers it
clearVersionScope ==
    /\ loaded /\ (banner # None \/ view = "list")
    /\ Cardinality(reqs) < MaxReqs
    /\ tracked' = None /\ banner' = None /\ url' = None
    /\ scope' = None
    /\ reqs' = fetchImage(reqs, None)
    /\ UNCHANGED <<dot, loaded, resolved, view, selected, firstTracked>>
    /\ Rendered

\* onSelectResource: another resource is chosen in the list view
onSelectResource ==
    /\ loaded /\ view = "list" /\ Cardinality(reqs) < MaxReqs
    /\ selected' = FALSE
    /\ tracked' = None /\ banner' = None /\ url' = None
    /\ scope' = None
    /\ reqs' = fetchImage(reqs, None)
    /\ UNCHANGED <<dot, loaded, resolved, view, firstTracked>>
    /\ Rendered

-----------------------------------------------------------------------------
(* Answers. *)

ImageAnswered(r) ==
    /\ r.kind = "image"
    /\ dot' = r.v
    /\ reqs' = reqs \ {r}
    /\ UNCHANGED <<url, tracked, banner, loaded, resolved, listVars>>
    /\ IF dot' = dot THEN UNCHANGED initialVID ELSE Rendered

PathAnswered(r) ==
    /\ r.kind = "path"
    /\ banner' = r.v
    /\ applyVersionScope(r.v)
    /\ reqs' = reqs \ {r}
    /\ UNCHANGED <<tracked, dot, loaded, resolved, view, firstTracked>>
    /\ Rendered

\* resolveVersionResource: the resource that has a path for the version is
\* tracked
Resolved(r) ==
    /\ r.kind = "resolve" /\ r.i = Owner[r.v]
    /\ tracked' = r.v /\ banner' = r.v
    /\ applyVersionScope(r.v)
    /\ reqs' = reqs \ {r}
    /\ UNCHANGED <<dot, loaded, resolved, view, firstTracked>>
    /\ Rendered

\* Mutant: one resource too many is asked.
tryNext_PastEnd(r) ==
    /\ r.kind = "resolve"
    /\ reqs' = IF r.i <= Resources THEN With(reqs \ {r}, "resolve", r.v, r.i + 1)
               ELSE reqs \ {r}
    /\ UNCHANGED <<url, initialVID, tracked, banner, dot, loaded, resolved, listVars>>

\* tryNext: no path, or the request failed
tryNext(r) ==
    /\ r.kind = "resolve"
    /\ reqs' = IF r.i < Resources THEN With(reqs \ {r}, "resolve", r.v, r.i + 1)
               ELSE reqs \ {r}
    /\ UNCHANGED <<url, initialVID, tracked, banner, dot, loaded, resolved, listVars>>

\* a failed image or path request is ignored
Ignored(r) ==
    /\ r.kind \in {"image", "path"}
    /\ reqs' = reqs \ {r}
    /\ UNCHANGED <<url, initialVID, tracked, banner, dot, loaded, resolved, listVars>>

Answered(r) == ImageAnswered(r) \/ PathAnswered(r) \/ Resolved(r)

Next ==
    \/ AutoSelect \/ ClickJob \/ switchView \/ PipelineLoaded \/ pollCallback
    \/ ResourcesAnswered \/ clearVersionScope \/ onSelectResource
    \/ \E x \in Versions : trackVersion(x)
    \/ \E r \in reqs : Answered(r) \/ tryNext(r) \/ Ignored(r)

\* The page is visible, so that the loops poll; every request settles, and a read
\* that is repeated again and again is answered in the end.
Fairness ==
    /\ WF_vars(pollCallback)
    /\ WF_vars(view = "list" /\ ResourcesAnswered)
    /\ WF_vars(\E r \in reqs : Answered(r) \/ tryNext(r) \/ Ignored(r))
    /\ \A k \in {"image", "path"}, x \in Scopes :
          SF_vars(\E r \in reqs : r.kind = k /\ r.v = x /\ Answered(r))

Spec == Init /\ [][Next]_vars /\ Fairness

-----------------------------------------------------------------------------
TypeOK ==
    /\ url \in Scopes /\ initialVID \in Scopes /\ tracked \in Scopes /\ banner \in Scopes /\ scope \in Scopes
    /\ dot \in Scopes \union {-1}
    /\ loaded \in BOOLEAN /\ resolved \in BOOLEAN /\ selected \in BOOLEAN
    /\ view \in {"graph", "list"} /\ firstTracked \in Scopes
    /\ reqs \subseteq Request

\* A version that stays tracked on a loaded page is shown: graph, banner and list
\* agree on it at some time, although answers for other versions come late
\* (fetchImage and pollVersionPath discard none of them), and although the list
\* was not there yet when the version of the address was resolved.
ScopeShown ==
    \A x \in Versions :
        loaded /\ tracked = x ~> \/ tracked # x
                                 \/ dot = x /\ banner = x /\ (view = "list" => scope = x)

\* Nothing is tracked and the address has no version: the whole graph comes back.
GraphRestored ==
    tracked = None /\ url = None ~> tracked # None \/ url # None \/ dot = None
=============================================================================
